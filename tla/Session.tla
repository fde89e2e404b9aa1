------------------------------ MODULE Session ------------------------------
(***************************************************************************)
(* One device whose user signs in and out of accounts, and the calls of    *)
(* FirebaseBackendService that are suspended meanwhile.                    *)
(*                                                                         *)
(* Every change of the user starts handleUserChange, which attaches the    *)
(* account and awaits the initial sync.  Nothing cancels it: a call goes   *)
(* on with the account it was started for, whoever is signed in by then.   *)
(*                                                                         *)
(* The lists are abstracted to whose rows they hold: a row counts as made  *)
(* under the account the device was attached to at that time, or none.     *)
(* Default categories, which every device makes by itself, are no rows.    *)
(* The preferences in the user document are abstracted to its existence;   *)
(* what it says is AccountDocument's matter.  The hop from a listener's    *)
(* callback to the main actor is TaskSync's.                               *)
(*                                                                         *)
(* External, modelled from its use: Firebase.  Its rules are not part of   *)
(* the repository; documents are served to the signed-in account only,     *)
(* the strictest rules there could be, and any call may fail.              *)
(***************************************************************************)
EXTENDS Naturals, Sequences

CONSTANTS
    Account,
    Nobody,         \* no account
    WaitToSignIn,   \* does the user sign in only when no call is under way?
    MaxActs,        \* things the user does (bound)
    MaxMishaps      \* kills of the process and failing requests (bound)

ASSUME NobodyAssumption == Nobody \notin Account
ASSUME BoundAssumption == MaxActs \in Nat /\ MaxMishaps \in Nat
ASSUME WaitAssumption == WaitToSignIn \in BOOLEAN

Author == Account \cup {Nobody}

VARIABLES
    user,       \* AuthService.user
    changes,    \* users that were published and not handled yet
    list,       \* authors of the rows in the store
    lastUser,   \* lastBackendUserId
    stored,     \* hasStoredExperimentalPreference, hasStoredInsightsHintState
    scope,      \* currentScopeKey of the telemetry
    calls,      \* handleUserChange and forceSync calls that are suspended
    backend,    \* the account of FirebaseBackendService.backend and the store's
    listener,   \* the account of `listeners`
    orphans,    \* accounts whose listeners nothing can remove any more
    sinks,      \* the account of metadataCancellables
    writes,     \* accounts to which writes of their rows were spawned
    pushes,     \* accounts to which writes of the preferences were spawned
    docs,       \* docs[a]: authors of the rows in a's collections
    profile,    \* profile[a]: does a's user document exist?
    news,       \* what a's listeners have not reported yet
    erasing,    \* where the deletion of an account stands
    erased,     \* accounts that were deleted
    acts, mishaps

auth    == <<user, changes>>
saved   == <<list, lastUser, stored, scope>>     \* survives the process
service == <<backend, listener, orphans, sinks>>
spawned == <<writes, pushes>>
remote  == <<docs, profile, news>>
erasure == <<erasing, erased>>
counts  == <<acts, mishaps>>
vars    == <<auth, saved, calls, service, spawned, remote, erasure, counts>>

Stage == {"pushing", "fetching", "fetched", "uploading", "profile"}

Call == [account : Account, force : BOOLEAN, at : Stage, rows : SUBSET Author]

CallId == 1..(MaxActs + MaxMishaps + 1)

NotErasing == [account |-> Nobody, at |-> "no", rows |-> {}]

TypeOK ==
    /\ {user, lastUser, scope, backend, listener, sinks} \subseteq Author
    /\ changes \in Seq(Author) /\ list \subseteq Author /\ stored \in BOOLEAN
    /\ DOMAIN calls \subseteq CallId /\ calls \in [DOMAIN calls -> Call]
    /\ orphans \cup writes \cup pushes \cup erased \subseteq Account
    /\ docs \in [Account -> SUBSET Author] /\ profile \in [Account -> BOOLEAN]
    /\ news \subseteq Account \X {"lists", "profile"}
    /\ erasing \in {NotErasing} \cup
           [account : Account, at : {"docs", "deleting", "reset", "auth"}, rows : SUBSET Author]
    /\ acts \in 0..MaxActs /\ mishaps \in 0..MaxMishaps

\* A fresh install, perhaps with rows made before anyone signed in; accounts
\* may have been used on other devices.
Init ==
    /\ user = Nobody /\ changes = <<Nobody>>
    /\ list \in {{}, {Nobody}} /\ lastUser = Nobody /\ scope = Nobody
    /\ stored \in BOOLEAN
    /\ calls = <<>>
    /\ backend = Nobody /\ listener = Nobody /\ orphans = {} /\ sinks = Nobody
    /\ writes = {} /\ pushes = {}
    /\ docs \in [Account -> SUBSET Account] /\ \A a \in Account : docs[a] \subseteq {a}
    /\ profile = [a \in Account |-> docs[a] # {}]
    /\ news = {}
    /\ erasing = NotErasing /\ erased = {}
    /\ acts = 0 /\ mishaps = 0

-----------------------------------------------------------------------------
(* The user.                                                               *)

Acts == acts < MaxActs /\ acts' = acts + 1 /\ UNCHANGED mishaps

GoesWrong == mishaps < MaxMishaps /\ mishaps' = mishaps + 1 /\ UNCHANGED acts

\* AuthService publishes the user, which spawns a handleUserChange.
Published(u) == user' = u /\ changes' = Append(changes, u)

Quiet == changes = <<>> /\ calls = <<>> /\ erasing.at = "no"

Switch(u) ==
    /\ Acts
    /\ Published(u)
    /\ UNCHANGED <<saved, calls, service, spawned, remote, erasure>>

\* Refused while somebody is signed in.
SignIn(a) ==
    /\ user = Nobody /\ a \notin erased
    /\ WaitToSignIn => Quiet
    /\ Switch(a)

SignOut == user # Nobody /\ Switch(Nobody)

\* Any operation that adds a row: it spawns a write to the account attached.
MakeRow ==
    /\ Acts
    /\ list' = list \cup {backend}
    /\ writes' = writes \cup ({backend} \cap Account)
    /\ UNCHANGED <<auth, lastUser, stored, scope, calls, service, pushes, remote, erasure>>

-----------------------------------------------------------------------------
(* handleUserChange, forceSync, and where their awaits leave them.         *)

Suspended(call) ==
    \E c \in CallId \ DOMAIN calls :
        /\ \A d \in CallId \ DOMAIN calls : c <= d
        /\ calls' = [d \in DOMAIN calls \cup {c} |-> IF d = c THEN call ELSE calls[d]]

Goes(c, stage, got) == calls' = [calls EXCEPT ![c].at = stage, ![c].rows = got]

Ended(c) == calls' = [d \in DOMAIN calls \ {c} |-> calls[d]]

CallAt(a, force, stage, got) == [account |-> a, force |-> force, at |-> stage, rows |-> got]

\* stopListeners, and everything else a change of the user undoes.
Detached(u) ==
    /\ changes # <<>> /\ u = Head(changes) /\ changes' = Tail(changes)
    /\ backend' = u /\ listener' = Nobody /\ sinks' = Nobody
    /\ UNCHANGED <<user, orphans, spawned, remote, erasure, counts>>

AttachedKeepingList(u) ==
    /\ lastUser' = u
    /\ Suspended(CallAt(u, FALSE, "fetching", {}))
    /\ UNCHANGED <<list, stored>>

\* resetForNewUser forgets the list of another account and stores the default
\* preferences.
Attached(u) ==
    /\ lastUser' = u
    /\ Suspended(CallAt(u, FALSE, "fetching", {}))
    /\ IF lastUser \in {u, Nobody} THEN UNCHANGED <<list, stored>>
       ELSE list' = {} /\ stored' = TRUE

\* handleUserChange, up to the await of fetchAll.
HandleSignIn(u) ==
    /\ Detached(u) /\ u # Nobody
    /\ scope' = u
    /\ Attached(u)

HandleSignOutKeepingScope ==
    /\ Detached(Nobody)
    /\ UNCHANGED <<list, lastUser, stored, scope, calls>>

HandleSignOut ==
    /\ Detached(Nobody)
    /\ scope' = Nobody
    /\ UNCHANGED <<list, lastUser, stored, calls>>

\* forceSync, past its guards, up to the await of the push.
ForceSync ==
    /\ user # Nobody /\ backend = user
    /\ \A c \in DOMAIN calls : ~calls[c].force
    /\ Acts
    /\ Suspended(CallAt(user, TRUE, IF list = {} THEN "fetching" ELSE "pushing", list))
    /\ UNCHANGED <<auth, saved, service, spawned, remote, erasure>>

\* Rows arrive in a's collections.
Uploaded(a, got) ==
    /\ docs' = [docs EXCEPT ![a] = @ \cup got]
    /\ news' = news \cup {<<a, "lists">>}

PushDone(c) ==
    /\ calls[c].at = "pushing" /\ user = calls[c].account
    /\ Uploaded(user, calls[c].rows)
    /\ Goes(c, "fetching", {})
    /\ UNCHANGED <<auth, saved, service, spawned, profile, erasure, counts>>

FetchAnswered(c) ==
    /\ calls[c].at = "fetching" /\ user = calls[c].account
    /\ Goes(c, "fetched", docs[user])
    /\ UNCHANGED <<auth, saved, service, spawned, remote, erasure, counts>>

\* An empty collection is filled from the list as it is now, any other is
\* applied to it.
FetchHandled(c) ==
    /\ calls[c].at = "fetched"
    /\ IF calls[c].rows = {} /\ list # {}
       THEN Goes(c, "uploading", list) /\ UNCHANGED list
       ELSE Goes(c, "profile", {}) /\ list' = calls[c].rows
    /\ UNCHANGED <<auth, lastUser, stored, scope, service, spawned, remote, erasure, counts>>

UploadDoneNeverResumed(c) ==
    /\ calls[c].at = "uploading" /\ user = calls[c].account
    /\ Uploaded(user, calls[c].rows)
    /\ Goes(c, "uploaded", {})
    /\ UNCHANGED <<auth, saved, service, spawned, profile, erasure, counts>>

\* What is applied after an upload is the list itself.
UploadDone(c) ==
    /\ calls[c].at = "uploading" /\ user = calls[c].account
    /\ Uploaded(user, calls[c].rows)
    /\ Goes(c, "profile", {})
    /\ UNCHANGED <<auth, saved, service, spawned, profile, erasure, counts>>

\* startListeners, which forgets listeners it still holds, and
\* startMetadataSync; a forced sync does neither.  Listeners first report what
\* is there.
Listening(c) ==
    LET a == calls[c].account
    IN  IF calls[c].force THEN UNCHANGED service /\ news' = news
        ELSE /\ listener' = a /\ sinks' = a
             /\ orphans' = orphans \cup ({listener} \cap Account)
             /\ news' = news \cup {a} \X {"lists", "profile"}
             /\ UNCHANGED backend

\* The preferences: fetched, reconciled and, if the account has none, pushed if
\* they were ever stored; so is a group position other than 0.
SyncDone(c) ==
    /\ calls[c].at = "profile" /\ user = calls[c].account
    /\ \E positioned \in BOOLEAN :
          profile' = [profile EXCEPT ![user] = @ \/ stored \/ positioned]
    /\ stored' = TRUE
    /\ Listening(c) /\ Ended(c)
    /\ UNCHANGED <<auth, list, lastUser, scope, spawned, docs, erasure, counts>>

EndedByErrorSilently(c) ==
    /\ calls[c].at # "fetched"
    /\ Ended(c)
    /\ UNCHANGED <<auth, saved, service, spawned, remote, erasure>>

\* The error is swallowed, the listeners start all the same.
EndedByError(c) ==
    /\ calls[c].at # "fetched"
    /\ Listening(c) /\ Ended(c)
    /\ UNCHANGED <<auth, saved, spawned, docs, profile, erasure>>

SyncFails(c) == EndedByError(c) /\ GoesWrong

SyncDenied(c) == user # calls[c].account /\ EndedByError(c) /\ UNCHANGED counts

-----------------------------------------------------------------------------
(* Listeners and spawned writes.                                           *)

Reports(a, part) ==
    /\ a \in orphans \cup {listener} /\ user = a
    /\ <<a, part>> \in news /\ news' = news \ {<<a, part>>}
    /\ UNCHANGED <<auth, lastUser, scope, calls, service, writes, docs, profile, erasure, counts>>

\* applyRemoteNotes, -Tasks and -Categories, on whatever the list is.
ListsReported(a) ==
    /\ Reports(a, "lists")
    /\ list' = docs[a]
    /\ UNCHANGED <<stored, pushes>>

\* The reconcile functions: preferences that were stored are pushed to an
\* account that has none; from now on they are stored.
ProfileReported(a) ==
    /\ Reports(a, "profile")
    /\ pushes' = IF profile[a] \/ ~stored THEN pushes ELSE pushes \cup {a}
    /\ stored' = TRUE
    /\ UNCHANGED list

\* A write to another account than the signed-in one is denied.
RunWrite(a) ==
    /\ a \in writes /\ writes' = writes \ {a}
    /\ IF user = a THEN Uploaded(a, {a}) ELSE UNCHANGED <<docs, news>>
    /\ UNCHANGED <<auth, saved, calls, service, pushes, profile, erasure, counts>>

RunPush(a) ==
    /\ a \in pushes /\ pushes' = pushes \ {a}
    /\ profile' = [profile EXCEPT ![a] = @ \/ user = a]
    /\ UNCHANGED <<auth, saved, calls, service, writes, docs, news, erasure, counts>>

-----------------------------------------------------------------------------
(* The Big Red Button: deleteAllUserData, then deleteAccount.              *)

\* The way to the button is longer than the way of a user change to the backend.
Erase ==
    /\ user # Nobody /\ backend = user /\ erasing.at = "no"
    /\ Acts
    /\ erasing' = [account |-> user, at |-> "docs", rows |-> {}]
    /\ UNCHANGED <<auth, saved, calls, service, spawned, remote, erased>>

\* getDocuments answers.
EraseFetched ==
    /\ erasing.at = "docs" /\ user = erasing.account
    /\ erasing' = [erasing EXCEPT !.at = "deleting", !.rows = docs[user]]
    /\ UNCHANGED <<auth, saved, calls, service, spawned, remote, erased, counts>>

\* The documents that were there go one by one ...
EraseRow ==
    /\ erasing.at = "deleting" /\ user = erasing.account
    /\ \E x \in erasing.rows :
          /\ erasing' = [erasing EXCEPT !.rows = @ \ {x}]
          /\ docs' = [docs EXCEPT ![user] = @ \ {x}]
    /\ news' = news \cup {<<user, "lists">>}
    /\ UNCHANGED <<auth, saved, calls, service, spawned, profile, erased, counts>>

\* ... then the user document.
EraseProfile ==
    /\ erasing.at = "deleting" /\ user = erasing.account /\ erasing.rows = {}
    /\ erasing' = [erasing EXCEPT !.at = "reset"]
    /\ profile' = [profile EXCEPT ![user] = FALSE]
    /\ news' = news \cup {<<user, "profile">>}
    /\ UNCHANGED <<auth, saved, calls, service, spawned, docs, erased, counts>>

\* resetForNewUser: a preference or position that was not the default is
\* published, and the sinks push it.
EraseReset ==
    /\ erasing.at = "reset"
    /\ erasing' = [erasing EXCEPT !.at = "auth"]
    /\ list' = {} /\ stored' = TRUE
    /\ pushes' \in {pushes, pushes \cup ({sinks} \cap Account)}
    /\ UNCHANGED <<auth, lastUser, scope, calls, service, writes, remote, erased, counts>>

\* deleteAccount deletes whoever is signed in now, which signs the user out;
\* with nobody signed in it returns.
EraseDone ==
    /\ erasing.at = "auth"
    /\ erasing' = NotErasing
    /\ erased' = erased \cup ({user} \cap Account)
    /\ IF user = Nobody THEN UNCHANGED auth ELSE Published(Nobody)
    /\ UNCHANGED <<saved, calls, service, spawned, remote, counts>>

EndedErasing ==
    /\ erasing.at \in {"docs", "deleting", "auth"}
    /\ erasing' = NotErasing
    /\ UNCHANGED <<auth, saved, calls, service, spawned, remote, erased>>

\* Any request may fail, the last one for want of a recent sign-in.
EraseFails == EndedErasing /\ GoesWrong

EraseDenied ==
    /\ erasing.at # "auth" /\ user # erasing.account
    /\ EndedErasing /\ UNCHANGED counts

-----------------------------------------------------------------------------

\* The process ends and is started again: Firebase still knows the user and
\* reports it.
Kill ==
    /\ GoesWrong
    /\ changes' = <<user>>
    /\ calls' = <<>>
    /\ backend' = Nobody /\ listener' = Nobody /\ orphans' = {} /\ sinks' = Nobody
    /\ writes' = {} /\ pushes' = {}
    /\ erasing' = NotErasing
    /\ UNCHANGED <<user, saved, remote, erased>>

UserStep ==
    \/ \E a \in Account : SignIn(a)
    \/ SignOut
    \/ MakeRow
    \/ ForceSync
    \/ Erase

CallStep(c) ==
    \/ PushDone(c)
    \/ FetchAnswered(c)
    \/ FetchHandled(c)
    \/ UploadDone(c)
    \/ SyncDone(c)
    \/ SyncDenied(c)

AccountStep(a) ==
    \/ HandleSignIn(a)
    \/ ListsReported(a)
    \/ ProfileReported(a)
    \/ RunWrite(a)
    \/ RunPush(a)

EraseStep ==
    \/ EraseFetched
    \/ EraseRow
    \/ EraseProfile
    \/ EraseReset
    \/ EraseDone
    \/ EraseDenied

SystemStep ==
    \/ HandleSignOut
    \/ \E a \in Account : AccountStep(a)
    \/ \E c \in DOMAIN calls : CallStep(c)
    \/ EraseStep

Mishap == Kill \/ EraseFails \/ \E c \in DOMAIN calls : SyncFails(c)

Next == UserStep \/ SystemStep \/ Mishap

\* The main actor runs what was spawned, Firebase answers, denies or reports
\* in the end; the user owes nothing and nothing need go wrong.
Spec == Init /\ [][Next]_vars /\ WF_vars(SystemStep)

-----------------------------------------------------------------------------

\* A suspended initial sync applies what it fetched to whatever the lists are by
\* then, and an account without documents is filled from the lists.  Still, the
\* documents of an account only ever hold rows made under it, or under none:
\* provided nobody signs in before the calls of the last account have ended.
\* Signing out while they run is safe.
DocsHoldOwnRows == \A a \in Account : docs[a] \subseteq {a, Nobody}

\* Under the same proviso a device attached to an account never shows rows made
\* under another one, although resetForNewUser is left to the next sign-in,
\* perhaps in another process.
ListHoldsOwnRows == backend # Nobody => list \subseteq {backend, Nobody}

\* "Data is namespaced by auth user scope to avoid account mixing"
\* (InsightsTelemetryStore): record files an event under the scope in force,
\* which follows the user with a delay and survives the process.  An event of a
\* signed-in user is filed under that user or under none, never under another.
EventsHoldOwnScope == user # Nobody => scope \in {user, Nobody}

\* No forced sync and no deletion of an account runs.
Unforced == erasing.at = "no" /\ \A c \in DOMAIN calls : ~calls[c].force

\* Once the user stops, whatever failed, overlapped or was killed before, a
\* signed-in device listens to its account and publishes its preferences there,
\* and it shows the account's documents: provided no forced sync applied what it
\* had fetched over a newer report, and no deletion stopped half-way.
SettlesOnUser ==
    /\ <>[](user # Nobody => {backend, listener, sinks} = {user})
    /\ []Unforced => <>[](user # Nobody => list = docs[user])

\* "Permanently delete your NoteLayer account and all associated data"
\* (ManageAccountView): nothing of a deleted account is left in Firestore.
NothingLeftOfErased == \A a \in erased : docs[a] = {} /\ ~profile[a]

=============================================================================
