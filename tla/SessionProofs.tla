--------------------------- MODULE SessionProofs ---------------------------
(***************************************************************************)
(* Session keeps its types, and keeps the rows and events of accounts      *)
(* apart when users wait before they sign in: for any accounts, and        *)
(* whatever fails, is killed or signed out in between.                     *)
(***************************************************************************)
EXTENDS Session, TLAPS

USE DEF Author

\* A new call is one more call.
LEMMA SuspendedType ==
    ASSUME DOMAIN calls \subseteq CallId, calls \in [DOMAIN calls -> Call],
           NEW call \in Call, Suspended(call)
    PROVE  DOMAIN calls' \subseteq CallId /\ calls' \in [DOMAIN calls' -> Call]
  BY DEF Suspended

\* A call that goes on or ends stays what it was.
LEMMA GoesType ==
    ASSUME DOMAIN calls \subseteq CallId, calls \in [DOMAIN calls -> Call],
           NEW c \in DOMAIN calls, NEW stage \in Stage, NEW got \in SUBSET Author,
           Goes(c, stage, got)
    PROVE  DOMAIN calls' \subseteq CallId /\ calls' \in [DOMAIN calls' -> Call]
  BY DEF Goes, Call

\* A call that ends leaves the others as they are.
LEMMA EndedType ==
    ASSUME DOMAIN calls \subseteq CallId, calls \in [DOMAIN calls -> Call],
           NEW c, Ended(c)
    PROVE  DOMAIN calls' \subseteq CallId /\ calls' \in [DOMAIN calls' -> Call]
  BY DEF Ended

-----------------------------------------------------------------------------

\* A session starts well typed.
LEMMA InitTyped == Init => TypeOK
<1> SUFFICES ASSUME Init PROVE TypeOK
  OBVIOUS
<1>1. changes \in Seq(Author) /\ calls \in [DOMAIN calls -> Call] /\ DOMAIN calls \subseteq CallId
  BY DEF Init
<1>2. acts \in 0..MaxActs /\ mishaps \in 0..MaxMishaps
  BY BoundAssumption DEF Init
<1>3. docs \in [Account -> SUBSET Author] /\ profile \in [Account -> BOOLEAN]
  BY DEF Init
<1> QED
  BY <1>1, <1>2, <1>3 DEF Init, TypeOK, NotErasing

\* Acts of the user ...
LEMMA UserStepTyped ==
    ASSUME TypeOK, UserStep
    PROVE  TypeOK'
<1> USE DEF auth, saved, service, spawned, remote, erasure, counts
<1>0. acts < MaxActs /\ acts' = acts + 1 /\ mishaps' = mishaps => acts' \in 0..MaxActs
  BY BoundAssumption DEF TypeOK
<1>1. ASSUME NEW a \in Account, SignIn(a) PROVE TypeOK'
  BY <1>0, <1>1 DEF SignIn, Switch, Acts, Published, TypeOK
<1>2. CASE SignOut
  BY <1>0, <1>2 DEF SignOut, Switch, Acts, Published, TypeOK
<1>3. CASE MakeRow
  BY <1>0, <1>3 DEF MakeRow, Acts, TypeOK
<1>4. CASE ForceSync
  <2> DEFINE call == CallAt(user, TRUE, IF list = {} THEN "fetching" ELSE "pushing", list)
  <2>1. call \in Call
    BY <1>4, NobodyAssumption DEF ForceSync, CallAt, Call, Stage, TypeOK
  <2>2. Suspended(call)
    BY <1>4 DEF ForceSync
  <2> HIDE DEF call
  <2>3. DOMAIN calls' \subseteq CallId /\ calls' \in [DOMAIN calls' -> Call]
    BY <2>1, <2>2, SuspendedType DEF TypeOK
  <2> QED
    BY <1>0, <1>4, <2>3 DEF ForceSync, Acts, TypeOK
<1>5. CASE Erase
  BY <1>0, <1>5 DEF Erase, Acts, TypeOK
<1> QED
  BY <1>1, <1>2, <1>3, <1>4, <1>5 DEF UserStep

\* ... the handling of published users ...
LEMMA HandledTyped ==
    ASSUME TypeOK, HandleSignOut \/ \E a \in Account : HandleSignIn(a)
    PROVE  TypeOK'
<1> USE DEF auth, saved, service, spawned, remote, erasure, counts
<1>1. CASE HandleSignOut
  BY <1>1 DEF HandleSignOut, Detached, TypeOK
<1>2. ASSUME NEW a \in Account, HandleSignIn(a) PROVE TypeOK'
  <2>1. CallAt(a, FALSE, "fetching", {}) \in Call
    BY DEF CallAt, Call, Stage
  <2>2. DOMAIN calls' \subseteq CallId /\ calls' \in [DOMAIN calls' -> Call]
    BY <1>2, <2>1, SuspendedType DEF HandleSignIn, Attached, TypeOK
  <2>3. changes' \in Seq(Author)
    BY <1>2 DEF HandleSignIn, Detached, TypeOK
  <2> QED
    BY <1>2, <2>2, <2>3 DEF HandleSignIn, Attached, Detached, TypeOK
<1> QED
  BY <1>1, <1>2

\* Where rows arrive they are typed.
LEMMA UploadedTyped ==
    ASSUME TypeOK, NEW a \in Account, NEW got \in SUBSET Author, Uploaded(a, got)
    PROVE  /\ docs' \in [Account -> SUBSET Author]
           /\ news' \subseteq Account \X {"lists", "profile"}
  BY DEF Uploaded, TypeOK

\* ... (where starting the listeners replaces those of before) ...
LEMMA ListeningTyped ==
    ASSUME TypeOK, NEW c \in DOMAIN calls, Listening(c)
    PROVE  /\ {backend', listener', sinks'} \subseteq Author
           /\ orphans' \subseteq Account
           /\ news' \subseteq Account \X {"lists", "profile"}
<1>1. calls[c].account \in Account
  BY DEF TypeOK, Call
<1>2. calls[c].account \in Author
  BY <1>1
<1>3. CASE calls[c].force
  BY <1>3 DEF Listening, service, TypeOK
<1>4. CASE ~calls[c].force
  BY <1>1, <1>2, <1>4 DEF Listening, TypeOK
<1> QED
  BY <1>3, <1>4

\* ... the stages of calls ...
LEMMA CallStepTyped ==
    ASSUME TypeOK, NEW c \in DOMAIN calls, CallStep(c) \/ SyncFails(c)
    PROVE  TypeOK'
<1> USE DEF auth, saved, service, spawned, remote, erasure, counts
<1>0. /\ calls[c].account \in Account /\ calls[c].rows \in SUBSET Author
      /\ list \in SUBSET Author
      /\ DOMAIN calls \subseteq CallId /\ calls \in [DOMAIN calls -> Call]
  BY DEF TypeOK, Call
<1> DEFINE CallsTyped == DOMAIN calls' \subseteq CallId /\ calls' \in [DOMAIN calls' -> Call]
<1>1. CASE PushDone(c)
  <2>1. CallsTyped
    BY <1>0, <1>1, GoesType DEF PushDone, Stage
  <2>2. user \in Account /\ Uploaded(user, calls[c].rows)
    BY <1>0, <1>1 DEF PushDone
  <2> QED
    BY <1>0, <1>1, <2>1, <2>2, UploadedTyped DEF PushDone, TypeOK
<1>2. CASE FetchAnswered(c)
  <2>1. docs[user] \in SUBSET Author
    BY <1>0, <1>2 DEF FetchAnswered, TypeOK
  <2>2. CallsTyped
    BY <1>0, <1>2, <2>1, GoesType DEF FetchAnswered, Stage
  <2> QED
    BY <1>2, <2>2 DEF FetchAnswered, TypeOK
<1>3. CASE FetchHandled(c)
  <2>1. CallsTyped
    BY <1>0, <1>3, GoesType DEF FetchHandled, Stage
  <2>2. list' \subseteq Author
    BY <1>0, <1>3 DEF FetchHandled
  <2> QED
    BY <1>3, <2>1, <2>2 DEF FetchHandled, TypeOK
<1>4. CASE UploadDone(c)
  <2>1. CallsTyped
    BY <1>0, <1>4, GoesType DEF UploadDone, Stage
  <2>2. user \in Account /\ Uploaded(user, calls[c].rows)
    BY <1>0, <1>4 DEF UploadDone
  <2> QED
    BY <1>0, <1>4, <2>1, <2>2, UploadedTyped DEF UploadDone, TypeOK
<1>5. CASE SyncDone(c)
  <2>1. CallsTyped
    BY <1>0, <1>5, EndedType DEF SyncDone
  <2>2. profile' \in [Account -> BOOLEAN]
    BY <1>5 DEF SyncDone, TypeOK
  <2>3. /\ {backend', listener', sinks'} \subseteq Author
        /\ orphans' \subseteq Account
        /\ news' \subseteq Account \X {"lists", "profile"}
    BY <1>5, ListeningTyped DEF SyncDone
  <2> QED
    BY <1>5, <2>1, <2>2, <2>3 DEF SyncDone, TypeOK
<1>6. CASE EndedByError(c) /\ acts' \in 0..MaxActs /\ mishaps' \in 0..MaxMishaps
  <2>1. CallsTyped
    BY <1>0, <1>6, EndedType DEF EndedByError
  <2>2. /\ {backend', listener', sinks'} \subseteq Author
        /\ orphans' \subseteq Account
        /\ news' \subseteq Account \X {"lists", "profile"}
    BY <1>6, ListeningTyped DEF EndedByError
  <2> QED
    BY <1>6, <2>1, <2>2 DEF EndedByError, TypeOK
<1>7. CASE SyncDenied(c)
  BY <1>6, <1>7 DEF SyncDenied, TypeOK
<1>8. CASE SyncFails(c)
  <2>1. acts' \in 0..MaxActs /\ mishaps' \in 0..MaxMishaps
    BY <1>8, BoundAssumption DEF SyncFails, GoesWrong, TypeOK
  <2> QED
    BY <1>6, <1>8, <2>1 DEF SyncFails
<1> QED
  BY <1>1, <1>2, <1>3, <1>4, <1>5, <1>7, <1>8 DEF CallStep

\* ... reports and writes of an account ...
LEMMA AccountStepTyped ==
    ASSUME TypeOK, NEW a \in Account,
           ListsReported(a) \/ ProfileReported(a) \/ RunWrite(a) \/ RunPush(a)
    PROVE  TypeOK'
<1> USE DEF auth, saved, service, spawned, remote, erasure, counts
<1>1. CASE ListsReported(a)
  BY <1>1 DEF ListsReported, Reports, TypeOK
<1>2. CASE ProfileReported(a)
  BY <1>2 DEF ProfileReported, Reports, TypeOK
<1>3. CASE RunWrite(a)
  <2>1. CASE user = a
    <3>1. Uploaded(a, {a})
      BY <1>3, <2>1 DEF RunWrite
    <3>2. {a} \in SUBSET Author
      OBVIOUS
    <3> QED
      BY <1>3, <3>1, <3>2, UploadedTyped DEF RunWrite, TypeOK
  <2>2. CASE user # a
    BY <1>3, <2>2 DEF RunWrite, TypeOK
  <2> QED
    BY <2>1, <2>2
<1>4. CASE RunPush(a)
  <2>1. profile' \in [Account -> BOOLEAN]
    BY <1>4 DEF RunPush, TypeOK
  <2> QED
    BY <1>4, <2>1 DEF RunPush, TypeOK
<1> QED
  BY <1>1, <1>2, <1>3, <1>4

\* ... the deletion of an account ...
LEMMA EraseStepTyped ==
    ASSUME TypeOK, EraseStep \/ EraseFails
    PROVE  TypeOK'
<1> USE DEF auth, saved, service, spawned, remote, erasure, counts
<1> DEFINE Under == [account : Account, at : {"docs", "deleting", "reset", "auth"},
                     rows : SUBSET Author]
<1>0. erasing.at # "no" => erasing \in Under
  BY DEF TypeOK, NotErasing
<1> HIDE DEF Under
<1>1. CASE EraseFetched
  <2>1. user \in Account
    BY <1>1, <1>0 DEF EraseFetched, Under
  <2>2. docs[user] \in SUBSET Author
    BY <2>1 DEF TypeOK
  <2>3. erasing' \in Under
    BY <1>1, <1>0, <2>2 DEF EraseFetched, Under
  <2> QED
    BY <1>1, <2>3 DEF EraseFetched, TypeOK, Under
<1>2. CASE EraseRow
  <2>1. PICK x \in erasing.rows :
          /\ erasing' = [erasing EXCEPT !.rows = @ \ {x}]
          /\ docs' = [docs EXCEPT ![user] = @ \ {x}]
    BY <1>2 DEF EraseRow
  <2>2. erasing' \in Under
    BY <1>0, <1>2, <2>1 DEF EraseRow, Under
  <2>4. user \in Account /\ docs' \in [Account -> SUBSET Author]
    BY <1>0, <1>2, <2>1 DEF EraseRow, TypeOK, Under
  <2>3. news' \subseteq Account \X {"lists", "profile"}
    BY <1>2, <2>4 DEF EraseRow, TypeOK
  <2> QED
    BY <1>2, <2>2, <2>3, <2>4 DEF EraseRow, TypeOK, Under
<1>3. CASE EraseProfile
  <2>1. erasing' \in Under /\ user \in Account
    BY <1>0, <1>3 DEF EraseProfile, Under
  <2>2. profile' \in [Account -> BOOLEAN] /\ news' \subseteq Account \X {"lists", "profile"}
    BY <1>3, <2>1 DEF EraseProfile, TypeOK
  <2> QED
    BY <1>3, <2>1, <2>2 DEF EraseProfile, TypeOK, Under
<1>4. CASE EraseReset
  <2>1. erasing' \in Under
    BY <1>0, <1>4 DEF EraseReset, Under
  <2> QED
    BY <1>4, <2>1 DEF EraseReset, TypeOK, Under
<1>6. CASE EraseDone
  <2>1. user' \in Author /\ changes' \in Seq(Author)
    BY <1>6 DEF EraseDone, Published, TypeOK
  <2> QED
    BY <1>6, <2>1 DEF EraseDone, TypeOK
<1>7. ASSUME EndedErasing, acts' \in 0..MaxActs, mishaps' \in 0..MaxMishaps
      PROVE  TypeOK'
  BY <1>7 DEF EndedErasing, TypeOK
<1>8. CASE EraseDenied
  BY <1>7, <1>8 DEF EraseDenied, TypeOK
<1>9. CASE EraseFails
  BY <1>7, <1>9, BoundAssumption DEF EraseFails, GoesWrong, TypeOK
<1> QED
  BY <1>1, <1>2, <1>3, <1>4, <1>6, <1>8, <1>9 DEF EraseStep

\* ... and the end of the process keep the type.
LEMMA KillTyped ==
    ASSUME TypeOK, Kill
    PROVE  TypeOK'
<1> USE DEF auth, saved, service, spawned, remote, erasure, counts
<1>1. acts' \in 0..MaxActs /\ mishaps' \in 0..MaxMishaps
  BY BoundAssumption DEF Kill, GoesWrong, TypeOK
<1>2. DOMAIN calls' \subseteq CallId /\ calls' \in [DOMAIN calls' -> Call]
  BY DEF Kill
<1>3. changes' \in Seq(Author)
  BY DEF Kill, TypeOK
<1> QED
  BY <1>1, <1>2, <1>3 DEF Kill, TypeOK, NotErasing

\* The type is inductive.
LEMMA StepTyped == TypeOK /\ [Next]_vars => TypeOK'
<1> SUFFICES ASSUME TypeOK, [Next]_vars PROVE TypeOK'
  OBVIOUS
<1>1. CASE UserStep
  BY <1>1, UserStepTyped
<1>2. CASE SystemStep
  BY <1>2, HandledTyped, AccountStepTyped, CallStepTyped, EraseStepTyped
     DEF SystemStep, AccountStep
<1>3. CASE Mishap
  BY <1>3, KillTyped, EraseStepTyped, CallStepTyped DEF Mishap
<1>4. CASE UNCHANGED vars
  BY <1>4 DEF vars, auth, saved, service, spawned, remote, erasure, counts, TypeOK
<1> QED
  BY <1>1, <1>2, <1>3, <1>4 DEF Next

\* Every variable of a session keeps its type, for any accounts and bounds.
THEOREM SessionTyped == Spec => []TypeOK
  BY InitTyped, StepTyped, PTL DEF Spec

-----------------------------------------------------------------------------
(* Rows and events stay with their account when users wait before they     *)
(* sign in.  What makes it so is that calls, list and service then all     *)
(* belong to one account at a time, the one last attached; what they       *)
(* suspended for cannot change under them except by a sign-out.            *)

\* A user can be waiting to be handled only while no call is under way, and is
\* the first in the queue; once the queue is empty everyone agrees on the user.
UserInv ==
    /\ changes # <<>> => changes[Len(changes)] = user
    /\ \A i \in 2..Len(changes) : changes[i] = Nobody
    /\ changes # <<>> /\ changes[1] # Nobody => DOMAIN calls = {} /\ backend = Nobody
    /\ changes = <<>> => backend = user /\ scope = user
    /\ user # Nobody => scope \in {user, Nobody}

\* The rows of the account last attached, and rows of nobody.
Own == {lastUser, Nobody}

OwnInv ==
    /\ backend \in Own /\ listener \in Own /\ orphans = {}
    /\ list \subseteq Own
    /\ \A a \in Account : docs[a] \subseteq {a, Nobody}

\* Calls are those of the account last attached.  One initial sync at a time
\* runs, and not while listeners run: no listener is started twice.
CallsInv ==
    /\ \A c \in DOMAIN calls : calls[c].account = lastUser /\ calls[c].rows \subseteq Own
    /\ \A c \in DOMAIN calls : ~calls[c].force => listener = Nobody
    /\ \A c, d \in DOMAIN calls : ~calls[c].force /\ ~calls[d].force => c = d

Apart == TypeOK /\ UserInv /\ OwnInv /\ CallsInv

\* At first every list and every document is empty.
LEMMA InitApart == Init => Apart
<1> SUFFICES ASSUME Init PROVE Apart
  OBVIOUS
<1>1. TypeOK
  BY InitTyped
<1>2. UserInv
  BY DEF Init, UserInv
<1>3. OwnInv /\ CallsInv
  BY DEF Init, OwnInv, CallsInv, Own
<1> QED
  BY <1>1, <1>2, <1>3 DEF Apart

-----------------------------------------------------------------------------
(* UserInv.                                                                *)

\* Whatever leaves the queue, the user, the service and the calls alone.
LEMMA UserKept ==
    ASSUME UserInv, UNCHANGED <<user, changes, backend, scope>>,
           changes # <<>> /\ changes[1] # Nobody /\ DOMAIN calls = {} => DOMAIN calls' = {}
    PROVE  UserInv'
  BY DEF UserInv

\* A sign-out is queued behind whatever is there.
LEMMA UserSignedOut ==
    ASSUME TypeOK, UserInv, Published(Nobody), UNCHANGED <<calls, backend, scope>>
    PROVE  UserInv'
<1>1. changes \in Seq(Author)
  BY DEF TypeOK
<1>2. Len(changes') = Len(changes) + 1 /\ changes'[Len(changes')] = Nobody /\ changes' # <<>>
  BY <1>1 DEF Published
<1>3. \A i \in 1..Len(changes) : changes'[i] = changes[i]
  BY <1>1 DEF Published
<1>4. \A i \in 2..Len(changes') : changes'[i] = Nobody
  BY <1>1, <1>2, <1>3 DEF UserInv
<1>5. changes'[1] # Nobody => DOMAIN calls = {} /\ backend = Nobody
  BY <1>1, <1>2, <1>3 DEF UserInv
<1> QED
  BY <1>2, <1>4, <1>5 DEF Published, UserInv

\* Who waits signs in with an empty queue.
LEMMA UserSignedIn ==
    ASSUME WaitToSignIn, TypeOK, UserInv, NEW a \in Account, SignIn(a)
    PROVE  UserInv'
<1> USE DEF saved, service
<1>1. changes = <<>> /\ DOMAIN calls = {} /\ user = Nobody
  BY DEF SignIn, Quiet
<1>2. changes' = <<a>> /\ user' = a
  BY <1>1 DEF SignIn, Switch, Published
<1>3. scope' = Nobody /\ calls' = calls /\ backend' = Nobody
  BY <1>1 DEF SignIn, Switch, UserInv
<1> QED
  BY <1>1, <1>2, <1>3 DEF UserInv

\* The first in the queue is handled.
LEMMA UserHandled ==
    ASSUME TypeOK, UserInv, NEW u \in Author, Detached(u), scope' = u
    PROVE  UserInv'
<1>1. changes \in Seq(Author) /\ changes # <<>> /\ u = changes[1] /\ changes' = Tail(changes)
  BY DEF Detached, TypeOK
<1>2. \A i \in 1..Len(changes') : changes'[i] = changes[i + 1] /\ changes'[i] = Nobody
  BY <1>1 DEF UserInv
<1>3. Len(changes') = Len(changes) - 1 /\ Len(changes) \in Nat \ {0} /\ Len(changes') \in Nat
  BY <1>1
<1>4. user' = user /\ backend' = u
  BY DEF Detached
<1>5. CASE changes' = <<>>
  <2>1. Len(changes') = 0
    BY <1>5
  <2>2. Len(changes) = 1
    BY <1>3, <2>1
  <2>3. user = u
    BY <1>1, <2>2 DEF UserInv
  <2> QED
    BY <1>4, <1>5, <2>3 DEF UserInv
<1>6. CASE changes' # <<>>
  <2>1. Len(changes') # 0
    BY <1>1, <1>6
  <2>2. Len(changes') \in 1..Len(changes') /\ Len(changes') + 1 = Len(changes)
    BY <1>3, <2>1
  <2>3. changes'[Len(changes')] = changes[Len(changes)] /\ user = Nobody
    BY <1>1, <1>2, <2>2 DEF UserInv
  <2>4. changes'[1] = Nobody
    BY <1>2, <2>2
  <2> QED
    BY <1>2, <1>4, <1>6, <2>3, <2>4 DEF UserInv
<1> QED
  BY <1>5, <1>6

-----------------------------------------------------------------------------
(* CallsInv.                                                               *)

CallsKept == UNCHANGED <<calls, lastUser, listener>>

\* Calls that stay as they are, or end, keep their invariant.
LEMMA CallsInvKept == CallsInv /\ CallsKept => CallsInv'
  BY DEF CallsInv, CallsKept, Own

\* A call goes on with rows of the account it belongs to.
LEMMA CallsInvGoes ==
    ASSUME TypeOK, CallsInv, NEW c \in DOMAIN calls, NEW stage, NEW got \in SUBSET Own,
           Goes(c, stage, got), UNCHANGED <<lastUser, listener>>
    PROVE  CallsInv'
<1>1. DOMAIN calls' = DOMAIN calls
  BY DEF Goes
<1>2. ASSUME NEW d \in DOMAIN calls
      PROVE  /\ calls'[d].account = calls[d].account /\ calls'[d].force = calls[d].force
             /\ calls'[d].rows = got \/ calls'[d].rows = calls[d].rows
  BY <1>2 DEF Goes, TypeOK, Call
<1> QED
  BY <1>1, <1>2 DEF CallsInv, Own

\* A call ends; its initial sync starts the listeners.
LEMMA CallsInvEnded ==
    ASSUME CallsInv, NEW c \in DOMAIN calls, Ended(c), lastUser' = lastUser,
           calls[c].force => listener' = listener
    PROVE  CallsInv'
<1>1. \A d \in DOMAIN calls' : d \in DOMAIN calls /\ d # c /\ calls'[d] = calls[d]
  BY DEF Ended
<1> QED
  BY <1>1 DEF CallsInv, Own

-----------------------------------------------------------------------------
(* A call that starts, goes on or ends.                                    *)

\* A sign-in waited for every other call, and forgets a list that is not its own.
LEMMA SignInHandled ==
    ASSUME Apart, NEW a \in Account, HandleSignIn(a)
    PROVE  UserInv' /\ OwnInv' /\ CallsInv'
<1> USE DEF remote
<1>1. a # Nobody /\ a \in Author
  BY NobodyAssumption DEF Author
<1>2. Detached(a) /\ Attached(a) /\ scope' = a
  BY DEF HandleSignIn
<1>3. UserInv'
  BY <1>1, <1>2, UserHandled DEF Apart
<1>4. DOMAIN calls = {}
  BY <1>1, <1>2 DEF Detached, Apart, UserInv
<1>5. OwnInv'
  BY <1>2 DEF Apart, OwnInv, Own, Detached, Attached
<1>6. \A d \in DOMAIN calls' : calls'[d] = CallAt(a, FALSE, "fetching", {})
  BY <1>2, <1>4 DEF Attached, Suspended
<1>7. \A c, d \in DOMAIN calls' : c = d
  BY <1>2, <1>4 DEF Attached, Suspended
<1>8. CallsInv'
  BY <1>2, <1>6, <1>7 DEF CallsInv, CallAt, Attached, Detached
<1> QED
  BY <1>3, <1>5, <1>8

\* A forced sync starts a call of the account that is attached.
LEMMA SyncForced ==
    ASSUME Apart, ForceSync
    PROVE  UserInv' /\ OwnInv' /\ CallsInv'
<1> USE DEF auth, saved, service, spawned, remote, erasure
<1>1. UserInv'
  <2>1. changes # <<>> => changes[1] = Nobody \/ backend = Nobody
    BY DEF Apart, UserInv
  <2> QED
    BY <2>1, UserKept DEF ForceSync, Apart
<1>2. OwnInv'
  BY DEF ForceSync, Apart, OwnInv, Own
<1>3. user = lastUser
  BY DEF ForceSync, Apart, OwnInv, Own
<1> DEFINE call == CallAt(lastUser, TRUE, IF list = {} THEN "fetching" ELSE "pushing", list)
<1>4. call.account = lastUser /\ call.force /\ call.rows = list
  BY DEF CallAt
<1>5. Suspended(call)
  BY <1>3 DEF ForceSync
<1> HIDE DEF call
<1>6. \A d \in DOMAIN calls' : calls'[d] = call \/ (d \in DOMAIN calls /\ calls'[d] = calls[d])
  BY <1>5 DEF Suspended
<1>7. CallsInv'
  BY <1>4, <1>6 DEF ForceSync, Apart, OwnInv, CallsInv, Own
<1> QED
  BY <1>1, <1>2, <1>7

\* What the listeners of an initial sync belong to.
LEMMA ListeningOwn ==
    ASSUME Apart, NEW c \in DOMAIN calls, Listening(c)
    PROVE  /\ backend' = backend /\ listener' \in Own /\ orphans' = {}
           /\ calls[c].force => listener' = listener
<1>1. CASE calls[c].force
  BY <1>1 DEF Listening, service, Apart, OwnInv
<1>2. CASE ~calls[c].force
  <2>1. listener = Nobody /\ calls[c].account \in Own
    BY <1>2 DEF Apart, CallsInv, Own
  <2> QED
    BY <1>2, <2>1, NobodyAssumption DEF Listening, Apart, OwnInv
<1> QED
  BY <1>1, <1>2

\* Rows reach an account only with the calls of that account.
LEMMA UploadedOwn ==
    ASSUME TypeOK, OwnInv, NEW a \in Account, NEW got \in SUBSET {a, Nobody}, Uploaded(a, got)
    PROVE  \A b \in Account : docs'[b] \subseteq {b, Nobody}
  BY DEF Uploaded, TypeOK, OwnInv

-----------------------------------------------------------------------------
(* One step of each actor.                                                 *)

\* A sign-in finds nothing under way, which is where the user waits.
LEMMA UserStepApart ==
    ASSUME WaitToSignIn, Apart, UserStep
    PROVE  UserInv' /\ OwnInv' /\ CallsInv'
<1> USE DEF auth, saved, service, spawned, remote, erasure
<1>1. ASSUME NEW a \in Account, SignIn(a) PROVE UserInv' /\ OwnInv' /\ CallsInv'
  <2>1. UserInv'
    BY <1>1, UserSignedIn DEF Apart
  <2>2. OwnInv' /\ CallsKept
    BY <1>1 DEF SignIn, Switch, Apart, OwnInv, Own, CallsKept
  <2> QED
    BY <2>1, <2>2, CallsInvKept DEF Apart
<1>2. CASE SignOut
  <2>1. UserInv'
    BY <1>2, UserSignedOut DEF SignOut, Switch, Apart
  <2>2. OwnInv' /\ CallsKept
    BY <1>2 DEF SignOut, Switch, Apart, OwnInv, Own, CallsKept
  <2> QED
    BY <2>1, <2>2, CallsInvKept DEF Apart
<1>3. CASE MakeRow
  <2>1. UserInv'
    BY <1>3, UserKept DEF MakeRow, Apart
  <2>2. OwnInv' /\ CallsKept
    BY <1>3 DEF MakeRow, Apart, OwnInv, Own, CallsKept
  <2> QED
    BY <2>1, <2>2, CallsInvKept DEF Apart
<1>5. CASE Erase
  <2>1. UserInv'
    BY <1>5, UserKept DEF Erase, Apart
  <2>2. OwnInv' /\ CallsKept
    BY <1>5 DEF Erase, Apart, OwnInv, Own, CallsKept
  <2> QED
    BY <2>1, <2>2, CallsInvKept DEF Apart
<1> QED
  BY <1>1, <1>2, <1>3, <1>5, SyncForced DEF UserStep

\* A suspended call fetches from and applies to its own account only.
LEMMA CallStepApart ==
    ASSUME Apart, NEW c \in DOMAIN calls, CallStep(c) \/ SyncFails(c)
    PROVE  UserInv' /\ OwnInv' /\ CallsInv'
<1> USE DEF auth, saved, service, spawned, remote, erasure
<1>0. /\ calls[c].account = lastUser /\ calls[c].account \in Account
      /\ calls[c].rows \in SUBSET Own /\ list \in SUBSET Own
  BY DEF Apart, CallsInv, OwnInv, TypeOK, Call
<1>1. UNCHANGED <<user, changes, backend, scope>> => UserInv'
  BY UserKept DEF Apart
<1>2. CASE PushDone(c) \/ UploadDone(c)
  <2>1. Uploaded(user, calls[c].rows) /\ user = lastUser /\ user \in Account
    BY <1>0, <1>2 DEF PushDone, UploadDone
  <2>2. \A b \in Account : docs'[b] \subseteq {b, Nobody}
    BY <1>0, <2>1, UploadedOwn DEF Apart, Own
  <2>3. OwnInv'
    BY <1>2, <2>2 DEF PushDone, UploadDone, Apart, OwnInv, Own
  <2>4. CallsInv'
    BY <1>2, CallsInvGoes DEF PushDone, UploadDone, Apart
  <2> QED
    BY <1>1, <1>2, <2>3, <2>4 DEF PushDone, UploadDone
<1>3. CASE FetchAnswered(c)
  <2>1. docs[user] \in SUBSET Own
    BY <1>0, <1>3 DEF FetchAnswered, Apart, OwnInv, Own
  <2>2. CallsInv'
    BY <1>3, <2>1, CallsInvGoes DEF FetchAnswered, Apart
  <2>3. OwnInv'
    BY <1>3 DEF FetchAnswered, Apart, OwnInv, Own
  <2> QED
    BY <1>1, <1>3, <2>2, <2>3 DEF FetchAnswered
<1>4. CASE FetchHandled(c)
  <2>1. CallsInv'
    BY <1>0, <1>4, CallsInvGoes DEF FetchHandled, Apart
  <2>2. OwnInv'
    BY <1>0, <1>4 DEF FetchHandled, Apart, OwnInv, Own
  <2> QED
    BY <1>1, <1>4, <2>1, <2>2 DEF FetchHandled
<1>5. CASE Listening(c) /\ Ended(c) /\ UNCHANGED <<user, changes, list, lastUser, scope, docs>>
  <2>1. /\ backend' = backend /\ listener' \in Own /\ orphans' = {}
        /\ calls[c].force => listener' = listener
    BY <1>5, ListeningOwn
  <2>2. OwnInv'
    BY <1>5, <2>1 DEF Apart, OwnInv, Own
  <2>3. CallsInv'
    BY <1>5, <2>1, CallsInvEnded DEF Apart
  <2> QED
    BY <1>1, <1>5, <2>1, <2>2, <2>3
<1>6. CASE SyncDone(c)
  BY <1>5, <1>6 DEF SyncDone
<1>7. CASE SyncDenied(c) \/ SyncFails(c)
  BY <1>5, <1>7 DEF SyncDenied, SyncFails, EndedByError
<1> QED
  BY <1>2, <1>3, <1>4, <1>6, <1>7 DEF CallStep

\* Reports and writes carry rows of the account they belong to.
LEMMA AccountStepApart ==
    ASSUME Apart, NEW a \in Account,
           ListsReported(a) \/ ProfileReported(a) \/ RunWrite(a) \/ RunPush(a)
    PROVE  UserInv' /\ OwnInv' /\ CallsInv'
<1> USE DEF auth, saved, service, spawned, remote, erasure
<1>1. UserInv'
  BY UserKept DEF ListsReported, ProfileReported, Reports, RunWrite, RunPush, Apart
<1>2. CallsInv'
  BY CallsInvKept
     DEF CallsKept, ListsReported, ProfileReported, Reports, RunWrite, RunPush, Apart
<1>3. CASE ListsReported(a)
  <2>1. a = lastUser
    BY <1>3, NobodyAssumption DEF ListsReported, Reports, Apart, OwnInv, Own
  <2> QED
    BY <1>1, <1>2, <1>3, <2>1 DEF ListsReported, Reports, Apart, OwnInv, Own
<1>4. CASE RunWrite(a)
  <2>1. CASE user = a
    <3>1. \A b \in Account : docs'[b] \subseteq {b, Nobody}
      BY <1>4, <2>1, UploadedOwn DEF RunWrite, Apart
    <3> QED
      BY <1>1, <1>2, <1>4, <3>1 DEF RunWrite, Apart, OwnInv, Own
  <2>2. CASE user # a
    BY <1>1, <1>2, <1>4, <2>2 DEF RunWrite, Apart, OwnInv, Own
  <2> QED
    BY <2>1, <2>2
<1>5. CASE ProfileReported(a) \/ RunPush(a)
  BY <1>1, <1>2, <1>5 DEF ProfileReported, Reports, RunPush, Apart, OwnInv, Own
<1> QED
  BY <1>3, <1>4, <1>5

\* Deleting an account moves no row to another.
LEMMA EraseStepApart ==
    ASSUME Apart, EraseStep \/ EraseFails
    PROVE  UserInv' /\ OwnInv' /\ CallsInv'
<1> USE DEF auth, saved, service, spawned, remote, erasure
<1>1. CallsInv'
  BY CallsInvKept
     DEF CallsKept, EraseStep, EraseFetched, EraseRow, EraseProfile, EraseReset, EraseDone,
         EraseDenied, EraseFails, EndedErasing, Apart
<1>2. CASE EraseRow
  <2>1. \A b \in Account : docs'[b] \subseteq docs[b]
    BY <1>2 DEF EraseRow, Apart, TypeOK
  <2>2. OwnInv'
    BY <1>2, <2>1 DEF EraseRow, Apart, OwnInv, Own
  <2>3. UserInv'
    BY <1>2, UserKept DEF EraseRow, Apart
  <2> QED
    BY <1>1, <2>2, <2>3
<1>3. CASE EraseDone
  <2>1. UserInv'
    BY <1>3, UserSignedOut, UserKept DEF EraseDone, Apart
  <2> QED
    BY <1>1, <1>3, <2>1 DEF EraseDone, Apart, OwnInv, Own
<1>4. CASE EraseFetched \/ EraseProfile \/ EraseReset \/ EraseDenied \/ EraseFails
  <2>1. UserInv'
    BY <1>4, UserKept
       DEF EraseFetched, EraseProfile, EraseReset, EraseDenied, EraseFails, EndedErasing, Apart
  <2>2. OwnInv'
    BY <1>4
       DEF EraseFetched, EraseProfile, EraseReset, EraseDenied, EraseFails, EndedErasing,
           Apart, OwnInv, Own
  <2> QED
    BY <1>1, <2>1, <2>2
<1> QED
  BY <1>2, <1>3, <1>4 DEF EraseStep

\* The end of the process ends the calls and the listeners.
LEMMA KillApart ==
    ASSUME Apart, Kill
    PROVE  UserInv' /\ OwnInv' /\ CallsInv'
<1> USE DEF saved, remote
<1>1. UserInv'
  BY DEF Kill, Apart, UserInv
<1> QED
  BY <1>1 DEF Kill, Apart, OwnInv, CallsInv, Own

\* Handling a sign-out detaches the account, and changes no row.
LEMMA SignOutHandled ==
    ASSUME Apart, HandleSignOut
    PROVE  UserInv' /\ OwnInv' /\ CallsInv'
<1> USE DEF remote
<1>1. Nobody \in Author
  BY DEF Author
<1>2. UserInv'
  BY <1>1, UserHandled DEF HandleSignOut, Apart
<1> QED
  BY <1>2 DEF HandleSignOut, Detached, Apart, OwnInv, CallsInv, Own

\* Rows, calls and listeners stay apart under every step.
LEMMA StepApart ==
    ASSUME WaitToSignIn, Apart, [Next]_vars
    PROVE  Apart'
<1>1. TypeOK'
  BY StepTyped DEF Apart
<1>2. CASE UserStep
  BY <1>1, <1>2, UserStepApart DEF Apart
<1>3. CASE SystemStep
  BY <1>1, <1>3, SignOutHandled, SignInHandled, AccountStepApart, CallStepApart, EraseStepApart
     DEF SystemStep, AccountStep, Apart
<1>4. CASE Mishap
  BY <1>1, <1>4, KillApart, EraseStepApart, CallStepApart DEF Mishap, Apart
<1>5. CASE UNCHANGED vars
  <2>1. UNCHANGED <<auth, saved, calls, service, docs>>
    BY <1>5 DEF vars, remote
  <2> QED
    BY <1>1, <2>1 DEF auth, saved, service, Apart, UserInv, OwnInv, CallsInv, Own
<1> QED
  BY <1>2, <1>3, <1>4, <1>5 DEF Next

-----------------------------------------------------------------------------

\* What the accounts' separation amounts to.
LEMMA ApartMeans == Apart => DocsHoldOwnRows /\ ListHoldsOwnRows /\ EventsHoldOwnScope
  BY DEF Apart, UserInv, OwnInv, Own, DocsHoldOwnRows, ListHoldsOwnRows, EventsHoldOwnScope

\* The service, the calls and the list belong to one account at a time,
\* provided users wait before they sign in.
THEOREM AlwaysApart == ASSUME WaitToSignIn PROVE Spec => []Apart
<1>1. Apart /\ [Next]_vars => Apart'
  BY StepApart
<1> QED
  BY <1>1, InitApart, PTL DEF Spec

\* The documents of an account only ever hold rows made under it or under none.
THEOREM RowsStayWithDocs == ASSUME WaitToSignIn PROVE Spec => []DocsHoldOwnRows
  BY AlwaysApart, ApartMeans, PTL

\* A device attached to an account never shows rows of another one.
THEOREM RowsStayInList == ASSUME WaitToSignIn PROVE Spec => []ListHoldsOwnRows
  BY AlwaysApart, ApartMeans, PTL

\* Events of a signed-in user are filed under that user or under none.
THEOREM EventsStayInScope == ASSUME WaitToSignIn PROVE Spec => []EventsHoldOwnScope
  BY AlwaysApart, ApartMeans, PTL

=============================================================================
