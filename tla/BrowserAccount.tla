---------------------------- MODULE BrowserAccount ----------------------------
(***************************************************************************)
(* The account of the web client's user: AuthStore (the session and its    *)
(* copy in localStorage), authApi (a table of users that lives as long as  *)
(* the page), the forms that log in, register and save the settings, and   *)
(* the wishes: the profile page's list and the forms that create and edit  *)
(* an item.                                                                *)
(*                                                                         *)
(* Every call of authApi and itemApi awaits a timer, so it is a Submit...  *)
(* and a Finish... action; other handlers run in between.  One tab is      *)
(* modelled.  A token is the account it was issued to; names are compared  *)
(* in lower case, as the table's keys are; of a password only matters      *)
(* whether the typed one is right.                                         *)
(***************************************************************************)
EXTENDS Naturals, Sequences, SequencesExt

CONSTANTS
  Accounts,       \* user ids
  BuiltIn,        \* those of mockUsersDb, who also have all the items
  Names,          \* keys of mockUsersDb
  BuiltInName,    \* [BuiltIn -> Names]
  Wishes,
  BuiltInWishes,  \* [BuiltIn -> SUBSET Wishes]
  NoUser, NoToken, NoRecord, NoWish, NoList, NoForm, Blank,
  NullText,       \* the text "null"
  MaxErrands,     \* bound: calls about wishes and items in flight
  QuickReturn     \* users also come back to the profile within a wish's 200 ms

ASSUME BuiltInAssumption ==
  /\ BuiltIn \subseteq Accounts
  /\ BuiltInName \in [BuiltIn -> Names] /\ BuiltInWishes \in [BuiltIn -> SUBSET Wishes]
  /\ \A a, b \in BuiltIn : BuiltInName[a] = BuiltInName[b] => a = b

ASSUME SentinelAssumption ==
  /\ NoUser \notin Accounts
  /\ NoToken \notin Accounts /\ NullText \notin Accounts /\ NoToken # NullText
  /\ NoWish \notin Wishes /\ Blank \notin Names
  /\ \A S \in SUBSET Wishes : S # NoList

ASSUME BoundAssumption == MaxErrands \in Nat /\ QuickReturn \in BOOLEAN

VARIABLES
  db,                       \* mockUsersDb
  registered,               \* ids register has handed out
  user, token, loading,     \* AuthStore
  storedUser, storedToken,  \* localStorage
  calls,                    \* the calls AuthStore awaits
  page,                     \* the profile page, or elsewhere
  mine,                     \* the profile page's myWishes
  form,                     \* the item form opened on the profile page
  errands                   \* the other calls in flight

session  == <<user, token, storedUser, storedToken>>
wishVars == <<mine, form, errands>>
vars == <<db, registered, session, loading, calls, page, wishVars>>

Records == [id : Accounts, wishes : (SUBSET Wishes) \cup {NoList}]
Calls == [op : {"login"}, name : Names, right : BOOLEAN]
    \cup [op : {"register"}, name : Names]
    \cup [op : {"save"}, id : Accounts, name : Names \cup {Blank}, right : BOOLEAN]
Forms == [kind : {"create", "edit"}, added : SUBSET Wishes,
          typed : Wishes \cup {NoWish}, busy : BOOLEAN]
\* seen: the page that asked is still mounted.
Errands ==
       [op : {"add", "remove", "addThenCreate", "addThenEdit"},
        id : Accounts, wish : Wishes, seen : BOOLEAN]
  \cup [op : {"get", "create", "edit"},
        id : Accounts, wish : Wishes \cup {NoWish}, seen : BOOLEAN]
Lists == [linked : BOOLEAN, copy : SUBSET Wishes]

ASSUME RecordAssumption == NoRecord \notin Records

-----------------------------------------------------------------------------
(* The table of users. *)

mockUsersDb ==
  [n \in Names |->
     IF \E a \in BuiltIn : BuiltInName[a] = n
     THEN LET a == CHOOSE b \in BuiltIn : BuiltInName[b] = n
          IN  [id |-> a, wishes |-> BuiltInWishes[a]]
     ELSE NoRecord]

KeysOf(a) == {n \in Names : db[n] # NoRecord /\ db[n].id = a}

SavedWishes(a) ==
  UNION {db[n].wishes : n \in {m \in KeysOf(a) : db[m].wishes # NoList}}

\* What getUserWishes, addWish and removeWish return: the record's own array,
\* which later calls of addWish write to, or an array of nobody's.
Own == [linked |-> TRUE, copy |-> {}]
Nobodys == [linked |-> FALSE, copy |-> {}]

\* Mutant: getUserWishes returns a copy of the array.
getUserWishesCopied(a, d) ==
  [linked |-> FALSE,
   copy |-> UNION {d[n].wishes : n \in {m \in Names : /\ d[m] # NoRecord
                                                     /\ d[m].id = a
                                                     /\ d[m].wishes # NoList}}]

getUserWishes(a, d) ==
  IF \E n \in Names : d[n] # NoRecord /\ d[n].id = a /\ d[n].wishes # NoList
  THEN Own ELSE Nobodys

addWish(a, w) ==
  [n \in Names |->
     IF n \in KeysOf(a)
     THEN [db[n] EXCEPT !.wishes = (IF @ = NoList THEN {} ELSE @) \cup {w}]
     ELSE db[n]]

removeWish(a, w) ==
  [n \in Names |->
     IF n \in KeysOf(a) /\ db[n].wishes # NoList
     THEN [db[n] EXCEPT !.wishes = @ \ {w}]
     ELSE db[n]]

-----------------------------------------------------------------------------
(* Pages. *)

\* What the page that is left asked for comes back to nobody.
Unmounted == [k \in DOMAIN errands |-> [errands[k] EXCEPT !.seen = FALSE]]

LeaveFor(p) ==
  /\ page' = p
  /\ mine' = Nobodys /\ form' = NoForm
  /\ errands' = Unmounted

Errand(op, a, w) == [op |-> op, id |-> a, wish |-> w, seen |-> TRUE]

LeaveProfile ==
  /\ page = "profile" /\ LeaveFor("elsewhere")
  /\ UNCHANGED <<db, registered, session, loading, calls>>

\* No wish is being added or removed, which takes 200 ms.
WishesSettled == \A e \in Range(errands) : e.op \in {"get", "create", "edit"}

OpenProfile ==
  /\ page # "profile" /\ user # NoUser
  /\ QuickReturn \/ WishesSettled
  /\ Len(errands) < MaxErrands
  /\ page' = "profile"
  /\ errands' = Append(errands, Errand("get", user, NoWish))
  /\ UNCHANGED <<db, registered, session, loading, calls, mine, form>>

-----------------------------------------------------------------------------
(* AuthStore.  The forms' buttons are disabled while it is loading; the form *)
(* that logs in and registers is a click away wherever the profile is not.   *)

\* Mutant: the buttons are not disabled.
AskAnyway(c) == loading' = TRUE /\ calls' = Append(calls, c)

Ask(c) ==
  /\ ~ loading
  /\ loading' = TRUE /\ calls' = Append(calls, c)

Answer(k) == calls' = RemoveAt(calls, k)

\* Mutant: the two keys are mixed up.
saveMixedUp(t, u) == storedToken' = u /\ storedUser' = t

\* Mutant: only the user is stored.
saveUserOnly(t, u) == storedUser' = u /\ UNCHANGED storedToken

\* setItem stores a null token as a text.
saveToStorage(t, u) ==
  /\ storedToken' = (IF t = NoToken THEN NullText ELSE t)
  /\ storedUser' = u

SubmitLogin(n, right) ==
  /\ page = "elsewhere"
  /\ Ask([op |-> "login", name |-> n, right |-> right])
  /\ UNCHANGED <<db, registered, session, page, wishVars>>

SubmitRegister(n) ==
  /\ page = "elsewhere"
  /\ BuiltIn \cup registered # Accounts   \* bound: an id is left
  /\ Ask([op |-> "register", name |-> n])
  /\ UNCHANGED <<db, registered, session, page, wishVars>>

\* A new session is stored and the auth page leads home.
Enter(a) ==
  /\ user' = a /\ token' = a /\ loading' = FALSE
  /\ saveToStorage(a, a)
  /\ LeaveFor("elsewhere")

\* Mutant: the catch branch forgets isLoading.
RefusedLoading == UNCHANGED <<db, registered, session, loading, page, wishVars>>

Refused == loading' = FALSE /\ UNCHANGED <<db, registered, session, page, wishVars>>

FinishLogin(k) ==
  /\ calls[k].op = "login"
  /\ Answer(k)
  /\ LET r == db[calls[k].name]
     IN  IF r # NoRecord /\ calls[k].right
         THEN Enter(r.id) /\ UNCHANGED <<db, registered>>
         ELSE Refused

FinishRegister(k) ==
  /\ calls[k].op = "register"
  /\ Answer(k)
  /\ IF db[calls[k].name] = NoRecord
     THEN \E a \in Accounts \ (BuiltIn \cup registered) :
            /\ registered' = registered \cup {a}
            /\ db' = [db EXCEPT ![calls[k].name] =
                        [id |-> a, wishes |-> NoList]]
            /\ Enter(a)
     ELSE Refused

\* handleSaveSettings: an unchanged name is not sent.  right is FALSE if the
\* password is to change and the old one is wrong.
SubmitSave(name, right) ==
  /\ page = "profile" /\ user # NoUser
  /\ Ask([op |-> "save", id |-> user, name |-> name, right |-> right])
  /\ UNCHANGED <<db, registered, session, page, wishVars>>

\* Mutant: nobody checks whether the new name is taken.
nameUnchecked(c, n) == c.right

\* The old password is right if one is needed, and the new name is free.
changeAllowed(c, n) ==
  c.right /\ (c.name \notin {Blank, n} => db[c.name] = NoRecord)

\* The settings are saved for the user who asked, even if he logged out since;
\* the token is the one of now.
FinishSave(k) ==
  /\ calls[k].op = "save"
  /\ Answer(k)
  /\ LET c == calls[k]
         keys == {n \in KeysOf(c.id) : changeAllowed(c, n)}
     IN  IF keys # {}
         THEN \E n \in keys :
                LET key == IF c.name = Blank THEN n ELSE c.name
                IN  /\ db' = [[db EXCEPT ![n] = NoRecord] EXCEPT ![key] = db[n]]
                    /\ user' = c.id /\ loading' = FALSE
                    /\ saveToStorage(token, c.id)
                    /\ UNCHANGED <<registered, token, page, wishVars>>
         ELSE Refused

Logout ==
  /\ user # NoUser
  /\ user' = NoUser /\ token' = NoToken
  /\ storedUser' = NoUser /\ storedToken' = NoToken
  /\ LeaveFor("elsewhere")
  /\ UNCHANGED <<db, registered, loading, calls>>

\* restoreSession; the table of users starts anew, and calls in flight are lost.
Reload ==
  /\ db' = mockUsersDb
  /\ IF storedToken # NoToken /\ storedUser # NoUser
     THEN user' = storedUser /\ token' = storedToken
     ELSE user' = NoUser /\ token' = NoToken
  /\ loading' = FALSE /\ calls' = <<>>
  /\ mine' = Nobodys /\ form' = NoForm
  /\ IF page = "profile" /\ user' # NoUser
     THEN page' = page /\ errands' = <<Errand("get", user', NoWish)>>
     ELSE page' = "elsewhere" /\ errands' = <<>>
  /\ UNCHANGED <<registered, storedUser, storedToken>>

-----------------------------------------------------------------------------
(* The profile page: wishes, and the forms that create and edit an item. *)

OnProfile == page = "profile" /\ user # NoUser

Send(e) ==
  /\ Len(errands) < MaxErrands
  /\ errands' = Append(errands, e)

SubmitAddWish(w) ==
  /\ OnProfile /\ form = NoForm
  /\ Send(Errand("add", user, w))
  /\ UNCHANGED <<db, registered, session, loading, calls, page, mine, form>>

MyWishes == IF mine.linked THEN SavedWishes(user) ELSE mine.copy

SubmitRemoveWish(w) ==
  /\ OnProfile /\ form = NoForm /\ w \in MyWishes
  /\ Send(Errand("remove", user, w))
  /\ UNCHANGED <<db, registered, session, loading, calls, page, mine, form>>

\* An item to edit is at hand only for those who have items.
OpenForm(kind) ==
  /\ OnProfile /\ form = NoForm
  /\ kind = "edit" => user \in BuiltIn
  /\ form' = [kind |-> kind, added |-> {}, typed |-> NoWish, busy |-> FALSE]
  /\ UNCHANGED <<db, registered, session, loading, calls, page, mine, errands>>

\* What is typed into a busy form goes nowhere.
TypeWish(w) ==
  /\ form # NoForm /\ ~ form.busy
  /\ form' = [form EXCEPT !.typed = w]
  /\ UNCHANGED <<db, registered, session, loading, calls, page, mine, errands>>

\* Enter, or the button beside the field; typing it again takes it out.
toggleWish ==
  /\ form # NoForm /\ ~ form.busy /\ form.typed # NoWish
  /\ form' = [form EXCEPT !.typed = NoWish,
                          !.added = IF form.typed \in @ THEN @ \ {form.typed}
                                                        ELSE @ \cup {form.typed}]
  /\ UNCHANGED <<db, registered, session, loading, calls, page, mine, errands>>

\* What is still in the field is added to the user's wishes first.
SubmitForm ==
  /\ form # NoForm /\ ~ form.busy
  /\ LET more == form.typed # NoWish /\ form.typed \notin form.added
         op   == IF form.kind = "create"
                 THEN IF more THEN "addThenCreate" ELSE "create"
                 ELSE IF more THEN "addThenEdit" ELSE "edit"
     IN  Send(Errand(op, user, IF more THEN form.typed ELSE NoWish))
  /\ form' = [form EXCEPT !.busy = TRUE]
  /\ UNCHANGED <<db, registered, session, loading, calls, page, mine>>

\* The cancel button works while the form is busy; what it sent goes on.
CancelForm ==
  /\ form # NoForm /\ form' = NoForm
  /\ UNCHANGED <<db, registered, session, loading, calls, page, mine, errands>>

FinishWishes(k) ==
  /\ errands[k].op \in {"get", "add", "remove"}
  /\ LET e == errands[k]
     IN  /\ db' = CASE e.op = "get"    -> db
                    [] e.op = "add"    -> addWish(e.id, e.wish)
                    [] e.op = "remove" -> removeWish(e.id, e.wish)
         /\ mine' = IF e.seen THEN getUserWishes(e.id, db') ELSE mine
  /\ errands' = RemoveAt(errands, k)
  /\ UNCHANGED <<registered, session, loading, calls, page, form>>

FinishFirstHalf(k) ==
  /\ errands[k].op \in {"addThenCreate", "addThenEdit"}
  /\ db' = addWish(errands[k].id, errands[k].wish)
  /\ errands' = [errands EXCEPT ![k].op = IF @ = "addThenCreate" THEN "create"
                                                                 ELSE "edit"]
  /\ UNCHANGED <<registered, session, loading, calls, page, mine, form>>

\* onSuccess closes whatever form of the kind is open; after a creation the page
\* reads the wishes again.
FinishPost(k) ==
  /\ errands[k].op \in {"create", "edit"}
  /\ LET e == errands[k]
     IN  /\ form' = IF e.seen /\ form # NoForm /\ form.kind = e.op THEN NoForm ELSE form
         /\ errands' = IF e.op = "create" /\ e.seen
                       THEN [errands EXCEPT ![k] = Errand("get", e.id, NoWish)]
                       ELSE RemoveAt(errands, k)
  /\ UNCHANGED <<db, registered, session, loading, calls, page, mine>>

-----------------------------------------------------------------------------

Init ==
  /\ db = mockUsersDb /\ registered = {}
  /\ user = NoUser /\ token = NoToken /\ loading = FALSE /\ calls = <<>>
  /\ storedUser = NoUser /\ storedToken = NoToken
  /\ page = "elsewhere" /\ mine = Nobodys /\ form = NoForm /\ errands = <<>>

FinishCall ==
  \E k \in DOMAIN calls : FinishLogin(k) \/ FinishRegister(k) \/ FinishSave(k)

FinishErrand ==
  \E k \in DOMAIN errands : FinishWishes(k) \/ FinishFirstHalf(k) \/ FinishPost(k)

Next ==
  \/ \E n \in Names : SubmitRegister(n) \/ \E right \in BOOLEAN : SubmitLogin(n, right)
  \/ \E n \in Names \cup {Blank}, right \in BOOLEAN : SubmitSave(n, right)
  \/ Logout \/ Reload \/ LeaveProfile \/ OpenProfile
  \/ \E w \in Wishes : SubmitAddWish(w) \/ SubmitRemoveWish(w) \/ TypeWish(w)
  \/ \E kind \in {"create", "edit"} : OpenForm(kind)
  \/ toggleWish \/ SubmitForm \/ CancelForm
  \/ FinishCall \/ FinishErrand

\* Timers fire: what is awaited is answered in the end.
Spec == Init /\ [][Next]_vars /\ WF_vars(FinishCall) /\ WF_vars(FinishErrand)

-----------------------------------------------------------------------------
(* Properties. *)

\* The variables hold what the code's types and the forms allow.
TypeOK ==
  /\ db \in [Names -> Records \cup {NoRecord}] /\ registered \subseteq Accounts
  /\ user \in Accounts \cup {NoUser} /\ storedUser \in Accounts \cup {NoUser}
  /\ token \in Accounts \cup {NoToken, NullText}
  /\ storedToken \in Accounts \cup {NoToken, NullText}
  /\ loading \in BOOLEAN /\ calls \in Seq(Calls)
  /\ page \in {"elsewhere", "profile"}
  /\ mine \in Lists /\ form \in Forms \cup {NoForm} /\ errands \in Seq(Errands)

\* The token of a session is one issued to the session's user, on the page and in
\* localStorage, whatever is logged in, logged out or saved while a call is in
\* flight: the buttons wait for isLoading, which a logout does not reset.
TokenIsUsers ==
  /\ token \in Accounts => token = user
  /\ storedToken \in Accounts => storedToken = storedUser

\* A reload restores the session of the page.  The one oddity: settings saved
\* after a logout store the user with the text "null" for a token.
SessionStored ==
  /\ storedUser = user
  /\ storedToken = IF user = NoUser THEN NoToken
                   ELSE IF token = NoToken THEN NullText ELSE token

\* No account of the table is lost or doubled, however names are changed.
AccountsKept ==
  \A a \in Accounts :
    /\ \A m, n \in KeysOf(a) : m = n
    /\ a \in BuiltIn => KeysOf(a) # {}

\* With nothing in flight the profile page lists the wishes the table has, also
\* after the item forms added some: the list is the table's own array.  Holds as long
\* as nobody hurries back: removeWish replaces the array, and a page opened again
\* meanwhile keeps the old one.
WishesShown ==
  page = "profile" /\ errands = <<>> /\ user # NoUser => MyWishes = SavedWishes(user)

\* Whatever is submitted, the buttons work again: every way a call can end
\* resets isLoading.
ButtonsComeBack == loading ~> ~ loading

\* What WishesShown asks of the users: no step opens the profile while a wish is
\* being added or removed.
NobodyHurriesBack == page # "profile" /\ page' = "profile" => WishesSettled
=============================================================================
