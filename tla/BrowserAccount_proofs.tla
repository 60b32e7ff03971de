------------------------ MODULE BrowserAccount_proofs ------------------------
(* Proofs about BrowserAccount, for every value of its constants. *)
EXTENDS BrowserAccount, RemovalLemmas

-----------------------------------------------------------------------------
(* The table of users. *)

Tables == [Names -> Records \cup {NoRecord}]

LEMMA BuiltInTable ==
  /\ mockUsersDb \in Tables
  /\ \A a \in BuiltIn : mockUsersDb[BuiltInName[a]] # NoRecord
                     /\ mockUsersDb[BuiltInName[a]].id = a
  /\ \A n \in Names : mockUsersDb[n] # NoRecord
       => mockUsersDb[n].id \in BuiltIn /\ BuiltInName[mockUsersDb[n].id] = n
<1> DEFINE named(n) == \E a \in BuiltIn : BuiltInName[a] = n
           owner(n) == CHOOSE b \in BuiltIn : BuiltInName[b] = n
           record(n) == [id |-> owner(n), wishes |-> BuiltInWishes[owner(n)]]
<1>1. \A n \in Names : named(n) => owner(n) \in BuiltIn /\ BuiltInName[owner(n)] = n
  OBVIOUS
<1>2. \A n \in Names : mockUsersDb[n] = IF named(n) THEN record(n) ELSE NoRecord
  BY DEF mockUsersDb
<1>3. \A n \in Names : record(n).id = owner(n)
  OBVIOUS
<1>4. \A n \in Names : named(n) => record(n) \in Records
  <2> SUFFICES ASSUME NEW n \in Names, named(n)
               PROVE  owner(n) \in Accounts /\ BuiltInWishes[owner(n)] \in SUBSET Wishes
    BY DEF Records
  <2> QED
    BY <1>1, BuiltInAssumption
<1>5. mockUsersDb = [n \in Names |-> mockUsersDb[n]]
  BY DEF mockUsersDb
<1> HIDE DEF record, owner
<1>6. mockUsersDb \in Tables
  BY <1>2, <1>4, <1>5 DEF Tables
<1>7. \A a \in BuiltIn : mockUsersDb[BuiltInName[a]] # NoRecord
                      /\ mockUsersDb[BuiltInName[a]].id = a
  <2> SUFFICES ASSUME NEW a \in BuiltIn
               PROVE  /\ mockUsersDb[BuiltInName[a]] # NoRecord
                      /\ mockUsersDb[BuiltInName[a]].id = a
    OBVIOUS
  <2>1. BuiltInName[a] \in Names /\ named(BuiltInName[a])
    BY BuiltInAssumption
  <2>2. owner(BuiltInName[a]) = a
    BY <1>1, <2>1, BuiltInAssumption
  <2> QED
    BY <1>2, <1>3, <1>4, <2>1, <2>2, RecordAssumption
<1>8. \A n \in Names : mockUsersDb[n] # NoRecord
        => mockUsersDb[n].id \in BuiltIn /\ BuiltInName[mockUsersDb[n].id] = n
  BY <1>1, <1>2, <1>3
<1> QED
  BY <1>6, <1>7, <1>8

\* A wish more or less: nothing else of the table changes.
SameAccounts(d) ==
  /\ d \in Tables
  /\ \A n \in Names : /\ d[n] = NoRecord <=> db[n] = NoRecord
                      /\ db[n] # NoRecord => d[n].id = db[n].id

LEMMA WishesMove ==
  ASSUME db \in Tables, NEW a, NEW w \in Wishes
  PROVE  SameAccounts(addWish(a, w)) /\ SameAccounts(removeWish(a, w))
<1> DEFINE more(n) == (IF db[n].wishes = NoList THEN {} ELSE db[n].wishes) \cup {w}
           less(n) == db[n].wishes \ {w}
<1>1. ASSUME NEW r \in Records, NEW S \in SUBSET Wishes
      PROVE  [r EXCEPT !.wishes = S] \in Records /\ [r EXCEPT !.wishes = S].id = r.id
  BY DEF Records
<1>2. ASSUME NEW n \in Names, db[n] # NoRecord
      PROVE  /\ db[n] \in Records /\ more(n) \in SUBSET Wishes
             /\ db[n].wishes # NoList => less(n) \in SUBSET Wishes
  BY <1>2 DEF Tables, Records
<1> DEFINE added == addWish(a, w)
           removed == removeWish(a, w)
<1>3. \A n \in Names : added[n] = IF n \in KeysOf(a) THEN [db[n] EXCEPT !.wishes = more(n)] ELSE db[n]
  BY DEF addWish
<1>4. \A n \in Names : removed[n] = IF n \in KeysOf(a) /\ db[n].wishes # NoList
                                    THEN [db[n] EXCEPT !.wishes = less(n)] ELSE db[n]
  BY DEF removeWish
<1>5. added = [n \in Names |-> added[n]] /\ removed = [n \in Names |-> removed[n]]
  BY DEF addWish, removeWish
<1> HIDE DEF added, removed, more, less
<1>6. \A n \in KeysOf(a) : n \in Names /\ db[n] # NoRecord
  BY DEF KeysOf
<1>7. \A n \in Names : \/ added[n] = db[n]
                       \/ db[n] # NoRecord /\ added[n] \in Records /\ added[n].id = db[n].id
  BY <1>1, <1>2, <1>3, <1>6
<1>8. \A n \in Names : \/ removed[n] = db[n]
                       \/ db[n] # NoRecord /\ removed[n] \in Records /\ removed[n].id = db[n].id
  <2> SUFFICES ASSUME NEW n \in Names, n \in KeysOf(a), db[n].wishes # NoList
               PROVE  db[n] # NoRecord /\ removed[n] \in Records /\ removed[n].id = db[n].id
    BY <1>4
  <2>1. db[n] # NoRecord
    BY <1>6
  <2>2. db[n] \in Records /\ less(n) \in SUBSET Wishes
    BY <1>2, <2>1
  <2> QED
    BY <1>1, <1>4, <2>1, <2>2
<1>9. added \in Tables /\ removed \in Tables
  BY <1>5, <1>7, <1>8 DEF Tables
<1> QED
  BY <1>7, <1>8, <1>9, RecordAssumption DEF SameAccounts, added, removed

\* The record of an account moves to another key, which is free.
LEMMA RecordMoves ==
  ASSUME db \in Tables, NEW n \in Names, NEW key \in Names,
         db[n] # NoRecord, key = n \/ db[key] = NoRecord
  PROVE  [[db EXCEPT ![n] = NoRecord] EXCEPT ![key] = db[n]] \in Tables
  BY DEF Tables

-----------------------------------------------------------------------------
(* The types. *)

\* What the forms and the wishes hold, apart from the session.
WishTypes ==
  /\ page \in {"elsewhere", "profile"}
  /\ mine \in Lists /\ form \in Forms \cup {NoForm} /\ errands \in Seq(Errands)

\* The session and the calls that AuthStore awaits.
SessionTypes ==
  /\ user \in Accounts \cup {NoUser} /\ storedUser \in Accounts \cup {NoUser}
  /\ token \in Accounts \cup {NoToken, NullText}
  /\ storedToken \in Accounts \cup {NoToken, NullText}
  /\ loading \in BOOLEAN /\ calls \in Seq(Calls)

\* A form is open for somebody who is logged in.
FormHasUser == form # NoForm => user # NoUser

LEMMA TypeParts ==
  TypeOK <=> db \in Tables /\ registered \subseteq Accounts /\ SessionTypes /\ WishTypes
  BY DEF TypeOK, Tables, SessionTypes, WishTypes

LEMMA NewErrand ==
  ASSUME NEW a \in Accounts
  PROVE  /\ \A op \in {"get", "create", "edit"} : Errand(op, a, NoWish) \in Errands
         /\ \A w \in Wishes, op \in {"add", "remove", "addThenCreate", "addThenEdit"} :
              Errand(op, a, w) \in Errands
  BY DEF Errand, Errands

LEMMA LeaveType ==
  ASSUME WishTypes, NEW p \in {"elsewhere", "profile"}, LeaveFor(p)
  PROVE  WishTypes'
<1>1. Unmounted \in Seq(Errands)
  <2>1. \A e \in Errands : [e EXCEPT !.seen = FALSE] \in Errands
    BY DEF Errands
  <2>2. errands \in [1 .. Len(errands) -> Errands] /\ Len(errands) \in Nat
    BY DEF WishTypes
  <2>3. Unmounted \in [1 .. Len(errands) -> Errands]
    BY <2>1, <2>2 DEF Unmounted
  <2> QED
    BY <2>2, <2>3
<1>2. Nobodys \in Lists
  BY DEF Nobodys, Lists
<1> QED
  BY <1>1, <1>2 DEF LeaveFor, WishTypes

LEMMA SendType ==
  ASSUME WishTypes, NEW e \in Errands, Send(e)
  PROVE  errands' \in Seq(Errands)
  BY DEF WishTypes, Send

LEMMA FormType ==
  ASSUME WishTypes, form # NoForm
  PROVE  /\ form \in Forms
         /\ \A w \in Wishes : [form EXCEPT !.typed = w] \in Forms
         /\ [form EXCEPT !.busy = TRUE] \in Forms
         /\ \A S \in SUBSET Wishes : [form EXCEPT !.typed = NoWish, !.added = S] \in Forms
<1>1. form \in Forms
  BY DEF WishTypes
<1> QED
  BY <1>1 DEF Forms

\* The profile page's own handlers touch neither the session nor the table.
PageOnly == UNCHANGED <<db, registered, session, loading, calls>>

LEMMA PageStep ==
  ASSUME TypeOK, FormHasUser,
         \/ LeaveProfile \/ OpenProfile \/ toggleWish \/ SubmitForm \/ CancelForm
         \/ \E w \in Wishes : SubmitAddWish(w) \/ SubmitRemoveWish(w) \/ TypeWish(w)
         \/ \E kind \in {"create", "edit"} : OpenForm(kind)
  PROVE  PageOnly /\ WishTypes' /\ FormHasUser'
<1>0. WishTypes /\ user \in Accounts \cup {NoUser}
  BY TypeParts DEF SessionTypes
<1>1. CASE LeaveProfile
  BY <1>0, <1>1, LeaveType DEF LeaveProfile, LeaveFor, PageOnly, FormHasUser
<1>2. CASE OpenProfile
  <2>1. Errand("get", user, NoWish) \in Errands
    BY <1>0, <1>2, NewErrand DEF OpenProfile
  <2> QED
    BY <1>0, <1>2, <2>1 DEF OpenProfile, PageOnly, WishTypes, FormHasUser, session
<1>3. ASSUME NEW w \in Wishes, SubmitAddWish(w) \/ SubmitRemoveWish(w)
      PROVE  PageOnly /\ WishTypes' /\ FormHasUser'
  <2>1. Errand("add", user, w) \in Errands /\ Errand("remove", user, w) \in Errands
    BY <1>0, <1>3, NewErrand DEF SubmitAddWish, SubmitRemoveWish, OnProfile
  <2>2. errands' \in Seq(Errands)
    BY <1>0, <1>3, <2>1, SendType DEF SubmitAddWish, SubmitRemoveWish
  <2> QED
    BY <1>0, <1>3, <2>2 DEF SubmitAddWish, SubmitRemoveWish, PageOnly, WishTypes, FormHasUser, session
<1>4. ASSUME NEW kind \in {"create", "edit"}, OpenForm(kind)
      PROVE  PageOnly /\ WishTypes' /\ FormHasUser'
  <2>1. form' \in Forms
    BY <1>4 DEF OpenForm, Forms
  <2> QED
    BY <1>0, <1>4, <2>1 DEF OpenForm, OnProfile, PageOnly, WishTypes, FormHasUser, session
<1>5. ASSUME NEW w \in Wishes, TypeWish(w)
      PROVE  PageOnly /\ WishTypes' /\ FormHasUser'
  <2>1. form' \in Forms
    BY <1>0, <1>5, FormType DEF TypeWish
  <2> QED
    BY <1>0, <1>5, <2>1 DEF TypeWish, PageOnly, WishTypes, FormHasUser, session
<1>6. CASE toggleWish
  <2>1. form.added \in SUBSET Wishes /\ form.typed \in Wishes
    BY <1>0, <1>6, FormType DEF toggleWish, Forms
  <2> DEFINE S == IF form.typed \in form.added THEN form.added \ {form.typed}
                                               ELSE form.added \cup {form.typed}
  <2>2. S \in SUBSET Wishes /\ form' = [form EXCEPT !.typed = NoWish, !.added = S]
    BY <1>6, <2>1 DEF toggleWish
  <2> HIDE DEF S
  <2>3. form' \in Forms
    BY <1>0, <1>6, <2>2, FormType DEF toggleWish
  <2>4. UNCHANGED <<db, registered, session, loading, calls, page, mine, errands>> /\ form # NoForm
    BY <1>6 DEF toggleWish
  <2>5. PageOnly /\ WishTypes'
    BY <1>0, <2>3, <2>4 DEF PageOnly, WishTypes
  <2>6. user' = user
    BY <2>4 DEF session
  <2>7. FormHasUser'
    BY <2>4, <2>6 DEF FormHasUser
  <2> QED
    BY <2>5, <2>7
<1>7. CASE SubmitForm
  <2>1. form' \in Forms
    BY <1>0, <1>7, FormType DEF SubmitForm
  <2>2. user \in Accounts
    BY <1>0, <1>7 DEF SubmitForm, FormHasUser
  <2> DEFINE more == form.typed # NoWish /\ form.typed \notin form.added
             op   == IF form.kind = "create"
                     THEN IF more THEN "addThenCreate" ELSE "create"
                     ELSE IF more THEN "addThenEdit" ELSE "edit"
             e    == Errand(op, user, IF more THEN form.typed ELSE NoWish)
  <2>3. form.typed \in Wishes \cup {NoWish} /\ form.kind \in {"create", "edit"}
    BY <1>0, <1>7, FormType DEF SubmitForm, Forms
  <2>4. ASSUME more PROVE e \in Errands
    <3>1. op \in {"addThenCreate", "addThenEdit"} /\ form.typed \in Wishes
      BY <2>3, <2>4
    <3> HIDE DEF op
    <3> QED
      BY <2>2, <2>4, <3>1, NewErrand
  <2>5. ASSUME ~ more PROVE e \in Errands
    <3>1. op \in {"create", "edit"}
      BY <2>3, <2>5
    <3> HIDE DEF op
    <3> QED
      BY <2>2, <2>5, <3>1, NewErrand
  <2>6. Send(e)
    BY <1>7 DEF SubmitForm
  <2> HIDE DEF e
  <2>7. errands' \in Seq(Errands)
    BY <1>0, <2>4, <2>5, <2>6, SendType
  <2> QED
    BY <1>0, <1>7, <2>1, <2>7 DEF SubmitForm, PageOnly, WishTypes, FormHasUser, session
<1>8. CASE CancelForm
  BY <1>0, <1>8 DEF CancelForm, PageOnly, WishTypes, FormHasUser, session
<1> QED
  BY <1>1, <1>2, <1>3, <1>4, <1>5, <1>6, <1>7, <1>8

\* What comes back about wishes and items changes no account of the table.
ErrandOnly == SameAccounts(db') /\ UNCHANGED <<registered, session, loading, calls>>

LEMMA ErrandStep ==
  ASSUME TypeOK, FormHasUser, FinishErrand
  PROVE  ErrandOnly /\ WishTypes' /\ FormHasUser'
<1>0. WishTypes /\ db \in Tables /\ errands \in Seq(Errands)
  BY TypeParts DEF WishTypes
<1>1. SameAccounts(db)
  BY <1>0 DEF SameAccounts
<1>2. PICK k \in DOMAIN errands : FinishWishes(k) \/ FinishFirstHalf(k) \/ FinishPost(k)
  BY DEF FinishErrand
<1>3. RemoveAt(errands, k) \in Seq(Errands) /\ errands[k] \in Errands
  BY <1>0, RemoveAtType
<1>4. CASE FinishWishes(k)
  <2> DEFINE e == errands[k]
  <2>0. e.op \in {"add", "remove"} => e.wish \in Wishes
    BY <1>3 DEF Errands
  <2>1. mine' \in Lists
    BY <1>0, <1>4 DEF FinishWishes, WishTypes, getUserWishes, Own, Nobodys, Lists
  <2>2. SameAccounts(db')
    <3>1. CASE e.op = "get"
      BY <1>1, <1>4, <3>1 DEF FinishWishes
    <3>2. CASE e.op = "add"
      BY <1>0, <1>4, <2>0, <3>2, WishesMove DEF FinishWishes
    <3>3. CASE e.op = "remove"
      BY <1>0, <1>4, <2>0, <3>3, WishesMove DEF FinishWishes
    <3> QED
      BY <1>4, <3>1, <3>2, <3>3 DEF FinishWishes
  <2> QED
    BY <1>0, <1>3, <1>4, <2>1, <2>2 DEF FinishWishes, ErrandOnly, WishTypes, FormHasUser, session
<1>5. CASE FinishFirstHalf(k)
  <2> DEFINE next == IF errands[k].op = "addThenCreate" THEN "create" ELSE "edit"
  <2>1. /\ errands[k].op \in {"addThenCreate", "addThenEdit"}
        /\ errands' = [errands EXCEPT ![k].op = next]
    BY <1>5 DEF FinishFirstHalf
  <2>2. errands[k].wish \in Wishes /\ [errands[k] EXCEPT !.op = next] \in Errands
    BY <1>3, <2>1 DEF Errands
  <2>3. errands' \in Seq(Errands)
    BY <1>0, <2>1, <2>2
  <2>4. SameAccounts(db')
    BY <1>0, <1>5, <2>2, WishesMove DEF FinishFirstHalf
  <2> QED
    BY <1>0, <1>5, <2>3, <2>4 DEF FinishFirstHalf, ErrandOnly, WishTypes, FormHasUser, session
<1>6. CASE FinishPost(k)
  <2> DEFINE again == Errand("get", errands[k].id, NoWish)
  <2>1. again \in Errands
    <3>1. errands[k].id \in Accounts
      BY <1>3 DEF Errands
    <3> QED
      BY <3>1, NewErrand
  <2>2. errands' = [errands EXCEPT ![k] = again] \/ errands' = RemoveAt(errands, k)
    BY <1>6 DEF FinishPost
  <2> HIDE DEF again
  <2>3. errands' \in Seq(Errands)
    BY <1>0, <1>3, <2>1, <2>2
  <2>4. form' \in {form, NoForm}
    BY <1>6 DEF FinishPost
  <2>5. /\ UNCHANGED <<db, registered, session, loading, calls, page, mine>>
    BY <1>6 DEF FinishPost
  <2> QED
    BY <1>0, <1>1, <2>3, <2>4, <2>5 DEF ErrandOnly, WishTypes, FormHasUser, session
<1> QED
  BY <1>2, <1>4, <1>5, <1>6

-----------------------------------------------------------------------------
(* The session. *)

\* AuthStore awaits one call at a time, and is loading while it does; who saves
\* settings is the user, or logged out meanwhile.
OneCall ==
  /\ Len(calls) <= 1 /\ (loading <=> calls # <<>>)
  /\ \A k \in DOMAIN calls : calls[k].op = "save" => user \in {NoUser, calls[k].id}

\* Nobody has a token but a user.
NobodysToken == user = NoUser => token = NoToken

SessionInv ==
  /\ TypeOK /\ FormHasUser
  /\ TokenIsUsers /\ SessionStored /\ NobodysToken /\ OneCall

LEMMA Asked ==
  ASSUME SessionTypes, OneCall, NEW c \in Calls, Ask(c),
         c.op = "save" => user = c.id, UNCHANGED session
  PROVE  SessionTypes' /\ OneCall'
<1>1. calls = <<>> /\ loading' = TRUE /\ calls' = Append(calls, c)
  BY DEF Ask, OneCall
<1>2. calls' = <<c>>
  BY <1>1
<1>3. calls' \in Seq(Calls) /\ Len(calls') = 1 /\ calls' # <<>> /\ DOMAIN calls' = {1} /\ calls'[1] = c
  BY <1>2
<1>4. user' = user /\ token' = token /\ storedUser' = storedUser /\ storedToken' = storedToken
  BY DEF session
<1> QED
  BY <1>1, <1>3, <1>4 DEF SessionTypes, OneCall

LEMMA Answered ==
  ASSUME SessionTypes, OneCall, NEW k \in DOMAIN calls, Answer(k)
  PROVE  /\ k = 1 /\ calls' = <<>> /\ calls[k] \in Calls
         /\ calls[k].op = "save" => user \in {NoUser, calls[k].id}
<1>0. calls \in Seq(Calls) /\ Len(calls) <= 1
  BY DEF SessionTypes, OneCall
<1>1. calls \in Seq(Calls) /\ Len(calls) = 1 /\ k = 1
  BY <1>0
<1>2. RemoveAt(calls, k) \in Seq(Calls) /\ Len(RemoveAt(calls, k)) = 0
  BY <1>1, RemoveAtType
<1> QED
  BY <1>1, <1>2 DEF Answer, OneCall

LEMMA NoCalls ==
  ASSUME calls' = <<>>, loading' = FALSE
  PROVE  calls' \in Seq(Calls) /\ OneCall'
<1>1. <<>> \in Seq(Calls) /\ Len(<<>>) = 0 /\ DOMAIN <<>> = {}
  OBVIOUS
<1> QED
  BY <1>1 DEF OneCall

\* What a step that ends or starts a session has to leave.
SessionKept ==
  SessionTypes' /\ TokenIsUsers' /\ SessionStored' /\ NobodysToken' /\ OneCall'

LEMMA Entered ==
  ASSUME SessionTypes, WishTypes, NEW a \in Accounts, Enter(a), calls' = <<>>
  PROVE  SessionKept /\ WishTypes' /\ FormHasUser'
<1>1. /\ user' = a /\ token' = a /\ loading' = FALSE /\ storedUser' = a /\ storedToken' = a
      /\ form' = NoForm
  BY SentinelAssumption DEF Enter, saveToStorage, LeaveFor
<1>2. WishTypes'
  BY LeaveType DEF Enter
<1>3. a # NoUser /\ a # NoToken
  BY SentinelAssumption
<1>4. SessionTypes' /\ OneCall'
  BY <1>1, NoCalls DEF SessionTypes
<1>5. TokenIsUsers' /\ SessionStored' /\ NobodysToken'
  BY <1>1, <1>3 DEF TokenIsUsers, SessionStored, NobodysToken
<1> QED
  BY <1>1, <1>2, <1>4, <1>5 DEF SessionKept, FormHasUser

LEMMA Unrefused ==
  ASSUME SessionInv, Refused, calls' = <<>>
  PROVE  SessionKept /\ WishTypes' /\ FormHasUser' /\ UNCHANGED <<db, registered>>
<1>1. SessionTypes /\ WishTypes
  BY TypeParts DEF SessionInv
<1>2. /\ user' = user /\ token' = token /\ storedUser' = storedUser /\ storedToken' = storedToken
      /\ loading' = FALSE
      /\ UNCHANGED <<db, registered, page, mine, form, errands>>
  BY DEF Refused, session, wishVars
<1>3. SessionTypes' /\ OneCall'
  BY <1>1, <1>2, NoCalls DEF SessionTypes
<1>4. TokenIsUsers' /\ SessionStored' /\ NobodysToken'
  BY <1>2 DEF SessionInv, TokenIsUsers, SessionStored, NobodysToken
<1>5. WishTypes' /\ FormHasUser'
  BY <1>1, <1>2 DEF SessionInv, WishTypes, FormHasUser
<1> QED
  BY <1>2, <1>3, <1>4, <1>5 DEF SessionKept

LEMMA LoginStep ==
  ASSUME SessionInv, NEW k \in DOMAIN calls, FinishLogin(k)
  PROVE  SessionKept /\ WishTypes' /\ FormHasUser' /\ UNCHANGED <<db, registered>>
<1>1. SessionTypes /\ WishTypes /\ db \in Tables /\ OneCall
  BY TypeParts DEF SessionInv
<1>2. calls' = <<>> /\ calls[k] \in Calls /\ calls[k].op = "login"
  BY <1>1, Answered DEF FinishLogin
<1>3. calls[k].name \in Names
  BY <1>2 DEF Calls
<1>4. CASE db[calls[k].name] # NoRecord /\ calls[k].right
  <2>1. db[calls[k].name].id \in Accounts
    BY <1>1, <1>3, <1>4 DEF Tables, Records
  <2> QED
    BY <1>1, <1>2, <1>4, <2>1, Entered DEF FinishLogin
<1>5. CASE ~ (db[calls[k].name] # NoRecord /\ calls[k].right)
  BY <1>2, <1>5, Unrefused DEF FinishLogin
<1> QED
  BY <1>4, <1>5

LEMMA RegisterStep ==
  ASSUME SessionInv, NEW k \in DOMAIN calls, FinishRegister(k)
  PROVE  /\ SessionKept /\ WishTypes' /\ FormHasUser'
         /\ \/ UNCHANGED <<db, registered>>
            \/ \E n \in Names, a \in Accounts \ (BuiltIn \cup registered) :
                 /\ db[n] = NoRecord /\ registered' = registered \cup {a}
                 /\ db' = [db EXCEPT ![n] = [id |-> a, wishes |-> NoList]]
<1>1. SessionTypes /\ WishTypes /\ OneCall
  BY TypeParts DEF SessionInv
<1>2. calls' = <<>> /\ calls[k] \in Calls /\ calls[k].op = "register"
  BY <1>1, Answered DEF FinishRegister
<1>3. calls[k].name \in Names
  BY <1>2 DEF Calls
<1>4. CASE db[calls[k].name] = NoRecord
  <2>1. PICK a \in Accounts \ (BuiltIn \cup registered) :
          /\ registered' = registered \cup {a}
          /\ db' = [db EXCEPT ![calls[k].name] = [id |-> a, wishes |-> NoList]]
          /\ Enter(a)
    BY <1>4 DEF FinishRegister
  <2>2. SessionKept /\ WishTypes' /\ FormHasUser'
    BY <1>1, <1>2, <2>1, Entered
  <2> QED
    BY <1>3, <1>4, <2>1, <2>2
<1>5. CASE db[calls[k].name] # NoRecord
  BY <1>2, <1>5, Unrefused DEF FinishRegister
<1> QED
  BY <1>4, <1>5

LEMMA SaveStep ==
  ASSUME SessionInv, NEW k \in DOMAIN calls, FinishSave(k)
  PROVE  /\ SessionKept /\ WishTypes' /\ FormHasUser' /\ registered' = registered
         /\ \/ db' = db
            \/ \E n, key \in Names :
                 /\ db[n] # NoRecord /\ (key = n \/ db[key] = NoRecord)
                 /\ db' = [[db EXCEPT ![n] = NoRecord] EXCEPT ![key] = db[n]]
<1>1. SessionTypes /\ WishTypes /\ OneCall
  BY TypeParts DEF SessionInv
<1> DEFINE c == calls[k]
<1>2. /\ calls' = <<>> /\ c \in Calls /\ c.op = "save"
      /\ user \in {NoUser, c.id}
  BY <1>1, Answered DEF FinishSave
<1>3. c.name \in Names \cup {Blank} /\ c.id \in Accounts
  BY <1>2 DEF Calls
<1> DEFINE keys == {n \in KeysOf(c.id) : changeAllowed(c, n)}
<1>4. CASE keys # {}
  <2>1. PICK n \in keys :
          LET key == IF c.name = Blank THEN n ELSE c.name
          IN  /\ db' = [[db EXCEPT ![n] = NoRecord] EXCEPT ![key] = db[n]]
              /\ user' = c.id /\ loading' = FALSE
              /\ saveToStorage(token, c.id)
              /\ UNCHANGED <<registered, token, page, wishVars>>
    BY <1>4 DEF FinishSave
  <2> DEFINE key == IF c.name = Blank THEN n ELSE c.name
  <2>2. n \in Names /\ db[n] # NoRecord /\ changeAllowed(c, n)
    BY DEF KeysOf
  <2>3. key \in Names /\ (key = n \/ db[key] = NoRecord)
    BY <1>3, <2>2 DEF changeAllowed
  <2>4. /\ user' = c.id /\ token' = token /\ storedUser' = c.id /\ loading' = FALSE
        /\ storedToken' = IF token = NoToken THEN NullText ELSE token
    BY <2>1 DEF saveToStorage
  <2>5. db' = [[db EXCEPT ![n] = NoRecord] EXCEPT ![key] = db[n]]
    BY <2>1
  <2>6. UNCHANGED <<registered, page, mine, form, errands>>
    BY <2>1 DEF wishVars
  <2> HIDE DEF c, key, keys
  <2>7. c.id # NoUser
    BY <1>3, SentinelAssumption
  <2>8. token \in Accounts => token = c.id
    BY <1>2, SentinelAssumption DEF SessionInv, TokenIsUsers, NobodysToken
  <2>9. SessionTypes' /\ OneCall'
    BY <1>1, <1>2, <1>3, <2>4, NoCalls DEF SessionTypes
  <2>10. TokenIsUsers' /\ SessionStored' /\ NobodysToken'
    BY <2>4, <2>7, <2>8, SentinelAssumption DEF TokenIsUsers, SessionStored, NobodysToken
  <2>11. WishTypes' /\ FormHasUser'
    BY <1>1, <2>4, <2>6, <2>7 DEF WishTypes, FormHasUser
  <2> QED
    BY <2>2, <2>3, <2>5, <2>6, <2>9, <2>10, <2>11 DEF SessionKept
<1>5. CASE keys = {}
  <2>1. Refused
    BY <1>5 DEF FinishSave
  <2> QED
    BY <1>2, <2>1, Unrefused
<1> QED
  BY <1>4, <1>5

LEMMA LogoutStep ==
  ASSUME SessionInv, Logout
  PROVE  SessionKept /\ WishTypes' /\ FormHasUser'
<1>1. SessionTypes /\ WishTypes /\ OneCall
  BY TypeParts DEF SessionInv
<1>2. /\ user' = NoUser /\ token' = NoToken /\ storedUser' = NoUser /\ storedToken' = NoToken
      /\ loading' = loading /\ calls' = calls /\ form' = NoForm
  BY DEF Logout, LeaveFor
<1>3. WishTypes'
  BY <1>1, LeaveType DEF Logout
<1>4. SessionTypes'
  BY <1>1, <1>2 DEF SessionTypes
<1>5. OneCall'
  BY <1>1, <1>2 DEF OneCall
<1>6. TokenIsUsers' /\ SessionStored' /\ NobodysToken'
  BY <1>2, SentinelAssumption DEF TokenIsUsers, SessionStored, NobodysToken
<1> QED
  BY <1>2, <1>3, <1>4, <1>5, <1>6 DEF SessionKept, FormHasUser

LEMMA AccountReload ==
  ASSUME SessionInv, Reload
  PROVE  SessionKept /\ WishTypes' /\ FormHasUser' /\ db' = mockUsersDb /\ registered' = registered
<1>1. SessionTypes /\ WishTypes /\ SessionStored /\ NobodysToken /\ TokenIsUsers
  BY TypeParts DEF SessionInv
<1>2. /\ db' = mockUsersDb /\ registered' = registered
      /\ storedUser' = storedUser /\ storedToken' = storedToken
      /\ loading' = FALSE /\ calls' = <<>> /\ mine' = Nobodys /\ form' = NoForm
  BY DEF Reload
<1>3. IF storedToken # NoToken /\ storedUser # NoUser
      THEN user' = storedUser /\ token' = storedToken
      ELSE user' = NoUser /\ token' = NoToken
  BY DEF Reload
<1>4. SessionTypes' /\ OneCall'
  BY <1>1, <1>2, <1>3, NoCalls DEF SessionTypes
<1>5. TokenIsUsers' /\ SessionStored' /\ NobodysToken'
  BY <1>1, <1>2, <1>3, SentinelAssumption DEF TokenIsUsers, SessionStored, NobodysToken
<1>6. page' \in {"elsewhere", "profile"} /\ errands' \in Seq(Errands)
  <2>1. CASE page = "profile" /\ user' # NoUser
    <3>1. user' \in Accounts
      BY <1>4, <2>1 DEF SessionTypes
    <3>2. Errand("get", user', NoWish) \in Errands
      BY <3>1, NewErrand
    <3>3. page' = page /\ errands' = <<Errand("get", user', NoWish)>>
      BY <2>1 DEF Reload
    <3>4. PICK e \in Errands : errands' = <<e>>
      BY <3>2, <3>3
    <3>5. errands' \in Seq(Errands)
      BY <3>4
    <3> QED
      BY <2>1, <3>3, <3>5
  <2>2. CASE ~ (page = "profile" /\ user' # NoUser)
    <3>1. page' = "elsewhere" /\ errands' = <<>>
      BY <2>2 DEF Reload
    <3> QED
      BY <3>1
  <2> QED
    BY <2>1, <2>2
<1>7. Nobodys \in Lists
  BY DEF Nobodys, Lists
<1> QED
  BY <1>2, <1>4, <1>5, <1>6, <1>7 DEF SessionKept, WishTypes, FormHasUser

\* What a step does to the session, to the table and to the page.
LEMMA Steps ==
  ASSUME SessionInv, [Next]_vars
  PROVE  \/ PageOnly /\ WishTypes' /\ FormHasUser'
         \/ ErrandOnly /\ WishTypes' /\ FormHasUser'
         \/ SessionKept /\ WishTypes' /\ FormHasUser' /\ UNCHANGED <<db, registered>>
         \/ SessionKept /\ WishTypes' /\ FormHasUser'
              /\ db' = mockUsersDb /\ registered' = registered
         \/ \E k \in DOMAIN calls : FinishRegister(k) \/ FinishSave(k)
<1>0. TypeOK /\ FormHasUser /\ SessionTypes /\ WishTypes /\ OneCall
      /\ TokenIsUsers /\ SessionStored /\ NobodysToken
  BY TypeParts DEF SessionInv
<1>1. CASE \/ LeaveProfile \/ OpenProfile \/ toggleWish \/ SubmitForm \/ CancelForm
           \/ \E w \in Wishes : SubmitAddWish(w) \/ SubmitRemoveWish(w) \/ TypeWish(w)
           \/ \E kind \in {"create", "edit"} : OpenForm(kind)
  BY <1>0, <1>1, PageStep
<1>2. CASE FinishErrand
  BY <1>0, <1>2, ErrandStep
<1>3. CASE Logout
  BY <1>3, LogoutStep DEF Logout
<1>4. CASE Reload
  BY <1>4, AccountReload
<1>5. CASE FinishCall
  BY <1>5, LoginStep DEF FinishCall
<1>6. ASSUME NEW c \in Calls, Ask(c), c.op = "save" => user = c.id,
             UNCHANGED <<db, registered, session, page, wishVars>>
      PROVE  SessionKept /\ WishTypes' /\ FormHasUser' /\ UNCHANGED <<db, registered>>
  <2>1. UNCHANGED session /\ user' = user /\ token' = token
        /\ storedUser' = storedUser /\ storedToken' = storedToken
        /\ UNCHANGED <<db, registered, page, mine, form, errands>>
    BY <1>6 DEF session, wishVars
  <2>2. SessionTypes' /\ OneCall'
    BY <1>0, <1>6, <2>1, Asked
  <2>3. TokenIsUsers' /\ SessionStored' /\ NobodysToken'
    BY <1>0, <2>1 DEF TokenIsUsers, SessionStored, NobodysToken
  <2>4. WishTypes' /\ FormHasUser'
    BY <1>0, <2>1 DEF WishTypes, FormHasUser
  <2> QED
    BY <2>1, <2>2, <2>3, <2>4 DEF SessionKept
<1>7. ASSUME NEW n \in Names, NEW right \in BOOLEAN, SubmitLogin(n, right)
      PROVE  SessionKept /\ WishTypes' /\ FormHasUser' /\ UNCHANGED <<db, registered>>
  <2> DEFINE c == [op |-> "login", name |-> n, right |-> right]
  <2>1. c \in Calls /\ c.op # "save"
    BY DEF Calls
  <2> HIDE DEF c
  <2> QED
    BY <1>6, <1>7, <2>1 DEF SubmitLogin, c
<1>8. ASSUME NEW n \in Names, SubmitRegister(n)
      PROVE  SessionKept /\ WishTypes' /\ FormHasUser' /\ UNCHANGED <<db, registered>>
  <2> DEFINE c == [op |-> "register", name |-> n]
  <2>1. c \in Calls /\ c.op # "save"
    BY DEF Calls
  <2> HIDE DEF c
  <2> QED
    BY <1>6, <1>8, <2>1 DEF SubmitRegister, c
<1>9. ASSUME NEW n \in Names \cup {Blank}, NEW right \in BOOLEAN, SubmitSave(n, right)
      PROVE  SessionKept /\ WishTypes' /\ FormHasUser' /\ UNCHANGED <<db, registered>>
  <2> DEFINE c == [op |-> "save", id |-> user, name |-> n, right |-> right]
  <2>1. user \in Accounts
    BY <1>0, <1>9 DEF SubmitSave, SessionTypes
  <2>2. c \in Calls /\ c.id = user
    BY <2>1 DEF Calls
  <2> HIDE DEF c
  <2> QED
    BY <1>6, <1>9, <2>2 DEF SubmitSave, c
<1>10. CASE UNCHANGED vars
  BY <1>0, <1>10 DEF vars, PageOnly, wishVars, WishTypes, FormHasUser, session
<1> QED
  BY <1>1, <1>2, <1>3, <1>4, <1>5, <1>7, <1>8, <1>9, <1>10 DEF Next

LEMMA SessionStep ==
  ASSUME SessionInv, [Next]_vars
  PROVE  SessionInv'
<1>0. db \in Tables /\ registered \subseteq Accounts /\ SessionTypes /\ OneCall
      /\ TokenIsUsers /\ SessionStored /\ NobodysToken
  BY TypeParts DEF SessionInv
<1>1. ASSUME db' \in Tables, registered' \subseteq Accounts, SessionKept, WishTypes', FormHasUser'
      PROVE  SessionInv'
  BY <1>1, TypeParts DEF SessionInv, SessionKept, TypeOK, Tables, SessionTypes, WishTypes
<1>2. ASSUME UNCHANGED <<session, loading, calls>>
      PROVE  SessionKept
  <2>1. user' = user /\ token' = token /\ storedUser' = storedUser /\ storedToken' = storedToken
        /\ UNCHANGED <<loading, calls>>
    BY <1>2 DEF session
  <2>2. SessionTypes'
    BY <1>0, <2>1 DEF SessionTypes
  <2>3. OneCall'
    BY <1>0, <2>1 DEF OneCall
  <2>4. TokenIsUsers' /\ SessionStored' /\ NobodysToken'
    BY <1>0, <2>1 DEF TokenIsUsers, SessionStored, NobodysToken
  <2> QED
    BY <2>2, <2>3, <2>4 DEF SessionKept
<1>3. CASE PageOnly /\ WishTypes' /\ FormHasUser'
  BY <1>0, <1>1, <1>2, <1>3 DEF PageOnly
<1>4. CASE ErrandOnly /\ WishTypes' /\ FormHasUser'
  BY <1>0, <1>1, <1>2, <1>4 DEF ErrandOnly, SameAccounts
<1>5. CASE SessionKept /\ WishTypes' /\ FormHasUser' /\ UNCHANGED <<db, registered>>
  BY <1>0, <1>1, <1>5
<1>6. CASE SessionKept /\ WishTypes' /\ FormHasUser' /\ db' = mockUsersDb /\ registered' = registered
  BY <1>0, <1>1, <1>6, BuiltInTable
<1>7. ASSUME NEW k \in DOMAIN calls, FinishRegister(k)
      PROVE  SessionInv'
  <2>1. CASE UNCHANGED <<db, registered>>
    BY <1>0, <1>1, <1>7, <2>1, RegisterStep
  <2>2. ASSUME NEW n \in Names, NEW a \in Accounts \ (BuiltIn \cup registered),
               registered' = registered \cup {a},
               db' = [db EXCEPT ![n] = [id |-> a, wishes |-> NoList]]
        PROVE  db' \in Tables /\ registered' \subseteq Accounts
    <3>1. [id |-> a, wishes |-> NoList] \in Records
      BY DEF Records
    <3> QED
      BY <1>0, <2>2, <3>1 DEF Tables
  <2> QED
    BY <1>1, <1>7, <2>1, <2>2, RegisterStep
<1>8. ASSUME NEW k \in DOMAIN calls, FinishSave(k)
      PROVE  SessionInv'
  <2>1. ASSUME NEW n \in Names, NEW key \in Names,
               db[n] # NoRecord, key = n \/ db[key] = NoRecord,
               db' = [[db EXCEPT ![n] = NoRecord] EXCEPT ![key] = db[n]]
        PROVE  db' \in Tables
    BY <1>0, <2>1, RecordMoves
  <2> QED
    BY <1>0, <1>1, <1>8, <2>1, SaveStep
<1> QED
  BY <1>3, <1>4, <1>5, <1>6, <1>7, <1>8, Steps

LEMMA SessionInvariant == Spec => []SessionInv
<1>1. Init => SessionInv
  <2> SUFFICES ASSUME Init PROVE SessionInv
    OBVIOUS
  <2>1. /\ db = mockUsersDb /\ registered = {}
        /\ user = NoUser /\ token = NoToken /\ loading = FALSE /\ calls = <<>>
        /\ storedUser = NoUser /\ storedToken = NoToken
        /\ page = "elsewhere" /\ mine = Nobodys /\ form = NoForm /\ errands = <<>>
    BY DEF Init
  <2>2. SessionTypes /\ OneCall /\ WishTypes
    <3>1. /\ calls \in Seq(Calls) /\ errands \in Seq(Errands)
          /\ Len(calls) = 0 /\ DOMAIN calls = {}
      BY <2>1
    <3>2. mine \in Lists
      BY <2>1 DEF Nobodys, Lists
    <3>3. SessionTypes
      BY <2>1, <3>1 DEF SessionTypes
    <3>4. OneCall
      BY <2>1, <3>1 DEF OneCall
    <3>5. WishTypes
      BY <2>1, <3>1, <3>2 DEF WishTypes
    <3> QED
      BY <3>3, <3>4, <3>5
  <2>3. TypeOK /\ FormHasUser
    BY <2>1, <2>2, BuiltInTable, TypeParts DEF FormHasUser
  <2> QED
    BY <2>1, <2>2, <2>3, SentinelAssumption
    DEF SessionInv, TokenIsUsers, SessionStored, NobodysToken
<1>2. SessionInv /\ [Next]_vars => SessionInv'
  BY SessionStep
<1> QED
  BY <1>1, <1>2, PTL DEF Spec

\* Every variable of the account keeps its type.
THEOREM AccountTypes == Spec => []TypeOK
<1>1. SessionInv => TypeOK
  BY DEF SessionInv
<1> QED
  BY <1>1, SessionInvariant, PTL

\* The token of a session was issued to the session's user: the buttons that wait
\* for isLoading keep a second call from being sent, so the settings that are
\* saved late belong to the user who is logged in, or to one who has logged out.
THEOREM TokensMatchUsers == Spec => []TokenIsUsers
<1>1. SessionInv => TokenIsUsers
  BY DEF SessionInv
<1> QED
  BY <1>1, SessionInvariant, PTL

\* What a reload restores is the session of the page.
THEOREM SessionsAreStored == Spec => []SessionStored
<1>1. SessionInv => SessionStored
  BY DEF SessionInv
<1> QED
  BY <1>1, SessionInvariant, PTL

-----------------------------------------------------------------------------
(* The accounts. *)

\* Who has a record: those of the built-in table, and those who registered; each
\* under one key.
OneKeyEach ==
  /\ \A n \in Names : db[n] # NoRecord => db[n].id \in BuiltIn \cup registered
  /\ \A m, n \in Names :
       db[m] # NoRecord /\ db[n] # NoRecord /\ db[m].id = db[n].id => m = n
  /\ \A a \in BuiltIn : \E n \in Names : db[n] # NoRecord /\ db[n].id = a

LEMMA BuiltInKeys ==
  ASSUME db = mockUsersDb
  PROVE  OneKeyEach
<1>1. \A n \in Names : db[n] # NoRecord => db[n].id \in BuiltIn /\ BuiltInName[db[n].id] = n
  BY BuiltInTable
<1>2. \A a \in BuiltIn : BuiltInName[a] \in Names
                        /\ db[BuiltInName[a]] # NoRecord /\ db[BuiltInName[a]].id = a
  BY BuiltInTable, BuiltInAssumption
<1>3. \A m, n \in Names :
        db[m] # NoRecord /\ db[n] # NoRecord /\ db[m].id = db[n].id => m = n
  BY <1>1
<1>4. \A n \in Names : db[n] # NoRecord => db[n].id \in BuiltIn \cup registered
  BY <1>1
<1>5. \A a \in BuiltIn : \E n \in Names : db[n] # NoRecord /\ db[n].id = a
  BY <1>2
<1> QED
  BY <1>3, <1>4, <1>5 DEF OneKeyEach

LEMMA KeysStep ==
  ASSUME SessionInv, OneKeyEach, [Next]_vars
  PROVE  OneKeyEach'
<1>0. db \in Tables
  BY TypeParts DEF SessionInv
<1>1. CASE UNCHANGED <<db, registered>>
  BY <1>1 DEF OneKeyEach
<1>2. CASE SameAccounts(db') /\ registered' = registered
  BY <1>2 DEF OneKeyEach, SameAccounts
<1>3. CASE db' = mockUsersDb /\ registered' = registered
  <2>1. \A n \in Names : db'[n] # NoRecord => db'[n].id \in BuiltIn /\ BuiltInName[db'[n].id] = n
    BY <1>3, BuiltInTable
  <2>2. \A a \in BuiltIn : BuiltInName[a] \in Names
                          /\ db'[BuiltInName[a]] # NoRecord /\ db'[BuiltInName[a]].id = a
    BY <1>3, BuiltInTable, BuiltInAssumption
  <2>3. \A m, n \in Names :
          db'[m] # NoRecord /\ db'[n] # NoRecord /\ db'[m].id = db'[n].id => m = n
    BY <2>1
  <2>4. \A n \in Names : db'[n] # NoRecord => db'[n].id \in BuiltIn \cup registered'
    BY <2>1
  <2>5. \A a \in BuiltIn : \E n \in Names : db'[n] # NoRecord /\ db'[n].id = a
    BY <2>2
  <2> QED
    BY <2>3, <2>4, <2>5 DEF OneKeyEach
<1>4. ASSUME NEW n \in Names, NEW a \in Accounts \ (BuiltIn \cup registered),
             db[n] = NoRecord, registered' = registered \cup {a},
             db' = [db EXCEPT ![n] = [id |-> a, wishes |-> NoList]]
      PROVE  OneKeyEach'
  <2> DEFINE r == [id |-> a, wishes |-> NoList]
  <2>1. r.id = a /\ db' = [db EXCEPT ![n] = r]
    BY <1>4
  <2> HIDE DEF r
  <2>2. \A m \in Names : db'[m] = IF m = n THEN r ELSE db[m]
    BY <1>0, <2>1 DEF Tables
  <2>3. \A m \in Names : db[m] # NoRecord => db[m].id # a
    BY DEF OneKeyEach
  <2>4. \A m \in Names : db'[m] # NoRecord => db'[m].id \in BuiltIn \cup registered'
    BY <1>4, <2>1, <2>2 DEF OneKeyEach
  <2>5. \A m, o \in Names :
          db'[m] # NoRecord /\ db'[o] # NoRecord /\ db'[m].id = db'[o].id => m = o
    BY <2>1, <2>2, <2>3 DEF OneKeyEach
  <2>6. ASSUME NEW b \in BuiltIn
        PROVE  \E m \in Names : db'[m] # NoRecord /\ db'[m].id = b
    <3>1. PICK m \in Names : db[m] # NoRecord /\ db[m].id = b
      BY DEF OneKeyEach
    <3> QED
      BY <1>4, <2>2, <3>1
  <2> QED
    BY <2>4, <2>5, <2>6 DEF OneKeyEach
<1>5. ASSUME NEW n \in Names, NEW key \in Names,
             db[n] # NoRecord, key = n \/ db[key] = NoRecord, registered' = registered,
             db' = [[db EXCEPT ![n] = NoRecord] EXCEPT ![key] = db[n]]
      PROVE  OneKeyEach'
  <2>1. \A m \in Names : db'[m] = IF m = key THEN db[n] ELSE
                                  IF m = n THEN NoRecord ELSE db[m]
    <3> DEFINE d == [[db EXCEPT ![n] = NoRecord] EXCEPT ![key] = db[n]]
    <3>1. \A m \in Names : d[m] = IF m = key THEN db[n] ELSE
                                  IF m = n THEN NoRecord ELSE db[m]
      BY <1>0 DEF Tables
    <3>2. db' = d
      BY <1>5
    <3> HIDE DEF d
    <3> QED
      BY <3>1, <3>2
  <2>2. \A m \in Names : db'[m] # NoRecord => db'[m].id \in BuiltIn \cup registered'
    BY <1>5, <2>1 DEF OneKeyEach
  <2>3. \A m, o \in Names :
          db'[m] # NoRecord /\ db'[o] # NoRecord /\ db'[m].id = db'[o].id => m = o
    BY <1>5, <2>1 DEF OneKeyEach
  <2>4. ASSUME NEW b \in BuiltIn
        PROVE  \E m \in Names : db'[m] # NoRecord /\ db'[m].id = b
    <3>1. PICK m \in Names : db[m] # NoRecord /\ db[m].id = b
      BY DEF OneKeyEach
    <3>2. CASE m = n
      BY <1>5, <2>1, <3>1, <3>2
    <3>3. CASE m # n
      BY <1>5, <2>1, <3>1, <3>3
    <3> QED
      BY <3>2, <3>3
  <2> QED
    BY <2>2, <2>3, <2>4 DEF OneKeyEach
<1>6. ASSUME NEW k \in DOMAIN calls, FinishRegister(k)
      PROVE  OneKeyEach'
  BY <1>1, <1>4, <1>6, RegisterStep
<1>7. ASSUME NEW k \in DOMAIN calls, FinishSave(k)
      PROVE  OneKeyEach'
  BY <1>1, <1>5, <1>7, SaveStep
<1> QED
  BY <1>1, <1>2, <1>3, <1>6, <1>7, Steps DEF PageOnly, ErrandOnly

\* No account is lost or doubled, however names are changed, by whoever, while
\* other calls are in flight.
THEOREM NoAccountLost == Spec => []AccountsKept
<1>1. Init => OneKeyEach
  BY BuiltInKeys DEF Init
<1>2. SessionInv /\ OneKeyEach /\ [Next]_vars => OneKeyEach'
  BY KeysStep
<1>3. OneKeyEach => AccountsKept
  BY DEF OneKeyEach, AccountsKept, KeysOf
<1> QED
  BY <1>1, <1>2, <1>3, SessionInvariant, PTL DEF Spec

-----------------------------------------------------------------------------
(* The list of wishes. *)

\* The table has no list of wishes for the account, not even an empty one.
Unlisted(a) == \A n \in Names : db[n] # NoRecord /\ db[n].id = a => db[n].wishes = NoList

\* Only who registered may lack a list; who has items to edit has one.
BuiltInListed ==
  \A n \in Names : db[n] # NoRecord /\ db[n].id \in BuiltIn => db[n].wishes # NoList

\* A call after which the page reads the wishes again.
Rereads(e) == e.seen /\ e.op \in {"get", "add", "remove", "create", "addThenCreate"}

\* The calls the page waits for are its user's, and the others write no wish.
ErrandFits(e) ==
  /\ e.seen => page = "profile" /\ e.id = user
  /\ page = "profile" /\ ~ e.seen => e.op \in {"get", "create", "edit"}
  /\ e.op = "addThenEdit" => e.id \in BuiltIn

FormFits == form # NoForm => page = "profile" /\ (form.kind = "edit" => user \in BuiltIn)

\* The page shows the table's own array, or there is none, or it is about to read
\* the wishes again.
ListFits ==
  /\ mine \in {Own, Nobodys}
  /\ page = "profile" =>
       mine.linked \/ Unlisted(user) \/ \E e \in Range(errands) : Rereads(e)

\* The inductive invariant behind WishesShown.
DeskInv ==
  /\ page = "profile" => user # NoUser
  /\ BuiltInListed /\ FormFits /\ ListFits
  /\ \A e \in Range(errands) : ErrandFits(e)

\* Nothing in flight on a profile page: it shows the table's array, or there is
\* none to show.
LEMMA DeskShows == DeskInv => WishesShown
<1> SUFFICES ASSUME DeskInv, page = "profile", errands = <<>>, user # NoUser
             PROVE  MyWishes = SavedWishes(user)
  BY DEF WishesShown
<1>1. Range(errands) = {}
  BY DEF Range
<1>2. mine.linked \/ Unlisted(user)
  BY <1>1 DEF DeskInv, ListFits
<1>3. CASE mine.linked
  BY <1>3 DEF MyWishes
<1>4. CASE ~ mine.linked /\ Unlisted(user)
  <2>1. mine.copy = {}
    BY <1>4 DEF DeskInv, ListFits, Own, Nobodys
  <2>2. {m \in KeysOf(user) : db[m].wishes # NoList} = {}
    BY <1>4 DEF Unlisted, KeysOf
  <2>3. SavedWishes(user) = {}
    BY <2>2 DEF SavedWishes
  <2> QED
    BY <1>4, <2>1, <2>3 DEF MyWishes
<1> QED
  BY <1>2, <1>3, <1>4

\* A call is sent: it joins those in flight.
LEMMA SentRange ==
  ASSUME NEW S, errands \in Seq(S), NEW e \in S, errands' = Append(errands, e)
  PROVE  Range(errands') = Range(errands) \cup {e}
<1>1. /\ DOMAIN errands' = 1 .. Len(errands) + 1 /\ errands'[Len(errands) + 1] = e
      /\ \A k \in 1 .. Len(errands) : errands'[k] = errands[k]
      /\ DOMAIN errands = 1 .. Len(errands) /\ Len(errands) \in Nat
  OBVIOUS
<1> QED
  BY <1>1 DEF Range

\* A call goes on as another.
LEMMA TurnedRange ==
  ASSUME NEW S, errands \in Seq(S), NEW k \in DOMAIN errands, NEW e \in S,
         errands' = [errands EXCEPT ![k] = e]
  PROVE  /\ Range(errands') \subseteq Range(errands) \cup {e} /\ e \in Range(errands')
         /\ Range(errands) \subseteq Range(errands') \cup {errands[k]}
<1>1. /\ DOMAIN errands' = DOMAIN errands /\ errands'[k] = e
      /\ \A j \in DOMAIN errands : j # k => errands'[j] = errands[j]
  OBVIOUS
<1> QED
  BY <1>1 DEF Range

\* Whoever leaves the page leaves nothing that would fit it no more.
LEMMA LeftDesk ==
  ASSUME WishTypes, DeskInv, BuiltInListed', LeaveFor("elsewhere")
  PROVE  DeskInv'
<1>1. page' = "elsewhere" /\ mine' = Nobodys /\ form' = NoForm /\ errands' = Unmounted
  BY DEF LeaveFor
<1>2. ASSUME NEW e \in Range(errands') PROVE ErrandFits(e)'
  <2>1. PICK k \in DOMAIN errands : e = [errands[k] EXCEPT !.seen = FALSE]
    BY <1>1 DEF Range, Unmounted
  <2>2. errands[k] \in Errands /\ ErrandFits(errands[k])
    BY DEF WishTypes, DeskInv, Range
  <2>3. ~ e.seen /\ e.op = errands[k].op /\ e.id = errands[k].id
    BY <2>1, <2>2 DEF Errands
  <2> QED
    BY <1>1, <2>2, <2>3 DEF ErrandFits
<1> QED
  BY <1>1, <1>2 DEF DeskInv, FormFits, ListFits

\* What keeps the page, its list and its calls, and the lists of the table, keeps
\* the rest.
LEMMA SameDesk ==
  ASSUME DeskInv, UNCHANGED <<page, mine, form, errands>>,
         user' = user \/ (user = NoUser /\ user' # NoUser),
         BuiltInListed', \A a : Unlisted(a) => Unlisted(a)'
  PROVE  DeskInv'
<1>1. page = "profile" => user' = user
  BY DEF DeskInv
<1>2. \A e \in Range(errands) : ErrandFits(e)'
  BY <1>1 DEF DeskInv, ErrandFits
<1>3. FormFits' /\ ListFits'
  BY <1>1 DEF DeskInv, FormFits, ListFits
<1> QED
  BY <1>1, <1>2, <1>3 DEF DeskInv

\* A call sent by the page is one of its user's, and adds to an item's edit only
\* if the user has items.
LEMMA SentDesk ==
  ASSUME DeskInv, errands \in Seq(Errands), OnProfile, NEW e \in Errands, Send(e),
         e.seen, e.id = user, e.op = "addThenEdit" => user \in BuiltIn,
         UNCHANGED <<db, user, page, mine>>, FormFits'
  PROVE  DeskInv'
<1>1. Range(errands') = Range(errands) \cup {e}
  BY SentRange DEF Send
<1>2. \A x \in Range(errands') : ErrandFits(x)'
  BY <1>1 DEF DeskInv, ErrandFits, OnProfile
<1>3. ListFits'
  BY <1>1 DEF DeskInv, ListFits, Unlisted
<1>4. BuiltInListed'
  BY DEF DeskInv, BuiltInListed
<1> QED
  BY <1>2, <1>3, <1>4 DEF DeskInv

\* The page's own handlers.
LEMMA PageDesk ==
  ASSUME TypeOK, DeskInv, NobodyHurriesBack,
         \/ LeaveProfile \/ OpenProfile \/ toggleWish \/ SubmitForm \/ CancelForm
         \/ \E w \in Wishes : SubmitAddWish(w) \/ SubmitRemoveWish(w) \/ TypeWish(w)
         \/ \E kind \in {"create", "edit"} : OpenForm(kind)
  PROVE  DeskInv'
<1>0. WishTypes /\ errands \in Seq(Errands) /\ user \in Accounts \cup {NoUser}
  BY TypeParts DEF WishTypes, SessionTypes
<1>1. ASSUME UNCHANGED db PROVE BuiltInListed' /\ \A a : Unlisted(a) => Unlisted(a)'
  BY <1>1 DEF DeskInv, BuiltInListed, Unlisted
<1>2. CASE LeaveProfile
  BY <1>0, <1>1, <1>2, LeftDesk DEF LeaveProfile
<1>3. CASE OpenProfile
  <2> DEFINE e == Errand("get", user, NoWish)
  <2>1. e \in Errands
    BY <1>0, <1>3, NewErrand DEF OpenProfile
  <2>2. e.op = "get" /\ e.seen /\ e.id = user
    BY DEF Errand
  <2>3. /\ page # "profile" /\ page' = "profile" /\ user # NoUser /\ user' = user
        /\ errands' = Append(errands, e) /\ UNCHANGED <<db, mine, form>>
        /\ \A x \in Range(errands) : x.op \in {"get", "create", "edit"}
    BY <1>3 DEF OpenProfile, NobodyHurriesBack, WishesSettled, session
  <2> HIDE DEF e
  <2>4. Range(errands') = Range(errands) \cup {e}
    BY <1>0, <2>1, <2>3, SentRange
  <2>5. \A x \in Range(errands') : ErrandFits(x)'
    BY <2>2, <2>3, <2>4 DEF DeskInv, ErrandFits
  <2>6. ListFits'
    BY <2>2, <2>3, <2>4 DEF DeskInv, ListFits, Rereads
  <2>7. FormFits'
    BY <2>3 DEF DeskInv, FormFits
  <2> QED
    BY <1>1, <2>3, <2>5, <2>6, <2>7 DEF DeskInv
<1>4. ASSUME NEW w \in Wishes, SubmitAddWish(w) \/ SubmitRemoveWish(w)
      PROVE  DeskInv'
  <2>1. OnProfile /\ form = NoForm /\ UNCHANGED <<db, user, page, mine, form>>
    BY <1>4 DEF SubmitAddWish, SubmitRemoveWish, session
  <2>2. user \in Accounts
    BY <1>0, <2>1 DEF OnProfile
  <2>3. PICK op \in {"add", "remove"} : Send(Errand(op, user, w))
    BY <1>4 DEF SubmitAddWish, SubmitRemoveWish
  <2> DEFINE e == Errand(op, user, w)
  <2>4. e \in Errands
    BY <2>2, NewErrand
  <2>5. e.seen /\ e.id = user /\ e.op # "addThenEdit" /\ Send(e)
    BY <2>3 DEF Errand
  <2> HIDE DEF e
  <2>6. FormFits'
    BY <2>1 DEF FormFits
  <2> QED
    BY <1>0, <2>1, <2>4, <2>5, <2>6, SentDesk
<1>5. CASE SubmitForm
  <2> DEFINE more == form.typed # NoWish /\ form.typed \notin form.added
             op   == IF form.kind = "create"
                     THEN IF more THEN "addThenCreate" ELSE "create"
                     ELSE IF more THEN "addThenEdit" ELSE "edit"
             e    == Errand(op, user, IF more THEN form.typed ELSE NoWish)
  <2>1. /\ form # NoForm /\ form' = [form EXCEPT !.busy = TRUE] /\ Send(e)
        /\ UNCHANGED <<db, user, page, mine>>
    BY <1>5 DEF SubmitForm, session
  <2>2. form \in Forms
    BY <1>0, <2>1 DEF WishTypes
  <2>3. form'.kind = form.kind /\ form.kind \in {"create", "edit"}
    BY <2>1, <2>2 DEF Forms
  <2>4. page = "profile" /\ user \in Accounts /\ (form.kind = "edit" => user \in BuiltIn)
    BY <1>0, <2>1 DEF DeskInv, FormFits
  <2>5. e.seen /\ e.id = user /\ e.op = op
    BY DEF Errand
  <2>6. op = "addThenEdit" => user \in BuiltIn
    BY <2>3, <2>4
  <2>7. e \in Errands
    <3>1. form.typed \in Wishes \cup {NoWish}
      BY <2>2 DEF Forms
    <3>2. ASSUME more PROVE e \in Errands
      <4>1. op \in {"addThenCreate", "addThenEdit"} /\ form.typed \in Wishes
        BY <2>3, <3>1, <3>2
      <4> HIDE DEF op
      <4> QED
        BY <2>4, <3>2, <4>1, NewErrand
    <3>3. ASSUME ~ more PROVE e \in Errands
      <4>1. op \in {"create", "edit"}
        BY <2>3, <3>3
      <4> HIDE DEF op
      <4> QED
        BY <2>4, <3>3, <4>1, NewErrand
    <3> QED
      BY <3>2, <3>3
  <2>8. FormFits'
    BY <2>1, <2>3, <2>4 DEF FormFits
  <2>9. OnProfile
    BY <2>4, SentinelAssumption DEF OnProfile
  <2> HIDE DEF e, op
  <2> QED
    BY <1>0, <2>1, <2>5, <2>6, <2>7, <2>8, <2>9, SentDesk
<1>6. ASSUME UNCHANGED <<db, user, page, mine, errands>>, FormFits'
      PROVE  DeskInv'
  BY <1>1, <1>6 DEF DeskInv, ListFits, ErrandFits
<1>7. CASE CancelForm \/ \E kind \in {"create", "edit"} : OpenForm(kind)
  <2>1. UNCHANGED <<db, user, page, mine, errands>>
    BY <1>7 DEF CancelForm, OpenForm, session
  <2>2. FormFits'
    BY <1>7, <2>1 DEF CancelForm, OpenForm, OnProfile, FormFits
  <2> QED
    BY <1>6, <2>1, <2>2
<1>8. CASE toggleWish \/ \E w \in Wishes : TypeWish(w)
  <2>1. form \in Forms /\ form # NoForm
    BY <1>0, <1>8 DEF WishTypes, toggleWish, TypeWish
  <2>2. form'.kind = form.kind /\ UNCHANGED <<db, user, page, mine, errands>>
    BY <1>8, <2>1 DEF toggleWish, TypeWish, Forms, session
  <2>3. FormFits'
    BY <2>1, <2>2 DEF DeskInv, FormFits
  <2> QED
    BY <1>6, <2>2, <2>3
<1> QED
  BY <1>2, <1>3, <1>4, <1>5, <1>7, <1>8

\* A wish more or less makes no list disappear, and the first one makes a list
\* for its owner only.
LEMMA ListsMove ==
  ASSUME db \in Tables, NEW a, NEW w \in Wishes, NEW n \in Names, db[n] # NoRecord
  PROVE  /\ addWish(a, w)[n].wishes = NoList => db[n].wishes = NoList
         /\ removeWish(a, w)[n].wishes = NoList => db[n].wishes = NoList
<1> DEFINE more == (IF db[n].wishes = NoList THEN {} ELSE db[n].wishes) \cup {w}
           less == db[n].wishes \ {w}
<1>1. db[n] \in Records /\ db[n].wishes \in (SUBSET Wishes) \cup {NoList}
  BY DEF Tables, Records
<1>2. more \in SUBSET Wishes /\ (db[n].wishes # NoList => less \in SUBSET Wishes)
  BY <1>1
<1>3. /\ addWish(a, w)[n] = IF n \in KeysOf(a) THEN [db[n] EXCEPT !.wishes = more] ELSE db[n]
      /\ removeWish(a, w)[n] = IF n \in KeysOf(a) /\ db[n].wishes # NoList
                               THEN [db[n] EXCEPT !.wishes = less] ELSE db[n]
  BY Zenon DEF addWish, removeWish
<1> HIDE DEF more, less
<1>4. \A S : [db[n] EXCEPT !.wishes = S].wishes = S
  BY <1>1 DEF Records
<1>5. more # NoList /\ (db[n].wishes # NoList => less # NoList)
  BY <1>2, SentinelAssumption
<1> QED
  BY <1>3, <1>4, <1>5

\* The calls about wishes and items, as far as the table goes.
LEMMA ErrandLists ==
  ASSUME db \in Tables, BuiltInListed, NEW a, NEW w \in Wishes,
         db' \in {db, addWish(a, w), removeWish(a, w)}
  PROVE  BuiltInListed'
<1> SUFFICES ASSUME NEW n \in Names, db'[n] # NoRecord, db'[n].id \in BuiltIn
             PROVE  db'[n].wishes # NoList
  BY DEF BuiltInListed
<1>1. SameAccounts(db')
  <2>1. SameAccounts(db)
    BY DEF SameAccounts
  <2> QED
    BY <2>1, WishesMove
<1>2. db[n] # NoRecord /\ db[n].id \in BuiltIn
  BY <1>1 DEF SameAccounts
<1>3. db[n].wishes # NoList
  BY <1>2 DEF BuiltInListed
<1> QED
  BY <1>2, <1>3, ListsMove

\* What the page is told about its user is the table's array, or that there is none.
LEMMA ReadFits ==
  ASSUME mine' = getUserWishes(user, db'), user' = user
  PROVE  mine' \in {Own, Nobodys} /\ (mine'.linked \/ Unlisted(user)')
<1>1. CASE \E n \in Names : db'[n] # NoRecord /\ db'[n].id = user /\ db'[n].wishes # NoList
  BY <1>1 DEF getUserWishes, Own
<1>2. CASE ~ \E n \in Names : db'[n] # NoRecord /\ db'[n].id = user /\ db'[n].wishes # NoList
  BY <1>2 DEF getUserWishes, Unlisted
<1> QED
  BY <1>1, <1>2

\* A call about wishes comes back.
LEMMA WishesDesk ==
  ASSUME db \in Tables, errands \in Seq(Errands), DeskInv,
         NEW k \in DOMAIN errands, FinishWishes(k)
  PROVE  DeskInv'
<1> DEFINE e == errands[k]
<1>1. e \in Errands /\ e \in Range(errands) /\ ErrandFits(e)
  BY DEF DeskInv, Range
<1>2. /\ e.op \in {"get", "add", "remove"} /\ errands' = RemoveAt(errands, k)
      /\ db' = CASE e.op = "get"    -> db
                 [] e.op = "add"    -> addWish(e.id, e.wish)
                 [] e.op = "remove" -> removeWish(e.id, e.wish)
      /\ mine' = IF e.seen THEN getUserWishes(e.id, db') ELSE mine
      /\ UNCHANGED <<user, page, form>>
  BY DEF FinishWishes, session
<1>3. e.op # "get" => e.wish \in Wishes
  BY <1>1, <1>2 DEF Errands
<1>4. Range(errands') \subseteq Range(errands) /\ Range(errands) \subseteq Range(errands') \cup {e}
  BY <1>2, RemoveAtRange
<1> HIDE DEF e
<1>5. BuiltInListed'
  <2>1. CASE e.op = "get"
    BY <1>2, <2>1 DEF DeskInv, BuiltInListed
  <2>2. CASE e.op # "get"
    <3>1. db' \in {db, addWish(e.id, e.wish), removeWish(e.id, e.wish)}
      BY <1>2
    <3> QED
      BY <1>3, <2>2, <3>1, ErrandLists DEF DeskInv
  <2> QED
    BY <2>1, <2>2
<1>6. \A x \in Range(errands') : ErrandFits(x)'
  BY <1>2, <1>4 DEF DeskInv, ErrandFits
<1>7. FormFits'
  BY <1>2 DEF DeskInv, FormFits
<1>8. ListFits'
  <2>1. CASE e.seen
    BY <1>1, <1>2, <2>1, ReadFits DEF ErrandFits, ListFits
  <2>2. CASE ~ e.seen
    <3>1. mine' = mine
      BY <1>2, <2>2
    <3>2. page = "profile" => e.op = "get" /\ db' = db
      BY <1>1, <1>2, <2>2 DEF ErrandFits
    <3>3. \A x \in Range(errands) : Rereads(x) => x \in Range(errands')
      BY <1>4, <2>2 DEF Rereads
    <3>4. page = "profile" /\ Unlisted(user) => Unlisted(user)'
      BY <1>2, <3>2 DEF Unlisted
    <3> QED
      BY <1>2, <3>1, <3>3, <3>4 DEF DeskInv, ListFits
  <2> QED
    BY <2>1, <2>2
<1> QED
  BY <1>2, <1>5, <1>6, <1>7, <1>8 DEF DeskInv

\* A form's wish is added and the item goes on.  The page of a user with items
\* shows the table's array already; a creation reads the wishes again.
LEMMA FirstHalfDesk ==
  ASSUME db \in Tables, errands \in Seq(Errands), DeskInv,
         NEW k \in DOMAIN errands, FinishFirstHalf(k)
  PROVE  DeskInv'
<1> DEFINE e == errands[k]
           f == [e EXCEPT !.op = IF @ = "addThenCreate" THEN "create" ELSE "edit"]
<1>1. e \in Errands /\ e \in Range(errands) /\ ErrandFits(e)
  BY DEF DeskInv, Range
<1>2. /\ e.op \in {"addThenCreate", "addThenEdit"} /\ db' = addWish(e.id, e.wish)
      /\ errands' = [errands EXCEPT ![k] = f]
      /\ UNCHANGED <<user, page, form, mine>>
  BY DEF FinishFirstHalf, session
<1>3. e.wish \in Wishes
  BY <1>1, <1>2 DEF Errands
<1>4. /\ f \in Errands /\ f.seen = e.seen /\ f.id = e.id
      /\ f.op = IF e.op = "addThenCreate" THEN "create" ELSE "edit"
  BY <1>1, <1>2 DEF Errands
<1> HIDE DEF f
<1>5. /\ Range(errands') \subseteq Range(errands) \cup {f} /\ f \in Range(errands')
      /\ Range(errands) \subseteq Range(errands') \cup {e}
  BY <1>2, <1>4, TurnedRange
<1> HIDE DEF e
<1>6. BuiltInListed'
  BY <1>2, <1>3, ErrandLists DEF DeskInv
<1>7. \A x \in Range(errands') : ErrandFits(x)'
  <2>1. ASSUME NEW x, x = f PROVE ErrandFits(x)'
    BY <1>1, <1>2, <1>4, <2>1 DEF ErrandFits
  <2> QED
    BY <1>2, <1>5, <2>1 DEF DeskInv, ErrandFits
<1>8. FormFits'
  BY <1>2 DEF DeskInv, FormFits
<1>9. ListFits'
  <2> SUFFICES ASSUME page = "profile", ~ mine.linked
               PROVE  Unlisted(user)' \/ \E x \in Range(errands') : Rereads(x)
    BY <1>2 DEF DeskInv, ListFits, Rereads
  <2>1. e.seen /\ e.id = user
    BY <1>1, <1>2 DEF ErrandFits
  <2>2. CASE e.op = "addThenCreate"
    <3>1. Rereads(f)
      BY <1>4, <2>1, <2>2 DEF Rereads
    <3> QED
      BY <1>5, <3>1
  <2>3. CASE e.op = "addThenEdit"
    <3>1. user \in BuiltIn
      BY <1>1, <2>1, <2>3 DEF ErrandFits
    <3>2. ASSUME NEW x \in Range(errands), Rereads(x)
          PROVE  x \in Range(errands')
      BY <1>5, <2>3, <3>2 DEF Rereads
    <3>3. ASSUME Unlisted(user) PROVE Unlisted(user)'
      <4>1. \A n \in Names : db[n] # NoRecord => db[n].id # user
        BY <3>1, <3>3 DEF DeskInv, BuiltInListed, Unlisted
      <4>2. SameAccounts(db')
        BY <1>2, <1>3, WishesMove
      <4> QED
        BY <1>2, <4>1, <4>2 DEF Unlisted, SameAccounts
    <3> QED
      BY <3>2, <3>3 DEF DeskInv, ListFits
  <2> QED
    BY <1>2, <2>2, <2>3
<1> QED
  BY <1>2, <1>6, <1>7, <1>8, <1>9 DEF DeskInv

\* An item is created or edited.
LEMMA PostDesk ==
  ASSUME errands \in Seq(Errands), DeskInv,
         NEW k \in DOMAIN errands, FinishPost(k)
  PROVE  DeskInv'
<1> DEFINE e == errands[k]
           f == Errand("get", e.id, NoWish)
<1>1. e \in Errands /\ e \in Range(errands) /\ ErrandFits(e)
  BY DEF DeskInv, Range
<1>2. /\ e.op \in {"create", "edit"}
      /\ form' = IF e.seen /\ form # NoForm /\ form.kind = e.op THEN NoForm ELSE form
      /\ errands' = IF e.op = "create" /\ e.seen
                    THEN [errands EXCEPT ![k] = f] ELSE RemoveAt(errands, k)
      /\ UNCHANGED <<db, user, page, mine>>
  BY DEF FinishPost, session
<1>3. f.seen /\ f.id = e.id /\ f.op = "get" /\ f \in Errands
  <2>1. e.id \in Accounts
    BY <1>1 DEF Errands
  <2>2. f \in Errands
    BY <2>1, NewErrand
  <2> QED
    BY <2>2 DEF Errand
<1> HIDE DEF f
<1>4. /\ Range(errands') \subseteq Range(errands) \cup {f}
      /\ Range(errands) \subseteq Range(errands') \cup {e}
      /\ e.op = "create" /\ e.seen => f \in Range(errands')
      /\ ~ (e.op = "create" /\ e.seen) => Range(errands') \subseteq Range(errands)
  BY <1>2, <1>3, TurnedRange, RemoveAtRange
<1> HIDE DEF e
<1>5. \A x \in Range(errands') : ErrandFits(x)'
  <2>1. ASSUME NEW x, x = f, e.seen PROVE ErrandFits(x)'
    BY <1>1, <1>2, <1>3, <2>1 DEF ErrandFits
  <2> QED
    BY <1>2, <1>4, <2>1 DEF DeskInv, ErrandFits
<1>6. FormFits'
  BY <1>2 DEF DeskInv, FormFits
<1>7. ListFits'
  <2>1. ASSUME NEW x \in Range(errands), Rereads(x)
        PROVE  \E y \in Range(errands') : Rereads(y)
    <3>1. CASE x \in Range(errands')
      BY <2>1, <3>1
    <3>2. CASE x = e
      BY <1>2, <1>3, <1>4, <2>1, <3>2 DEF Rereads
    <3> QED
      BY <1>4, <3>1, <3>2
  <2>2. Unlisted(user) => Unlisted(user)'
    BY <1>2 DEF Unlisted
  <2> QED
    BY <1>2, <2>1, <2>2 DEF DeskInv, ListFits, Rereads
<1>8. BuiltInListed'
  BY <1>2 DEF DeskInv, BuiltInListed
<1> QED
  BY <1>2, <1>5, <1>6, <1>7, <1>8 DEF DeskInv

\* A call of AuthStore is sent or answered: whoever logs in leaves, a new account
\* is nobody's of the built-in table, and saved settings only move a record.
LEMMA CallDesk ==
  ASSUME SessionInv, DeskInv, NEW k \in DOMAIN calls,
         FinishLogin(k) \/ FinishRegister(k) \/ FinishSave(k)
  PROVE  DeskInv'
<1>0. SessionTypes /\ WishTypes /\ OneCall /\ db \in Tables
  BY TypeParts DEF SessionInv
<1>1. ASSUME UNCHANGED db PROVE BuiltInListed' /\ \A a : Unlisted(a) => Unlisted(a)'
  BY <1>1 DEF DeskInv, BuiltInListed, Unlisted
<1>2. CASE Refused
  BY <1>1, <1>2, SameDesk DEF Refused, session, wishVars
<1>3. CASE FinishLogin(k)
  <2>1. Refused \/ (LeaveFor("elsewhere") /\ UNCHANGED db)
    BY <1>3 DEF FinishLogin, Enter
  <2> QED
    BY <1>0, <1>1, <1>2, <2>1, LeftDesk
<1>4. CASE FinishRegister(k) /\ ~ Refused
  <2>1. PICK a \in Accounts \ (BuiltIn \cup registered) :
          /\ db' = [db EXCEPT ![calls[k].name] = [id |-> a, wishes |-> NoList]]
          /\ LeaveFor("elsewhere")
    BY <1>4 DEF FinishRegister, Enter
  <2>2. \A n \in Names : db'[n] = db[n] \/ db'[n].id = a
    BY <1>0, <2>1 DEF Tables
  <2>3. BuiltInListed'
    BY <2>2 DEF DeskInv, BuiltInListed
  <2> QED
    BY <1>0, <2>1, <2>3, LeftDesk
<1>5. CASE FinishSave(k) /\ ~ Refused
  <2> DEFINE c == calls[k]
             keys == {n \in KeysOf(c.id) : changeAllowed(c, n)}
  <2>1. PICK n \in keys :
          /\ db' = [[db EXCEPT ![n] = NoRecord] EXCEPT
                      ![IF c.name = Blank THEN n ELSE c.name] = db[n]]
          /\ user' = c.id /\ UNCHANGED <<page, wishVars>>
    BY <1>5 DEF FinishSave
  <2>2. n \in Names
    BY DEF KeysOf
  <2>3. user \in {NoUser, c.id}
    BY <1>0, <1>5, Answered DEF FinishSave
  <2> HIDE DEF c, keys
  <2>4. \A m \in Names : db'[m] = NoRecord \/ \E j \in Names : db'[m] = db[j]
    BY <1>0, <2>1, <2>2 DEF Tables
  <2>5. BuiltInListed'
    <3> SUFFICES ASSUME NEW m \in Names, db'[m] # NoRecord, db'[m].id \in BuiltIn
                 PROVE  db'[m].wishes # NoList
      BY DEF BuiltInListed
    <3>1. PICK j \in Names : db'[m] = db[j]
      BY <2>4
    <3> QED
      BY <3>1 DEF DeskInv, BuiltInListed
  <2>6. ASSUME NEW a, Unlisted(a) PROVE Unlisted(a)'
    <3> SUFFICES ASSUME NEW m \in Names, db'[m] # NoRecord, db'[m].id = a
                 PROVE  db'[m].wishes = NoList
      BY DEF Unlisted
    <3>1. PICK j \in Names : db'[m] = db[j]
      BY <2>4
    <3> QED
      BY <2>6, <3>1 DEF Unlisted
  <2>7. UNCHANGED <<page, mine, form, errands>> /\ (user' = user \/ user = NoUser)
    BY <2>1, <2>3 DEF wishVars
  <2> QED
    BY <2>5, <2>6, <2>7, SameDesk
<1> QED
  BY <1>2, <1>3, <1>4, <1>5

\* Whoever the table is built with has a list of wishes.
LEMMA BuiltInLists ==
  ASSUME NEW n \in Names, mockUsersDb[n] # NoRecord
  PROVE  mockUsersDb[n].wishes # NoList
<1> DEFINE a == CHOOSE b \in BuiltIn : BuiltInName[b] = n
<1>1. \E b \in BuiltIn : BuiltInName[b] = n
  BY DEF mockUsersDb
<1>2. mockUsersDb[n] = [id |-> a, wishes |-> BuiltInWishes[a]]
  BY <1>1 DEF mockUsersDb
<1>3. a \in BuiltIn
  BY <1>1
<1> HIDE DEF a
<1> QED
  BY <1>2, <1>3, BuiltInAssumption, SentinelAssumption

\* The page is loaded anew: on the profile it reads the wishes of the user again.
LEMMA ReloadDesk ==
  ASSUME Reload
  PROVE  DeskInv'
<1>1. db' = mockUsersDb /\ mine' = Nobodys /\ form' = NoForm
  BY DEF Reload
<1>2. BuiltInListed'
  BY <1>1, BuiltInLists DEF BuiltInListed
<1>3. CASE page' = "profile"
  <2> DEFINE e == Errand("get", user', NoWish)
  <2>1. user' # NoUser /\ errands' = <<e>>
    BY <1>3 DEF Reload
  <2>2. e.op = "get" /\ e.seen /\ e.id = user'
    BY DEF Errand
  <2> HIDE DEF e
  <2>3. Range(errands') = {e}
    BY <2>1 DEF Range
  <2>4. \A x \in Range(errands') : ErrandFits(x)'
    BY <1>3, <2>2, <2>3 DEF ErrandFits
  <2>5. ListFits'
    BY <1>1, <2>2, <2>3 DEF ListFits, Rereads
  <2> QED
    BY <1>1, <1>2, <2>1, <2>4, <2>5 DEF DeskInv, FormFits
<1>4. CASE page' # "profile"
  <2>1. errands' = <<>>
    BY <1>4 DEF Reload
  <2>2. Range(errands') = {}
    BY <2>1 DEF Range
  <2> QED
    BY <1>1, <1>2, <1>4, <2>2 DEF DeskInv, FormFits, ListFits
<1> QED
  BY <1>3, <1>4

LEMMA DeskStep ==
  ASSUME SessionInv, DeskInv, NobodyHurriesBack, [Next]_vars
  PROVE  DeskInv'
<1>0. TypeOK /\ WishTypes /\ db \in Tables /\ errands \in Seq(Errands)
  BY TypeParts DEF SessionInv, WishTypes
<1>1. ASSUME UNCHANGED db PROVE BuiltInListed' /\ \A a : Unlisted(a) => Unlisted(a)'
  BY <1>1 DEF DeskInv, BuiltInListed, Unlisted
<1>2. CASE \/ LeaveProfile \/ OpenProfile \/ toggleWish \/ SubmitForm \/ CancelForm
           \/ \E w \in Wishes : SubmitAddWish(w) \/ SubmitRemoveWish(w) \/ TypeWish(w)
           \/ \E kind \in {"create", "edit"} : OpenForm(kind)
  BY <1>0, <1>2, PageDesk
<1>3. CASE FinishErrand
  BY <1>0, <1>3, WishesDesk, FirstHalfDesk, PostDesk DEF FinishErrand
<1>4. CASE FinishCall
  BY <1>4, CallDesk DEF FinishCall
<1>5. CASE Logout
  BY <1>0, <1>1, <1>5, LeftDesk DEF Logout
<1>6. CASE Reload
  BY <1>6, ReloadDesk
<1>7. ASSUME UNCHANGED <<db, user, page, mine, form, errands>>
      PROVE  DeskInv'
  BY <1>1, <1>7, SameDesk
<1>8. CASE \/ \E n \in Names : SubmitRegister(n) \/ \E right \in BOOLEAN : SubmitLogin(n, right)
           \/ \E n \in Names \cup {Blank}, right \in BOOLEAN : SubmitSave(n, right)
           \/ UNCHANGED vars
  BY <1>7, <1>8 DEF SubmitRegister, SubmitLogin, SubmitSave, session, wishVars, vars
<1> QED
  BY <1>2, <1>3, <1>4, <1>5, <1>6, <1>8 DEF Next

\* Only a user who opens the profile comes back to it: a reload or an answer does not.
LEMMA OnlyQuickReturns == ASSUME ~QuickReturn PROVE Spec => [][NobodyHurriesBack]_vars
<1> DEFINE Elsewhere == page' = page \/ page' = "elsewhere"
<1>1. ASSUME NEW k, FinishLogin(k) \/ FinishRegister(k) \/ FinishSave(k) PROVE Elsewhere
  <2>1. CASE FinishSave(k)
    BY <2>1 DEF FinishSave, Refused
  <2>2. CASE FinishLogin(k)
    BY <2>2 DEF FinishLogin, Enter, LeaveFor, Refused
  <2>3. CASE FinishRegister(k)
    BY <2>3 DEF FinishRegister, Enter, LeaveFor, Refused
  <2> QED
    BY <1>1, <2>1, <2>2, <2>3
<1>2. ASSUME NEW k, FinishWishes(k) \/ FinishFirstHalf(k) \/ FinishPost(k) PROVE Elsewhere
  BY <1>2 DEF FinishWishes, FinishFirstHalf, FinishPost
<1>3. ASSUME LeaveProfile \/ Logout \/ Reload PROVE Elsewhere
  BY <1>3 DEF LeaveProfile, LeaveFor, Logout, Reload
<1>4. ASSUME \/ \E n \in Names : SubmitRegister(n) \/ \E right \in BOOLEAN : SubmitLogin(n, right)
             \/ \E n \in Names \cup {Blank}, right \in BOOLEAN : SubmitSave(n, right)
      PROVE  Elsewhere
  BY <1>4 DEF SubmitRegister, SubmitLogin, SubmitSave
<1>5. ASSUME \/ \E w \in Wishes : SubmitAddWish(w) \/ SubmitRemoveWish(w) \/ TypeWish(w)
             \/ \E kind \in {"create", "edit"} : OpenForm(kind)
             \/ toggleWish \/ SubmitForm \/ CancelForm
      PROVE  Elsewhere
  BY <1>5 DEF SubmitAddWish, SubmitRemoveWish, TypeWish, OpenForm, toggleWish, SubmitForm, CancelForm
<1>6. Elsewhere => NobodyHurriesBack
  BY DEF NobodyHurriesBack
<1>7. OpenProfile => NobodyHurriesBack
  BY DEF OpenProfile, NobodyHurriesBack
<1> HIDE DEF Elsewhere
<1>8. Next => NobodyHurriesBack
  BY <1>1, <1>2, <1>3, <1>4, <1>5, <1>6, <1>7 DEF Next, FinishCall, FinishErrand
<1> QED
  BY <1>8, PTL DEF Spec

\* With nothing in flight the profile page lists the wishes the table has: it shows
\* the table's own array, or there is none, whatever was added or saved meanwhile
\* and whoever asked for it and left, in every execution in which nobody comes back
\* to the profile within the 200 ms a wish takes (which the page does not prevent).
THEOREM WishesAreShown == Spec /\ [][NobodyHurriesBack]_vars => []WishesShown
<1>1. Init => DeskInv
  <2> SUFFICES ASSUME Init PROVE DeskInv
    OBVIOUS
  <2>1. /\ db = mockUsersDb /\ page = "elsewhere" /\ mine = Nobodys /\ form = NoForm
        /\ errands = <<>>
    BY DEF Init
  <2>2. BuiltInListed
    BY <2>1, BuiltInLists DEF BuiltInListed
  <2>3. Range(errands) = {}
    BY <2>1 DEF Range
  <2> QED
    BY <2>1, <2>2, <2>3 DEF DeskInv, FormFits, ListFits
<1>2. [NobodyHurriesBack]_vars => NobodyHurriesBack
  BY DEF vars, NobodyHurriesBack
<1>3. SessionInv /\ DeskInv /\ [Next]_vars /\ [NobodyHurriesBack]_vars => DeskInv'
  BY DeskStep, <1>2
<1> QED
  BY <1>1, <1>3, DeskShows, SessionInvariant, PTL DEF Spec
=============================================================================
