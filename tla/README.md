# avitohvk: exchange chains, verified

The program is a barter site. A user who wants a thing starts a *chain deal* whose root is that
thing and offers one of his own; others join with offers of theirs until somebody offers the root;
the participants approve in turn; when all have approved every item changes hands. The server is
Go over PostgreSQL, every HTTP request a goroutine of its own, several of them on one deal at the
same time. Nothing but the rows of the database, one advisory lock per deal and the locks of
PostgreSQL stands between two requests.

The web client (TypeScript, React, MobX) is not connected to that server: it has its own deals,
items and users, in stores and in mocked APIs that answer after a timer, with localStorage for what
survives a reload. So there are two systems that promise the same thing in different ways, and the
modules here say of each what it achieves, and what not.

## 1. Inventory

| part | state | operations | talks to |
|---|---|---|---|
| deals and proposals (`service/proposal`, `repository/proposal`, `repository/deal`) | `chain_deals` (root, creator, status, deadline), `chain_deal_transactions` joined with `transactions` (one proposal per deal and participant: item, recipient, status), `items.is_locked`, `items.locked_by_deal_id` | create a deal, join it, edit a proposal, approve, withdraw; expiry by whoever comes next | items, wishes (to find the recipient), chown repository (to hand over), advisory lock |
| chown (`service/chown`, `repository/chown`) | `wish_items`, `items.holder_id` | find a chain to join or start one; ensure a wish; hand an item over | deals service, called back by its approval |
| advisory lock and pool (`repository/deal` `LockDeal`, `pgxpool`) | the connections in use, the queue for one, the owner and queue of each deal's lock | lock, run a statement, release; cancellation of the caller | every handler |
| wishes (`service/wish`, `repository/wish`) | `wishes`, `wish_items` | create, edit, delete (deletion takes the links with it) | read by `resolveRecipient` |
| items (`service/item`, `repository/item`) | `items` | create, edit, delete by the author unless locked | shared rows with deals |
| accounts (`service/user`, `repository/user`, JWT middleware) | `users`, the token cookie | register, login, logout, edit, delete | gives every request its user |
| transport (`transport/*`) | none | decode, call, map errors | all services |
| search (`service/search`) | none | full-text query | items |
| server lifecycle (`internal/server`, `cmd`) | the listener, the timers | start, stop on signal, error or timeout | all requests in flight |
| schema (`migrations`) | keys, foreign keys, checks | | all repositories |
| browser: deals and items (`web/src/app/providers/DealStore.ts`, `ItemStore.ts`, `web/src/entities/item/api/itemApi.ts`) | the chains on the page, the holder and the lock of each item, the API's own catalogue, both keys of localStorage, the calls that wait for their timer | offer (open a deal or join one), confirm, cancel, reset; create, edit, delete an item; reload | each other; the exchange, item and profile pages and `DealCard` |
| browser: accounts (`web/src/app/hooks/stores/AuthStore.ts`, `web/src/shared/api/authApi.ts`) | the session and its copy in localStorage, the table of users with their wishes | log in, register, change the profile, log out; wishes, also from the item forms | profile page, auth form |
| browser: pages and widgets | what is open or typed | | stores |

What is hard, and what makes each part correct:

* **Rivals.** An item may be offered in many open deals. The first to approve it locks it and
  cancels the others, with their proposals and their locks; closing a chain does the same for all
  its items. Correct: a locked item has one claimant, an accepted proposal keeps its lock, whoever
  offers an item still holds it.
* **Check, then act.** `Approve` is six or more transactions (accept, lock the chain, check,
  confirm, list, move each item, complete) under the advisory lock of *its own* deal; the cascades
  of other deals do not take that lock, nor does the PATCH of a proposal. Correct: items move only
  as agreed, statuses never go back.
* **Failure half-way.** The handlers run under the request's context, the cascades of a withdrawal
  and of an expiry are several statements, nothing resumes them. Correct: what is left over never
  endangers another deal.
* **Stale reads.** `chown` searches before it locks; `EnsureWish` reads before it inserts;
  recipients are fixed when the offer is made and wishes change later.
* **Late answers (browser).** `createDeal` reads the deals and the target's holder 500 ms after the
  click, with another user logged in, the item deleted or the deal cancelled since; `createItem`
  and `updateItem` write a whole catalogue, that of page load. Correct: a late offer never reopens
  a deal or forgets one, nobody counts as having agreed to a swap he did not see, an item of an
  active deal is locked.
* **Two copies (browser).** The page, the API's catalogue and localStorage hold the same items, a
  reload rebuilds the page from the last. Correct: a reload loses nothing and a session always has
  its own user's token.
* **Waiting.** Two connections per locking handler, one lock per deal, PostgreSQL's row locks and
  its deadlock detection with a bounded retry.

The file `PROJECT.json` lists these one by one, at their lines, under `hazards`.

## 2. Modules

| module | what it is |
|---|---|
| `ChainDeals` | the tables of the exchange and every request on them |
| `MCChainDeals` | four small worlds for TLC: a ring of three, the same with a spare item, a pair, the pair with a spare item |
| `Barter` | what the service promises of its deals, without proposals, locks and requests |
| `ChainDeals_proofs`, `ChainSafety_proofs` | theorems about `ChainDeals`: types and claims; the invariant of the handlers and what follows from it |
| `Barter_proofs` | that `ChainDeals` implements `Barter` |
| `ConnPool` | the connection pool with the advisory locks taken through it |
| `MCConnPool` | symmetry for TLC |
| `ConnPool_proofs` | theorems about `ConnPool` |
| `BrowserDeals` | the client's deals and items: DealStore, ItemStore, itemApi and the buttons that call them |
| `MCBrowserDeals` | two small catalogues: two users with an item each and one to be created; three users with an item each |
| `DealBook` | what the client's deals promise, without chains, timers and storage |
| `BrowserDeals_proofs`, `DealBook_proofs` | theorems about `BrowserDeals`, the second that it implements `DealBook` |
| `BrowserAccount` | the client's session, table of users and wishes: AuthStore, authApi and the forms |
| `MCBrowserAccount` | the built-in user and her wish |
| `BrowserAccount_proofs` | theorems about `BrowserAccount`: the session, the table of users, the list of wishes |
| `RemovalLemmas` | what removing a call from the sequence of waiting ones leaves; used by the proofs of the browser and of the pool |

The two systems share no module because they share no state: nothing in `web` calls the server.
Within each, `ChainDeals` abstracts from connections and `ConnPool` from what the statements do;
`BrowserDeals` needs of the accounts only who is logged in.

### ChainDeals

State. `holder`, `lock`, `wishes` are the columns of `items` and the rows of `wish_items` in the
order of `wishes.created_at`. `lock[x]` is `NoDeal` (not locked), a deal, or `BareLock`:
`is_locked` with a NULL `locked_by_deal_id`, which rows locked before migration 013 still have.
`dstatus`, `root`, `creator`, `deadline` are `chain_deals`; a deadline is `null`, `future` or
`past`. `pstatus`, `pitem`, `pto` are the proposals, a deal having at most one per participant
(migration 009). `mutex` is the advisory lock. `pc`, `job`, `todo` are the handlers' local state.

Granularity. One action is one transaction, or one statement executed outside a transaction, as
the Go code commits them; anything may happen between two actions of a request. A read at the
start of a handler is put together with the lock it follows: under the advisory lock nobody else
writes what it reads, except the cascades of rivals, and what these may change is checked again by
the next transaction or (the deal's status) deliberately not, as in the code.

| action | code |
|---|---|
| `CreateDeal`, then `Propose` | `Service.CreateDeal`: `deals.Create`, then `proposals.Create` |
| `CreateProposal`, then `Propose` | `Service.CreateProposal` |
| `Chown`, `JoinFound` or `CreateForClaim`, `Propose`, `EnsureWish`, `LinkWish` | `chown.Service.Chown` |
| `Approve`, `Accept`, `TryLockChain`, `CheckAllAccepted`, `Confirm`, `ListTransfers`, `CompleteTransfer`*, `Complete` | `Service.Approve` |
| `Withdraw`, `Retract`, `Cancel`, `DeclineAll`, `UnlockAllForDeal` | `Service.WithdrawProposal` |
| `Cancel`, `DeclineAll`, `UnlockAllForDeal` after any entry | `Service.ensureDealOpen` on an expired deal |
| `ProposeRejected`, `AcceptRejected` | the refusals of `proposals.Create` and `SetStatus` |
| `Patch`, `DeleteWish`, `PassDeadline` | `UpdateProposal`; wish deletion; time |
| `Abort` | the caller hangs up, a statement fails, the deadlock retries run out, the process dies |

`Respond` is the deferred release of the advisory lock. `LockOutcomes` is a choice the database
makes: `lockOfferedItem` updates one row twice in one statement when a rival had it locked, and
PostgreSQL documents that only one of the two updates takes place. The model has the statement as it is
written; the case never arises, for by `ExclusiveClaim` an item that a rival has locked is in no other
open deal whose offer could be approved.

Left out: quantities, titles, the length of the negotiation window, the rows of cancelled
transactions. Users offer an item they hold when they call; whether they still hold it is for the
code to find out.

### Barter

A deal is opened, agrees on moves (an item, who gives it, who gets it), makes them one by one and is
closed, or is dropped. `Agree` demands that every item is with its giver, that each giver and item
occurs once and that no other deal waits for one of them; it does not say how that is achieved.
`ChainDeals` implements it (`KeepsBargains`) under `status <- dstatus` and `due <- Due`: the transfers
of the accepted participants of a confirmed deal whose item the deal still has locked.
`CreateDeal` and `CreateForClaim` are `Open`, `Confirm` is `Agree`, `CompleteTransfer` is `Move`, `Complete` is
`Close`; a deal cancelled by its participants, by its deadline or by the cascades of `Accept` and
`TryLockChain` is `Drop` (of several deals at once in a cascade); every other step changes nothing there.
What is not obvious is that the handler's moves are those of the confirmation, which it lists in a
transaction of its own, and that it completes the deal only when all have been made.

### ConnPool

One pool of `MaxConns` connections with its FIFO queue, the queue of sessions at each advisory
lock, and handlers that take one connection for the lock and, for each statement, a second one
(`ArriveLocking` ... `Return`), or only the one (`ArrivePlain`). A caller may hang up anywhere
(`HangUpBeforeLock`, `HangUpInside`): the pending wait or statement fails and the deferred release
still runs, because it has a context without cancellation. What the statements do is left to
`ChainDeals`; a statement that waits for a row lock is one that takes long.

### BrowserDeals

State. `user` is `authStore.user`. `deals` is `dealStore.deals`, a deal being its status, its
initiator and its chain of links (who, agreed or not, what he gives, what he receives). `shop` is
`itemStore.items` and `mock` is itemApi's `initialMockItems`: two catalogues, for the store makes
observable copies of what it takes over. A catalogue is the holder of each item (`Gone` if it is not
in it) and the set of locked ones. `storedDeals` and `storedItems` are the two keys of localStorage,
`autosave` says that DealStore's reaction waits for its 100 ms, `pending` are the calls that wait for
their timer, `created` the ids given out.

Granularity. A handler runs uninterrupted up to an `await`, so a call of the mocked API is two
actions, the click (`Submit...`) and what runs when the timer fires (`Finish...`), and every other
handler may come between. Offers wait equally long and complete in order; `createItem` and
`updateItem` may have waited 200 ms before that, so what was submitted later may overtake them (`Due`).

| action | code |
|---|---|
| `SubmitDirect`, `SubmitChain` | `ExchangeActionBtn` and the two modals up to `createDeal`'s await |
| `FinishOffer` = `JoinDeal` or `OpenDeal` | the rest of `DealStore.createDeal`: the link behind the first pending deal that mentions an item of the offer, or a deal of its own |
| `Confirm`, `Cancel` | `confirmDeal`, `cancelDeal` behind `DealCard`'s conditions |
| `SubmitCreate`, `FinishCreate`; `SubmitEdit`, `FinishEdit` | the item forms, `itemApi.createItem`, `updateItem`, then ItemStore's listener |
| `Delete`, `Reset` | `ProfilePage.handleDeleteItem`, `resetAllDeals` |
| `Login`, `Logout` | who `authStore.user` is |
| `AutoSave`, `Reload` | the delayed reaction; `loadFromStorage` of everything, with the pending calls lost |

`LetGo` deserves a word: a pending offer holds the target's *object*. While the store keeps it, the
late part reads the holder of then; once the store drops it (deletion, or the catalogue taken over)
the holder stays as it was. `Live` marks the first case.

Abstractions. One page in one tab, one user at a time. Texts, pictures and dates are left out: which
of the two modals opens depends on titles and wishes, so both may. `Login` is the answer of a login or, after
a logout, of `changeProfile`: it asks neither who is logged in by now nor what else waits for its
timer, and `MaxLate` bounds only how many calls do (the proofs are for any bound). `Delete` has no timer in
the code.

### DealBook

A deal promises items. Pending, it may gain some; agreed, exactly its items are locked; alive, an
item it promises may be with somebody else than its author; dropped, its items go back.
`BrowserDeals` implements it under `BookOf` (chains become sets of items given away), `Shown`, the
page's locks and `Away`, as long as no item is created or edited and one item is offered at a time:

* an item created or edited publishes the locks of page load (run `EditDropsLocks`);
* with several items selected, the CHAIN modal hands all of them over (`DealStore.ts:194`) while only
  the first is recorded in the chain, so a cancellation gives back that one only.

### BrowserAccount

State. `db` is `mockUsersDb`, the name being the key; it starts anew with each page load, `registered`
remembers the ids that `register` gave out (they are times). `user`, `token`, `loading` are AuthStore,
`storedUser`, `storedToken` its keys in localStorage. `calls` are the calls AuthStore awaits, `errands`
the other ones in flight, each with whether the page that asked is still mounted. `page`, `mine`,
`form` are the profile page, its list of wishes and the open item form.

| action | code |
|---|---|
| `SubmitLogin`, `SubmitRegister`, `SubmitSave` with `FinishLogin`, `FinishRegister`, `FinishSave` | `AuthForm`, `handleSaveSettings`; `AuthStore.login`, `register`, `changeProfile` over `authApi` |
| `Logout`, `Reload` | `Layout.handleLogout`; `restoreSession` |
| `OpenProfile`, `LeaveProfile` | mounting and unmounting of `ProfilePage` |
| `SubmitAddWish`, `SubmitRemoveWish`, `FinishWishes` | the wishes on the profile page, `getUserWishes`, `addWish`, `removeWish` |
| `OpenForm`, `TypeWish`, `toggleWish`, `SubmitForm`, `CancelForm`, `FinishFirstHalf`, `FinishPost` | `CreateItemForm`, `EditItemForm`: what is still in the wish field is added first, then the item is saved, then `onSuccess` |

`getUserWishes` returns the table's own array, to which `addWish` pushes: `mine` is therefore either
that array (`Own`) or one of nobody's. A token is the account it was issued to; a stored null token
comes back as the text "null" (`NullText`), which `restoreSession` takes for a token.

Abstractions. Passwords are right or wrong, names are compared in lower case. Wishes picked from the
list in a form, and the items themselves, are left out; only the built-in users have items to edit.
`QuickReturn` says whether users also come back to the profile within the 200 ms a wish takes to be added
or removed. Nothing in the page prevents it, and `WishesShown` fails then: the page opened again is handed
the record's array after 100 ms, `removeWish` replaces that array, and the page goes on showing what was
removed. `Account` has `QuickReturn = FALSE`.

## 3. Runs

`tlc -config X.cfg M`, where `M` is the `MC` module of the part.

| run | question | distinct states |
|---|---|---|
| `Exchange` | two deals over three items, two concurrent requests: chains opened and joined through chown, approvals, withdrawals, deadlines, wishes deleted | 4.3 M |
| `Faults` | two deals over four items that may be confirmed at the same time, edits of open offers, and one request cut off at any step: safety again, joining by id and the order of approvals (`ChainOrder`), and the refinement of `Barter` | 2.9 M |
| `Progress` | liveness of the handlers, two users | 174 k |
| `PoolRoomy` | fewer requests than connections: queues, accounts, exclusion, no deadlock, answers | 4 792 |
| `Pages` | two users and everything the pages offer, two calls in flight | 3.3 M |
| `QuietDeals` | three users, offers, confirmations, cancellations and reloads: locks, holders, consent, and the refinement of `DealBook` | 2.6 M |
| `Account` | a built-in and a new account, a call and two errands in flight | 1.1 M |
| `LateEditTakesItems`, `OpenOnCancelled`, `PoolFull`, `EditDropsLocks`, `OneConfirmsForAll` | a sentence of the README, of a comment or of a test that the code does not keep | counterexample |

### The server

The safety properties are stated and explained in `ChainDeals.tla`:
`ExclusiveClaim`, `OneClaimPerItem`, `AcceptedIsLocked`, `OffererHolds`, `ChainOrder`,
`FinishedHoldsNothing`, `TransfersPossible`, of steps `TransferOnlyAgreed`, `StatusLifecycle`, and the
refinement `KeepsBargains`. They hold where they are listed; where they are not they may fail:

* with edits of closed chains (`LatePatch`) `AcceptedIsLocked`, `OffererHolds`,
  `TransferOnlyAgreed`, `StatusLifecycle`, `FinishedHoldsNothing` and `KeepsBargains` fail: an edit after
  `TryLockChain` brings in an item that the chain has not locked, and when it takes the root out, a rival
  over the same root can cancel the deal under its handler's hands (section 4); when
  the middle participant has the spare item, the item he gave up stays locked by the completed deal
  for ever. `Faults` assumes that clients do not edit after the root has been offered
  (`LatePatch = FALSE`); the server does not enforce it.
* with faults `FinishedHoldsNothing` fails: a withdrawal cut off after it cancelled the deal
  (`service.go:231`) leaves its items locked by the cancelled deal, and nothing unlocks them.
* in the same way an approval cut off between `CONFIRMED` and `COMPLETED` (`service.go:306`) leaves
  some items moved and some not, and no request resumes it. No sentence of the repository says what
  should happen, so no run asks. `TransferOnlyAgreed` and `StatusLifecycle` still hold then, and so does
  `TransfersPossible`: whatever is left to transfer stays with its giver and nobody else's, so a
  request that resumed the deal could finish it.
* `Patch` starts no deadline when the edit is what brings the root into the chain
  (`repository/proposal/postgres.go:143`): such a chain never expires.
* the recipient of the root is whoever wished for it first; when somebody else wished before the
  creator the root goes there (README.md:144 expects the creator).

Bounds, and why they are enough. Two deals are what a rivalry needs; the cascades treat each rival
alike. Two requests: one inside a deal and one outside, or two on rival deals; the second request
starts anew after every step of the first, so any sequence of complete calls interleaves with a
running one. Three users make a chain whose middle is neither creator nor holder of the root, with a
choice of recipient. `RootItems` are the roots clients ask for; with
four items and two roots both deals of `Faults` can be confirmed with items still to move. `Faults`
leaves out chown, deleted wishes and the deadline, which `Exchange` has: the cascade of an expired deal is
that of a withdrawal, entered from elsewhere. `Exchange` leaves out joining by id: through chown alone the
recipient of a middle participant never joins its chains, so the order of approvals is asked of `Faults`, where
users join by id. `MaxFaults = 1` covers every place
one handler can stop, followed by any calls. Handlers may be idle for ever and all deals be over,
so deadlock is not checked in `MCChainDeals`. Requests and deals are interchangeable and symmetric
in the safety runs; no symmetry is used with liveness.

### The browser

`Pages` has all operations at once and `MaxPending = 2`, so two calls overlap each other and whatever
is clicked meanwhile; one deal of up to three links is enough for the properties it checks, which
speak of one deal and the catalogue (`ReloadLosesNothing`, `LocksSetWithDeals`, `DealsMoveForward`).
`MaxLate = 0` in the two passing runs (with 1, `Pages` has 11 M states and the same properties hold; every property of
both runs is a theorem for any `MaxLate`): there a user changes under a pending call only by logging out, which
on the exchange pages makes him `DefaultUser`.
`QuietDeals` has two deals and three users: an offer may join the first, the second or neither, at any
link, ask a participant anew and hand over an item another deal has; it leaves out what creates,
edits, deletes or resets, the first two because `LocksFollowDeals` and `KeepsTheBook` do not survive
them, the others to keep the state space small (the proofs cover them). `MaxSelect = 1` for the
reason given under `DealBook`. `Account` has two accounts, so that a call of one returns in the session
of the other, two names, so that a name can be taken, and one wish; `MaxErrands = 2` lets a form's
call overlap the page's own.

An offer, once clicked, may be lost in a reload; that is what the code does, and no property forbids
it. `ReloadLosesNothing` is about what has completed.

### Fairness

`WF(Step(r))`: a goroutine whose statement can run gets to run it. `SF(JoinFound(r))`:
PostgreSQL queues the waiters of an advisory lock in order, so one that waits is served although
others take the lock in between. No fairness on calls: nobody has to approve, and no deal has to be
finished by anybody. In `ConnPool` the queues are explicit and weak fairness is enough. In
`BrowserAccount` timers fire (`WF(FinishCall)`, `WF(FinishErrand)`), which the browser guarantees as
long as the page lives; a reload drops the call and the flag with it. `BrowserDeals` has no liveness
property: whether an offer finds its deal open is not up to the code.

Every property has a mutant, an operator next to the definition it replaces (`TransfersSwapped`,
`CheckHolderOnly`, `FreedAll`, ...), that makes TLC find a violation under the same configuration.

## 4. What the violations say

* `LateEditTakesItems` (`AgreedByAll`): the participant who gives the root of a closed chain changes its
  proposal, still PENDING, to another item. The root is then in no proposal of the deal and its approvals do not
  lock it. A rival over the same root closes its own chain; its `TryLockChain` cancels this deal by
  `root_item_id`, between the last approval's check and its confirmation, and `UpdateStatus` overwrites
  CANCELLED: the items move in a deal whose proposals are DECLINED.
* `OpenOnCancelled`: a deal cancelled between its creation and its first proposal.
* `PoolFull`: as many locking requests as connections, each waits for its second one.
* `EditDropsLocks` (`LocksFollowDeals`): after a deal is confirmed, editing an item saves and publishes
  the catalogue of page load, in which nothing is locked: the item of an active deal is free on the
  page, may be asked for in another exchange and deleted, until the next change of a deal sets the locks
  again. (Its holder cannot give it: the modals ask `isItemReserved`, which looks at the deals.)
* `OneConfirmsForAll` (`EveryoneConfirmsOwnPart`): an offer joined a chain and its next participant
  was asked anew; the last one confirms, and all links count as accepted.

## 5. Proofs

`tlapm` on each `..._proofs` module and on `RemovalLemmas`. The proofs use the named assumptions of
the modules only: the sentinels are not ids, no set of wishes is `NoList`, the initial tables are well
typed, the pool has at least one connection and finitely many requests, the catalogue is finite and its
order strict, a created item has the author of the first one (which is what `createItem` does).

The server, for any users, items, deals, requests, calls and faults, edits of closed chains included:

* `TypeCorrect`: `Spec => []TypeOK`. The invariant is inductive because it holds, beside the
  types, that every proposal has its deal, item and recipient (`RowsFilled`) and every handler the
  arguments of its next step (`JobsFilled`); one lemma per action.
* `LockedItemHasOneClaimant`: `Spec => []ExclusiveClaim`, inductive together with `TypeOK`. An item
  enters a proposal (`Propose`, `Patch`) only when no deal has it locked and leaves unlocked; it is
  locked (`Accept`, `TryLockChain`) only in a step that cancels every other open deal that has it.
  It needs neither the advisory lock nor that requests finish.
* `ItemPromisedOnce`: `Spec => []OneClaimPerItem`. Only `Accept` makes a promise, and it cancels
  the other open deals that have the item.
* `ApprovalFollowsChain`: `Spec => []ChainOrder`. `isApprovalAllowed` reads in the transaction that writes, and
  nobody takes an approval back while the deal is open; what it needs beyond the types is that the
  proposals of an open deal are not declined (`DeclinesClosed`).

The server in every execution in which no offer of a closed chain is edited, for any number of faults
(`ChainSafety_proofs`, `Barter_proofs`). The hypothesis is the action property `ClosedChainsUnedited`, and `H` below
stands for `Spec /\ [][ClosedChainsUnedited]_vars`. It speaks of what clients do in an execution, not of the
constants: the model may allow late edits, the theorems say what holds as long as nobody makes one. The server does
not enforce it; what fails without it is listed in section 3 (of `TransfersPossible` TLC has no
counterexample, but its proof rests on the others). `OnlyLatePatches` proves that it is about `UpdateProposal`
alone: with `~LatePatch` every execution satisfies it, so the theorems cover the runs.

* `StaysSafe`: `H => []Safe`, the invariant on which the rest stands. `DealSafe(d)` says what an open deal
  keeps: what was accepted is locked by it and what is offered is still its author's. `Sound(r)` says what a
  handler relies on at each of its steps, that it has the advisory lock among it: between `CheckAllAccepted` and
  `Confirm` the deal is still open although the status is written without a condition, because all its items
  are locked by then and a cascade drops a deal only for an item that the deal has not locked; between
  `ListTransfers` and `Complete` what is still to be moved is locked and with its giver. `Apart` is for the deal
  a request has just inserted, which no other request has in hand. A step is looked at twice: what it does
  to the deal its handler works on, and that it leaves every other deal `Untouched` or `Dropped` (`Foreign`),
  which keeps that deal safe and the handler on it sound. TLC checked `Safe` on both runs before the proof.
* `AcceptedStaysLocked`, `OffererStaysHolder`, `TransfersAgreed`, `StatusNeverBack`: the invariants and action
  properties of the runs, each a consequence of `Safe`.
* `StaysTidy`: `H => []AllTidy`. A deal has locked nothing but what its accepted offers or its closed chain
  need (`Pledged`), and what is still on the list of transfers covers what is still locked (`Delivered`). What it
  says of cancelled deals it says for `MaxFaults = 0`: a request may be cut off between `Cancel` and
  `UnlockAllForDeal`.
* `FinishedReleasesAll`: `H => []FinishedHoldsNothing`, for that reason with `MaxFaults = 0`.
* `ServiceKeepsBargains`: `H => KeepsBargains`, with `TransfersStayPossible`: `H => []TransfersPossible`.
  The guard of `Agree` comes from `Sound` and `DealSafe` at `Confirm`, that of `Close` from `Delivered`; that a transfer makes one
  move that was due, and takes none from another deal, needs that no two moves have the same item.

The pool, for any number of requests and connections:

* `ConnectionsAccounted`: the connections out of the pool are exactly those of the handlers' steps
  and never more than `MaxConns`.
* `RoomyPoolNeverWedges`: with `MaxConns > Cardinality(Requests)` somebody can always go on: if all
  connections were taken and all their owners only waited, they would hold one each. `PoolFull`
  shows the bound is sharp.
* `NobodyQueuedInVain`: `Spec => []QueuesHoldWaiters`, one lemma for the pool's queue (`NextPoolQueue`) and one
  for the queue of a deal's lock (`NextLockQueue`): joining adds one who was not there (`AppendOnce`), being
  served takes the first (`TailOnce`), hanging up and releasing takes one out of the middle and keeps the
  others once each (`OthersOnce`).
* `DealLockExcludes`: `Spec => []DealLockExclusive`. Inductive with the types, the accounts
  and `HoldersFirst`: a handler past the lock is the first at its deal until it releases it, for those
  who come join at the end and those who hang up leave the others in their order.

The browser's deals, for any users, items, operations and bounds (`BrowserDeals_proofs`):

* `TypeCorrect`, inductive as `TypeInv`, which adds to `TypeOK` that locked items are on the page
  (`LocksShown`); the harder conjunct is that an offer in flight still finds its target.
* `StorageMirrorsPage`: `Spec => []ReloadLosesNothing`. Every handler ends in `Save`; the interest is
  in the two that do not (`Reset` removes the keys, `Publish` saves the API's catalogue).
* `StatusesAgree`, `ChangesSetLocks`, `DealsNeverGoBack`, `NobodySwappedUnasked`: the statuses of deals
  and links agree, every change of a deal sets the locks, deals move forward across late answers and
  reloads (here `ReloadLosesNothing` is what the step `Reload` needs), and `createDeal` asks anew
  whom it makes receive something else. `AppendedLink` says what a joined chain consists of.

The refinement (`DealBook_proofs`), under `Quiet` (neither "create" nor "edit" in `Ops`) and, for the
second, `Single` (`MaxSelect <= 1`):

* `LocksFollow`: `Spec => []LocksFollowDeals`, inductive as `QuietInv`, which adds that only offers are
  in flight (`OnlyOffers`), and that nothing but built-in items is on the page, nothing saved that is
  not, and no lock saved without the deals (`NothingHidden`): without the last a reload could bring
  back a lock that no deal accounts for.
* `ClientKeepsTheBook`: `Spec => KeepsTheBook`. Initial states map to `BookInit`; a handler to `Open`,
  `Grow`, `Agree`, `Drop`, `Wipe`, `Withdraw`; a reload to `Restock` (deleted built-in items come back) or
  to nothing; clicks, logins and the delayed save to nothing.
* `AwayIsPromised`: `Spec => []AwayMeansPromised`, from the refinement: no step of `DealBook` leaves an item
  away that no deal alive promises (`PromisesKept`).

The accounts (`BrowserAccount_proofs`), for any accounts, names, wishes and bounds:

* `AccountTypes`, `TokensMatchUsers`, `SessionsAreStored`, inductive together as `SessionInv`. What
  carries them is that AuthStore has at most one call in flight (`OneCall`: the buttons wait for
  `isLoading`), and a save in flight is of the user there is, or nobody is there; that nobody has no
  token (`NobodysToken`); and that an open form has a user (`FormHasUser`).
* `NoAccountLost`: `Spec => []AccountsKept`; a new name is taken only when it is free.
* `WishesAreShown`: `Spec /\ [][NobodyHurriesBack]_vars => []WishesShown`, in every execution in which nobody
  opens the profile while a wish is being added or removed (`OnlyQuickReturns`: all of them with
  `~QuickReturn`); inductive with the above as `DeskInv`: the page shows the
  table's own array, or the table has none for the user (`Unlisted`), or a call in flight is going to read
  it again (`ListFits`). What carries it is that the calls the page waits for are its user's and the others
  write no wish while a page is open (`ErrandFits`, `FormFits`), the one exception being the edit form, which
  only built-in accounts have, and these have a list (`BuiltInListed`). TLC checked `DeskInv` on `Account` first.

Only model-checked: the liveness properties (`ConfirmedCompletes`, `CancelledReleases`, `JoinGetsLock`,
`Answered`, `ButtonsComeBack`), which are out of the prover's reach. Every invariant, action property and
refinement of the passing runs is a theorem.

## 6. Not modelled, and what is left

Transactions of the server are atomic here. Under READ COMMITTED each statement has its own snapshot,
rows are locked one after the other and two cascades may deadlock; that would be a refinement of its
own (`RowLocks`: two cascades at statement granularity, row locks, detection, the retry of
`retryOnDeadlock` and its limit). Not modelled of the server either: items and accounts (single checked
writes and JWT), the schema beyond the tables of the exchange, search, transport, configuration, start
and shutdown.

Of the browser: the filters and searches of the home page, the read-only page of another user, layout
and visual components, `client.ts`, the second set of stores that nothing mounts (`RootStore`,
`StoreProvider`, `MyDealsTab`), the calls of `itemApi` that nobody makes, error texts. Several tabs share
localStorage without listening to each other; the last to save wins. A page that stays mounted while a
late `onSuccess` closes the form opened since (`ProfilePage.tsx:58`) is modelled in `FinishPost` but no
property says what it should do.

What would add most next: `RowLocks`; `ConnPool` shown to grant the advisory lock the way `mutex` does in
`ChainDeals`, which today is only argued; and the hazards that `PROJECT.json` lists without a property: an item
edited while a deal locks it, a wish ensured twice, two tabs, a late `onSuccess`.
