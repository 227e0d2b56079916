# Verification of the government budget control system

The program (`src/`) keeps the budget of a government body: appropriations by
entity and item, their release and transfer, purchase requests, orders,
payments, approvals, year end.  It is a FastAPI service over PostgreSQL
(`src/backend`) with a React front end (`src/frontend`).  The front end enforces
nothing, but its pages decide which requests are sent, from what they fetched
earlier.  These modules model the core of both in TLA+: TLC checks them on small
instances, and TLAPS proves what matters most for every instance.

## The system

Every request runs in one database transaction.  One that writes calls
`begin_write` (`core/db.py`), which takes a single advisory lock before it reads
anything that it will decide upon, so write transactions run one after another.
What remains concurrent, and what these modules are about, is everything that
lies *between* two requests: a document is drafted, validated against what was
true then, waits for approvals while other documents, rights and settings
change, and is posted later.  Two things are read before the lock: the
principal of the request (`core/deps.py`) and, in some routers, an object
fetched to check a right.

| Component | State | Operations | Talks to |
|---|---|---|---|
| Budget engine `ledger/engine.py`, triggers of `alembic/` | `ledger_entries` (append-only), `budget_balances` (kept by a trigger), `budget_lines`, `override_grants` | `post`, `reversal_specs`, `check_amount`, grants' router | called by every document service; reads year and periods |
| Fiscal years `fiscal/service.py` | status, control basis, `count_reservations`, 13 periods | create, open, settings, close and reopen a period | read by the engine |
| Budget documents, authorizations, transfers | drafts, statuses | create, update, `build_posting`, `post` | workflow, engine |
| Commitments, expenditures, adjustments | documents, a commitment's commercial state | draft, `_validate`, `build_posting`, `refresh_status`, `_check_reversible` | workflow, engine, one another |
| Workflow `workflow/` | instance, round, current step, actions, delegations, steps and their bands | submit, approve, reject, return, cancel, delegate, `update_step` | calls the document's poster at the last step |
| Year end `fiscal/closing.py` | the year, its commitments, the next year's | preview, `close_year` | engine (both years), commitments |
| Sessions `auth/`, `users/` | users, sessions and refresh tokens, failed logins, `auth_version` | login, refresh, logout, password, lockout, revocation | every request |
| Tab of a browser `api/client.ts`, `app/` | access token, who is signed in, the refresh under way, the year in the header; the browser's cookie | `api`, `refresh`, `login`, `logout`, `reload`, choice of a year | sessions; every page calls through it |
| Document pages `features/documents/`, `features/approvals/` | the form or document on screen, what it fetched | draft, submit, approve, return, reject, cancel, attach | document services, workflow |
| Import `imports/`, `features/imports/` | batch, rows, decisions; the page of each user | upload, analyze, validate, decide, commit, discard | posts history through the engine |
| Attachments `attachments/` | links of files to documents, their lock | link, unlink, lock at posting | workflow |
| Audit `0001_foundation.py` | hash chain | a trigger on every table | its lock is taken by every write |
| Backup `backup/`, `cli.py` | files, retention, scheduler's memory | run, verify, restore | replaces the database |
| Alerts, numbering, catalogue, reports, AI | their rows | see `PROJECT.json` | |

Where it is hard, and what makes each part correct:

* **Engine.**  Nothing may be spent that is not there, whatever sequence of
  documents, reversals, grants and settings leads to the moment; the balance
  kept by the trigger must be the sum of what is in force; a posting of several
  entries is all or nothing; grants are limited and personal.
* **Procurement.**  Requests, orders, payments, cancellations and reversals of
  one another await approval together, each validated against a state that is
  gone when it is posted.  The state shown for a commitment is a cached column
  that has to agree with the entries.
* **Workflow.**  Requests act on rights loaded before they waited for the lock;
  rights, delegations and bands change while documents are under way; rounds
  follow one another after a return.  Separation of duties, order of the steps
  and the approved amount must survive all of it.
* **Year end.**  One transaction over two years: nothing outstanding may be
  lost, and nothing may be carried that the next year cannot bear.
* **Sessions.**  Refresh tokens are used once, and one that comes back is taken
  for stolen: the tab has to refresh once for many refused calls, whatever order
  their answers come in, and to notice a session that ended elsewhere.
* **Pages.**  What a page shows may have moved on when its button is pressed: a
  step, a list of commitments, the fiscal year, a batch.  Requests are sent twice
  and answers are lost.
* **Imports.**  Double uploads, several preparers at one batch, decisions saved
  after a validation, a commit from a page that is behind.
* **Backup.**  A restart of the scheduler, a restore that stops half way.

`PROJECT.json` lists each hazard at its line, with the properties that watch it.

## The modules

| Module | What it models | Code |
|---|---|---|
| `Position` | a line's seven components, control base, available balance, shortfall | `ledger/engine.py`, class `Position`, `check_amount` |
| `FundsControl` | the abstract promise: each line keeps, spends or overdraws its funds, and what it overdraws is recorded as an exception | (specification) |
| `BudgetControl` | the engine of one year: every kind of posting, the check, grants, reversal, settings, periods | `ledger/engine.py`, `ledger/router.py`, `fiscal/service.py`, balance trigger |
| `Procurement` | documents from draft to posting over the entries they make | `commitments`, `expenditures`, `adjustments` services, deferred trigger of `0006` |
| `Workflow` | approval of one document by several users | `workflow/service.py`, `definitions.py`, `router.py`, `documents/common.py`, `core/deps.py` |
| `YearEnd` | closing a year over the documents of `Procurement`, and the years and months it depends on | `fiscal/closing.py`, `fiscal/service.py` |
| `Sessions` | login and lockout, refresh tokens and access tokens of one user, what administrators do to the account | `auth/service.py`, `auth/router.py`, `users/router.py`, `core/deps.py`, `core/security.py` |
| `Client` | one tab of a browser and the server that answers it; extends `Sessions` | `api/client.ts`, `app/auth.tsx`, `app/Login.tsx`, `main.tsx`, `app/Shell.tsx` |
| `Imports` | the batches of one workbook and the pages they are prepared on | `imports/service.py`, `imports/router.py`, `features/imports/Imports.tsx` |
| `Forms` | the forms that draft documents, the year in the header, lists that arrive late | `features/documents/*.tsx`, `app/year.tsx`, `documents/common.py` and the services' `create_draft` |
| `Desk` | the pages and attachments of a document under approval; composes `Workflow` and `Forms` | `features/documents/common.tsx`, `attachments/service.py`, `workflow/service.py` |
| `MC*` | constants and symmetry for TLC | |
| `FundsControlProofs`, `BudgetControlProofs`, `ProcurementProofs`, `YearEndProofs`, `DeskProofs`, `ClientProofs`, `ImportsProofs` | theorems: `DeskProofs` has those of `Workflow`, `Forms` and `Desk`, `ClientProofs` those of `Sessions` and `Client` | |
| `PositionProofs` | lemmas about sums over finite sets and sequences of entries, which the others share | |

**BudgetControl.**  A posting is the net movement of a document over all lines
and components, which is what `_evaluate` looks at: it sums the deltas of a
document per line before it compares.  The document services appear as the sets
of movements they can ask for (`Transfers`, `Orders`, ...), and all of them go
through `Post`, whose conjuncts are the refusals of `engine.post` and of the
CHECK constraints, in the order of the code.  A refused posting changes nothing
(the transaction rolls back), so it is a disabled action.  `byGrant`,
`byHistory` and `byPolicy` are history variables: they hold for each line the
shortfalls that were let through, and by what.  Dates are abstracted to the
choice of an open period; the length of the ledger is bounded by `MaxPostings`,
amounts by `MaxAmount`, what settings uncover by `MaxUncovered`.

**Procurement.**  Here documents have identities, because the rules are about
which document refers to which.  A document is `PENDING` from draft to final
approval (the states between belong to `Workflow`), `Valid` is the same check
at both ends, as in the code, and `Post` is the whole poster: entries, balance,
status, the reversed document's status and the refresh of the commitments
touched.  Lines have a fixed appropriation, and neither grants nor history.

**Workflow.**  One document, its instance and its log of actions.  Requests may
act with former rights: `formerRights` is what `core/deps.py` may have loaded
before the lock was free.  Delegations are looked up under the lock.  Whether
the posting is affordable belongs to `BudgetControl`: `ApproveAndPost` may
simply not happen.  The steps are the four of an expenditure; the other types
have a subset of them.  What happens to a document after its approval is one
action, `Reverse`: the document that reverses it is posted (it has an approval of its own), and the
status goes from `POSTED` to `REVERSED`, which with `REJECTED` and `CANCELLED` is final; its
instance stays completed.

**YearEnd.**  `Procurement` again, with `Lines` the pairs of a year and an item:
every posting also needs its year open and one of its months.  `CloseYear` is
the whole transaction of `close_year`: the refusals in their order, the release
of what is still reserved or committed, the new commitments of the next year
with their entries, the months and the year closed.  The new documents are
appended to `docs` and linked to the old ones by `carriedTo`
(`carried_from_id`).  An order goes to its own item in the next year, or to the
item `carry_forward_item_id` names (`CarryItem`).  The status `CLOSING` is set and
left in one transaction, so nobody sees it; nothing is posted in period 13, so a
year has only its months.  The order of commitments by date is the order in
which they were drafted.

**Sessions.**  One user, since sessions of different users share nothing, but any
number of sessions of his.  Nothing is assumed of the clients: every refresh
token that was ever issued may come back at any time and in any order, which covers
tabs that refresh at once, lost answers that are asked for again, and stolen
tokens.  A request that needs a principal is admitted first (`Arrive`) and served
later (`Logout`, `ChangePassword`), when it has the write lock; in between the session may
end and the account change.  `tokens` is the table `refresh_tokens`; a family is known
by its first token.  `access` holds the access tokens that have not expired (they are
signed, not stored), and `ended` is a history variable: the families that logout,
reuse, age, deactivation or a new password ended.  Time is a counter that stands
for a quarter of an hour per tick; a request that reads the clock before it has the lock
is treated as reading it when it is served.  Left out: the limiter of logins per
address (`core/ratelimit.py`, a counter in memory), `must_change_password`, the texts of refusals.

**Client.**  The tab that `Sessions` does not know: `call` holds the calls of
`api()` that are under way, each with the access token it was sent with, and `refreshing`
is the variable of that name, shared by all calls that were refused.  The timer that
clears it fires after the answer was handled; a call refused in between gets the same
answer, which is the set `late` of `ReceiveRefresh`.  The cookie is attached when a
request is sent and stored when its answer arrives.  Calls and answers are lost
(`Lose`, `LoseRefresh`), the page is loaded anew (`LoadAnew`), the account is
deactivated or its password reset.  An administrator changes the roles or scopes (`SetRoles`), which raises the
version, more than once, as one save of `Users.tsx` does (roles, then scopes), and activates an account that was
deactivated; nothing of that counts as something lost.  The server's part of a step is the action of
`Sessions`, so that every step of the composition is one of `Sessions` or leaves it
alone.  `alarm` records that the server took a token for stolen, `excused` that
something was lost or that a login, logout or new password crossed a refresh:
then the code does raise the alarm for nothing.  What the bounds refuse is answered as the
code would refuse it, and excused.

**Imports.**  The batches of one workbook in the order of their upload.  Each request is
one transaction under the lock, but a page (`tab`) shows the batch and the status it
fetched, and another user, or a second page, has gone on.  Of the findings there are
those that block, those that ask for acceptance of historical overdrafts and those that
ask for amounts; the catalogue and the year, on which they depend, change meanwhile.
`checked` is a history variable: the decisions that were validated last.

**Forms.**  One user, one form on screen.  `header` is the year chosen in the header,
`loads` the queries of commitments that have no answer yet; answers come in any order and
replace what is offered, while what was chosen stays chosen.  `Makes` is
`create_draft` of the services: the form may go on standing (its answer was lost, or the button was pressed
twice) and be sent again.  A page that leads to a form may be out of date, so that
what it offers goes by the kind of the document alone.

**Desk.**  `Workflow` as it is reached from pages.  `page` is what each user has on screen: the
status and amount that were fetched, the round they are of (history: the page does not show it), and the step
the panel fetched for that status.  The panel caches the step by the status, so `Refresh` fetches it
anew only with another status: the amount may be of this round and the step of the one before.  Each
button is the action of `Workflow` guarded by what the page shows; only approval and
posting send the step along.  Pressing and serving are one step, since a page may wait
as long as a request.  The document that is followed is a draft of `Forms`, and a draft
that is cancelled or rejected ends there too.  `files` are the attachments, `support`
(history) those the document was posted with.

The modules are separate because the code's parts meet at one point, the call
`post`: `Workflow` says when a document is posted, `Procurement` which entries
it makes, `BudgetControl` whether they are let through, and `YearEnd` composes
the second with the years.  `Procurement` checks its movements with the same
operators of `Position` that `BudgetControl` uses.

## The runs

No run checks deadlock: the bounds stop every behaviour, and the program may
rest at any time.

| Run | Shows | Bounds, and why they are enough |
|---|---|---|
| `budget` | every overdraft is accounted for, grants are charged what they covered, allocations stay within appropriations, transfers create no money, a reversed document leaves no trace, and refinement of `FundsControl` | two lines (a transfer needs two), three postings (budget, document, reversal or second overdraft), unit amounts, two users, a grant for one line or any; settings, periods and grants rest once the last posting is made; 560 thousand states up to symmetry |
| `inv05_toggle` | *violation*: INV-05 after reservations begin to count | one line, four postings |
| `procurement` | states follow entries, lines hold what is outstanding, nothing below zero, orders add up, one conversion, never overdrawn | one line, four documents of which two wait at once, amounts up to two: request, order, payment and a cancellation or reversal in any order |
| `reservation_kept` | *violation*: a converted request holds a reservation again | request, cancellation, order, reversal, one at a time |
| `year_end` | a closed year stays empty, orders are carried once and in full, the funding check suffices, lines hold what is outstanding | two years, an order carried to another item, three documents of which one waits at a time, amounts up to two so that part of an order may be paid and the rest carried, one change of a budget or month |
| `months_closed` | *violation*: a year whose last month is closed cannot be closed | two documents, unit amounts, two months and two changes |
| `workflow` | document and instance agree, separation of duties, order of steps, approved amount is posted, what was decided changes only by the reversal of what was posted | four users, two rounds, amounts on both sides of the band; per behaviour either people change (a delegation, a change of rights) or bands do (two changes), which `Together` says |
| `step_left_behind` | *violation*: a document waits at a step that does not apply | one round, one change |
| `sessions` | types, what was ended stays ended, no access by an old session or with old roles, one live token for a session, sessions end on time, guesses are slowed | a lockout of one tick after each failure, doubled once, so that doubling and its cap are reached within five ticks; an access token of one, an idle timeout of two and a session of four ticks, so that each of the three can run out first; three tokens (login, rotation, and another of either), one request waiting, two changes by administrators |
| `client` | no theft alarm without a loss or a crossing, no user is signed out whose session is not over, unless a reload's second `/auth/me` is overtaken by another change of the account (or, which the proof allows and one expiry does not reach, outlasts its token), an ended session is noticed | two calls at a time (one must be able to be refused while the other's refresh is on its way), two refresh tokens (login and rotation), one expiry of an access token, two changes by administrators, one loss, page loaded anew or lost account; a third refresh token (`Spare`) only once roles were changed. `Together` says what meets: roles change while the page is being loaded, where a change can sign its user out, and from then on he only looks at pages; after something was lost or crossed he does that or signs in, which concerns `EndedIsNoticed` alone. 497 thousand states, with liveness |
| `imports` | imported once, as validated last, and for good | two preparers who may both commit what the other uploaded, two uploads, findings that ask for acceptance or for amounts, one change of catalogue or year; 2 million states up to symmetry |
| `desk` | payments pay an order of their line, no second conversion or reversal, attachments of a posted document stay, who takes a step decides on the amount on his screen unless it is of an earlier round | forms: a posted document of each kind on one line, two years and two items, two drafts (a form sent twice), one change of year, paid order or ended draft. Approval: four users with two pages open at once, two rounds and two amounts (it is drafted with the larger and edited once it was returned), one file, and one of these in the first round: a delegation, change of rights or change of bands, or the amount lowered (`Together`); supervision applies to no amount until its band is changed (`SuperviseFrom` is above both), so that a document has three steps, or two or four after a change of bands; 1.5 million states |

The forms of `desk` rest while the document is on its way and only one draft, the payment
of an order, is followed further (`Followed`): the two halves share the drafts, and no
property relates them otherwise.  Symmetry is used over lines, users and preparers where nothing
tells them apart: no property checked under it is a liveness property.

**Fairness.**  Only `Client` states any.  The server answers a call and the tab handles an
answer that has arrived, so `Serve` and `Receive` of every slot, and those of the refresh, are
weakly fair; so is `AskPage`, because the Shell asks for the unread count every minute
(`refetchInterval` in `app/Shell.tsx`; the library pauses it while the tab is in the background, so what is
noticed is noticed once the tab is looked at).  No user is obliged to press anything, no access token
to expire, and what is lost is answered with a failure by the browser.  Everywhere else a
step is the request of a person, and the properties are safety properties.

## Where code and documents disagree

1. `inv05_toggle`: `update_year_settings` lets `count_reservations` be switched
   in an open year.  A line can fall below zero by it, and later postings on it
   are then accepted below zero, without grant or history, as long as they do not
   consume.  INV-05 (`docs/blueprint/03-financial-model.md`) excludes that.  What does
   hold, and is proved, is `OverdraftAccounted`.
2. `reservation_kept`: the partial cancellation of a request may be reversed
   after the request was converted; the reservation returns to a closed request.
3. `step_left_behind`: narrowing a band under a waiting document leaves it at a
   step that no longer applies; `approve` fails there with `StopIteration`.
4. `months_closed`: `close_year` opens the period of adjustments and means to post
   into it, but `period_for_date` returns the last month for the last day of the
   year.  With that month closed, a year with anything outstanding is refused
   with `PERIOD_CLOSED`.

Also seen in the service, and not given a run: a request whose order was reversed holds its
reservation but cannot be converted again (`RequestConvertible` in
`Procurement`); WF-08 speaks of recording a skipped step, and the migration
allows an action `SKIP`, but no code writes one.  And an order of an older year
that is still open cannot be carried once the year after it is closed
(`NEXT_YEAR_REQUIRED`, `NextYearOpen` in `YearEnd`): years have to be closed in
their order, though nothing says so.  The number of a cancelled or rejected authorization
cannot be used again: the check that lets it through leaves the unique constraint to
refuse it (`authorizations/service.py:76`).  A grantee is checked to be an approver before the lock
(`ledger/router.py:199`).  An expected step does not tell rounds apart, and `If-Match`, which
`docs/blueprint/08-architecture-api.md:99` describes, is not asked for: an approver may approve in
a later round an amount he has not seen.

Also seen in the pages: two tabs that refresh at once end each other's session (they share the
cookie but not `refreshing`); a logout whose request is lost signs the tab out and leaves the session; a cancellation
drafted under another year than its commitment's can never be posted; a form pressed twice
makes two drafts; a return or rejection is sent without the step shown, and an approval without the round
(`DecidedAsShown` in `Desk` excludes that case alone); a delegate finds the document in the inbox and
no button on its page (`common.tsx:105`); a request of `/auth/me` that was sent again after a refresh and is then overtaken by a change of
password signs the user out of his new session, and so does a save of his roles and scopes whose two requests fall before and after the
refresh of a page being loaded, out of a session that goes on (`RefusedForGood` in `Client`); the settings of a step save both bounds as they were
when the page was opened; saving a user is three requests, of which the first may succeed alone (`Users.tsx:32`); two preparers
of an import overwrite each other's decisions, a decision edited while another is being saved is dropped, and
what is shown but not saved is not what a commit uses.

## The proofs

Checked by TLAPS with no fact taken on trust, from the assumptions the modules state:
bounds, amounts and times are natural numbers, and null values are no values
(`AmountsAssumption` and `NamesAssumption` of the engine, `ProcurementAssumption`,
`WorkflowAssumption`, which adds that the creator is a user and rights are among the roles,
`SessionsAssumption`, with lifetimes not zero, `FormsAssumption` and `DeskAssumption`, that every source has
a kind and a line); lines and grants are finitely many (`FiniteAssumption`: rows of tables, and sums run over
them); lines are pairs of a year and an item, and there is at least one year (`YearEndAssumption`);
slots are numbered (`ClientAssumption`); who commits an import may prepare one, and no amounts are among the
figures (`ImportsAssumption`).  Users, roles, periods and items may be any sets, finite or not.

* `TypeCorrect`, `OverdraftAlwaysAccounted`, `AllocationStaysWithin`: the
  invariants `TypeOK`, `OverdraftAccounted` and `AllocationWithinAppropriation`
  in every reachable state of `BudgetControl`.
* `EngineControlsFunds`: `BudgetControl` implements `FundsControl` with `funds`
  the available balance and `excused` the sum of the three histories.
* `AbstractOverdraftExcused`: in `FundsControl` no line is overdrawn beyond its
  exceptions.
* `NoMoneyCreated`, `BalanceFollowsDocuments`, `GrantsAddUp`: what `BudgetControl` sums up.  Transfers move
  money and make none, every column of the balance is the sum of the documents in force, and what is charged
  to a grant is what its documents were short of.
* `ProcurementProofs`: `TypesHold`, `StatesFollow`, `LinesHoldOutstanding`, `NothingHeldBelowZero`,
  `OrdersAddUp`, `RequestsConvertOnce` and `LinesNeverOverdrawn`, every property that the run `procurement`
  checks, for any lines, appropriation, number of documents and amounts; `ProcurementInvariant` is the
  invariant they follow from.
* `YearEndProofs`: `YearTypesHold`, `YearsLinesHold`, `ClosedYearsHoldNothing`, `OrdersCarriedInFull` and
  `PreviewsAreEnough`, every property of `year_end`, for any number of years, items and documents;
  from `YearEndInvariant`; and `YearsLinesNeverOverdrawn`, the property `NeverOverdrawn` of the run
  `procurement`, over closings and changes of the budget as well.
* `DeskProofs`, of the workflow: `TypeCorrect`, `DocumentAndInstanceAgree`,
  `DutiesStaySeparate`, `StepsTakenInOrder`, `PostedAsSubmitted` and `FinalForGood`, every
  property that the runs of `Workflow` check and the code keeps, for any number of
  users, rounds, delegations and changes.  What `SeparationOfDuties` says is what the authorisation compares: the
  creator takes no step, nobody takes two steps of a round himself, and nobody two for the same other; that somebody takes one
  himself and a delegate another for him it does not exclude, nor does the code (`workflow/service.py:107`).
* `DeskProofs`, of the pages: `DeskImplementsWorkflow`, so that `DutiesStaySeparateAtDesks`; `SupportStays`,
  `PaymentsPayTheirLine`, `NoSecondUnderWay`, `DecidesOnWhatIsShown`, and the types
  (`FormsTypes`, `DeskTypes`), for any number of users, years, items, sources, drafts and files.
* `ClientProofs`, of the sessions: `EndedForGood`, `OnlyCurrentAdmitted`, `OneTokenLives`, `SessionsEnd` and
  `GuessingTakesTime`, with the types (`SessionsTypes`), for any lifetimes and any number of tokens, waiting requests, changes and guesses.
* `ClientProofs`, of the tab: `ClientImplementsSessions`, a tab and its server are an instance of
  `Sessions`, so its theorems hold with it; `NoAlarmWithoutTheft` and `StaysSignedIn`, for any number of calls.
* `ImportsProofs`: `ImportsTypes`, `Once`, `AsValidated` and `ForGood`, for any number of users,
  uploads and changes.

**Sums.**  Most of what accounts promise is said in sums, over lines, documents or entries.
The library defines a sum by recursion over subsets, and its induction theorems, which take an operator,
cannot be used.  `PositionProofs` goes round that: `LeastFiniteSet` says that among finite
sets some one has none of the others as a proper subset (the library's theorem that strict inclusion is
well-founded), and `FiniteInduction` that a *set* of subsets which has the empty one and goes from a subset to one with
an element more has the whole.  A statement about subsets picks out such a set, so an induction over data is an instance of a lemma without operators.  `SumUnfolds`
shows in this way that the recursive definition of `SumFunctionOnSet` has a solution, and then come the facts the proofs use: one element
more (`SumPutIn`), one term changed (`SumChange`), term by term (`SumAdd`, `SumEqual`), by groups
(`SumByGroup`), under other names (`SumRename`).  The same device serves the one recursive function over numbers (`Doubled`, below).  For the same reason the order of documents is `InOrder`, a
choice of the sorted sequence, and not TLC's `SortSeq`, which has no definition to prove from.

**The engine.**  The inductive invariant is `IInv`: the three invariants and `PlanningIsEmpty`,
that a year still planned has an empty ledger and lines at zero.  The last
conjunct is needed because the control basis, on which `Available` and
the two-level check depend, may change in planning: on empty lines every basis
gives zero.  The argument turns on `ShortfallCovers`, a lemma on the arithmetic of
`check_amount`: a consumption's shortfall is zero exactly when nothing falls
below zero, and is otherwise exactly what falls below zero, or below the
overdraft that was there.  `PostOnLine` lifts it to a line of a posting: the
funds move by the delta, the exceptions grow by the shortfall (a shortfall that
neither a covering grant nor history excuses is refused by `Funded`).  The same
lemma serves the change of settings (`SettingsFunds`), and both serve the
refinement: a line whose funds do not fall keeps its exceptions (`Keep`), one
that falls and stays at or above zero does too (`Spend`), and the rest is
`Overdraw`.  `AllocationWithinAppropriation` is inductive on its own: a
posting that leaves less than nothing unallocated must not have lowered it, so
it was below zero before, and the imported entry that excuses it is still in the
ledger.

`AccountsInv` is about sums, and independent of `IInv`: that the documents' reversals come after what they reverse, once
(`LedgerInOrder`), that a grant not issued yet covers nothing, and the three properties.  A
posting adds a document to those in force, and a reversal takes one out; `SumPutIn` and `SumTakeOut` do the rest.

**Procurement.**  Properties of documents are properties of the entries, and
those are known only through the documents that made them, so `LedgerInv` relates the two.  `EntryStands`
says what an entry stands for: which commitment of its own line, in which column, with which sign, of
a document in the books.  That its document is of the same line is not needed here, but it is what later shows that documents of one year leave
others alone.  `ReversedTogether` (the entries of a document are reversed all or none, exactly when its
status says so) makes the sum of what is in force a sum over documents, and `EnteredOnce`, that a
commitment's amount is in the ledger by exactly one entry, gives `OrderAddsUp` and that
nothing is held below zero.  `ProcInv` adds `ReleasesRequest`: an order of a request has an entry with the request's name,
so reversing the order finds the request and refreshes its state too; without that entry `StateFollowsLedger`
is lost by the reversal.  `ConvertedOnce` stands by itself, because an order that is reversed makes
way for the next.  A step appends entries, and the lemmas say what a list of them does to a
commitment's sums; each poster then shows that its list is of that kind.  `NeverOverdrawn` is not part of the
invariant but goes along with it: `Affordable`, which is checked of every line the entries lower, says that
what is available after the step is not below zero where it was lowered.

**Year end.**  `YearEnd` extends `Procurement`, and `LedgerInv` is the part of its invariant that survives a closing, whose
entries have no document (`ReleasesRequest` does not: a closing carries orders without a request).  A closing enters
one release for each commitment with something outstanding and one opening for each order, in the
order of drafting (`ClosingEntriesAre`, `ClosingDocsAre`), after which nothing of the year holds
anything.  `YearInv` says so of every closed year: `Settled`, with no document of the year still on its way, and `OrdersCarried`,
each order linked to exactly one commitment of the next year that has what was left, or to none if nothing
was.  That it *stays* so is the harder half: `Untouched` is what a step must leave
alone of a year, and every step leaves the closed years untouched because the entries of a document are of its own
line, a line is of one year, posting asks for an open year, and a closing touches only the
year it closes and the next, which it asks to be open.  `ClosingsClosed` is needed for a year that is not closed yet: it has no
entry of a closing and nothing carried, so that what the closing finds of an order is what was paid and cancelled of it.
`PreviewsAreEnough` is a statement about sums under two names: the preview adds up what is carried
to each line, the engine adds up entries.  `ClosingReleases` shows that the releases of a
line take off exactly what it holds, `ClosingCarriesNeeded` that the openings add what the
preview summed, and both are `SumRename` with the place of a commitment in the list as the new name.
`YearsLinesNeverOverdrawn` goes along with `YearInv`: a closing checks `Affordable` of both years like a
posting, and a budget document that lowers a line looks at what would be left.

**The approval.**  The properties speak of the whole record of actions, so they
are inductive for the entries that are already there; for the next entry one
has to know where the present round stands.  `IInv` adds that: no entry is of a
round that has not begun (`RoundsSoFar`), and while the document is under way the
entries of its round are approvals of steps before the one it waits at, budget
control among them once that is behind, and its submission has the amount the
document still has (`RoundStands`).  `ControlComesFirst` is where it matters that
`update_step` leaves the bands of control and posting alone: control applies to
every amount, so no step beyond it can come next before it, whatever the other
bands are.  Two lemmas, `StepKeepsRecord` and `OtherEntryKeepsRecord`, show what a new entry
leaves true of the record, and then each action has a lemma of its own.
Separation of duties needs nothing of rights and delegations: the authorisation
compares with the record under the lock, so stale rights do no harm to it.

**Sessions.**  `IInv` takes the properties together, because they need one another:
a token refused for its age ends its family, and that no other token of the family
is live then is `OneLiveToken`; that a rotated token's expiry is that of the login rests on the
same bound for its predecessor.  `FamiliesOK` adds that a family's name is its first
token, `VersionsTell` that an access token of the present version was issued under the
present roles (every change of roles raises the version, and versions never go back),
and `WaitingOK` that a logout waits for a family there is.  A step is one of three kinds, each with a
lemma: it issues nothing and revokes exactly the families it ends (`EndingStep`), it
begins a session (`BeginningStep`), or it goes on with one (`RotationStep`).
`AdmittedIsCurrent` is then a consequence: a live family is not an ended one.

`GuessingTakesTime` has an invariant of its own, `GuessesInv`: the lockouts but the last are over, and the
last, if it was one, will not be over before the sum of all.  A guess is looked at only when the account is not locked, so
the whole sum is behind it when it sets the next lockout.  How long one lasts is a recursive function, `Doubled`; that it has the
values its definition says (`DoubledIs`) is shown from tables up to a number, which exist and agree
because a least number for which they did not would contradict itself, and that it grows is shown likewise.

**The tab.**  The refinement maps every variable to itself: each step of `ClientNext` contains an action of
`Sessions` or leaves its variables unchanged.  `NoFalseAlarm` needs to know where
every unspent token is.  `FreshOK` says it: the token a refresh was sent with was not exchanged yet, nor was the
cookie unless its successor is on the way in the refresh's answer, nor what logins and new passwords bring, which
is nowhere else yet.  Then the token a refresh shows was never exchanged.  `TabOK` gives the shapes of the tab's variables.  `CInv` is
`TabOK` and, until something is lost or crosses, `FreshOK`; each group of actions has a lemma, most of them by
`FreshStep`, which says that nothing is held that was not before.

`StaysSignedIn` asks the opposite question, why a call is refused.  `StaysInv` follows the access token
that a refresh brought into the calls that are sent again with it: it is current until it
expires, its session is ended or the account's version raised (`Reissued`; `Moves` shows that every step of the sessions keeps
this), so the second refusal has one of these reasons.  A refresh that is refused was sent with a cookie whose session is over, or with none, and
as long as nothing crosses it that cookie is still the tab's (`RefreshOK`); a token that is neither live nor
replaced is of a session that is over by `OneLiveToken`.  The proof corrected the property:
its first form did not know of a call of `reload` that outlasts the token its refresh brought, which takes longer than
the run's one expiry.  That an administrator's second change overtakes such a call the run does show.

**Imports.**  `IInv` adds to the promises that a batch that is validated or imported has the
decisions that were validated (`StandsAsValidated`).  Each request turns one batch (`OneTurns`), so the
promises are shown for that one and kept for the others.

**The desks.**  Each button's action is a conjunction of an action of `Workflow`, and the rest leaves its variables
alone, which gives the refinement.  `FilesInv` (`support` is locked) gives `SupportKept`: unlinking
asks for a file that is linked and not locked.  The forms' invariant `DraftsInv` takes the two properties with the types and
two facts they need: a form is on screen only when a year is chosen, and one derived from a document names it
(`FormStands`); and as long as nothing was ended elsewhere every draft is active, the followed one while the
document is (`DraftsStand`).

`DecidedAsShown` has `PagesInv` besides the invariant of the workflow: a page is of no round to come, and one of the
present round has the document's amount while the document is under way.  It is kept because that amount does not
change until another round begins (`AmountOfTheRound`): nothing edits a document between its submission and its
return.  An entry of the record has the amount the document has (`RecordsTheAmount`), so a return, a rejection or
an approval with a cached step is decided on the amount shown.

Only model-checked: `EndedIsNoticed`, which is liveness.  Every other property of the passing runs is
proved.  The four properties of the runs that expect a
violation are false of the code.

## Not modelled

The parts of `PROJECT.json` with status `not_modelled`, each with its reason:
catalogue, reports, search, the AI assistant and deployment do
not change the state these rules are about; numbering is one upsert; the audit chain is
written under the lock every writer holds; alerts read what others keep; backup and
restore are files and external tools, and their hazards are listed without a property.  Within
modelled parts: texts, notifications and comments; the
scopes of a user's rights (folded into the rights); dates (folded into the choice of
an open period); the advice about similar payments; parsing of workbooks; the fields of
forms but those that name other documents.  Of several tabs of one user only what `Sessions` shows
of any client is modelled; the dashboards, reports and components of the front end show
what the server answers.

## Plan

What could be added, in this order:

1. Several tabs on one cookie, composed of copies of `Client`.
2. `Backup`: the scheduler's memory across restarts, retention, restore.
3. One open alert per cause, with its automatic resolution.
4. Proofs: that `Procurement` implements `FundsControl`, with what is available on a line as its
   funds, so that the engine and the documents keep one abstract promise; an abstract specification of a session (open, ended) that
   `Sessions` implements.
