# Food Ops Platform: a TLA+ model of its operational core

The repository is a multi-tenant operations platform for small food businesses: a FastAPI /
SQLAlchemy / PostgreSQL backend (`backend/app`) and a React frontend (`frontend/src`). Orders ask for
Products; Products are *produced* (from a Recipe Revision, in production runs, with leftovers kept as
Surplus lots) or *purchased* (from an inventory balance). The backend keeps two things in step with
every change: the **requirements** (what has to be produced, which Surplus is promised to whom) and
the **readiness** of every Order (READY means: all of it can be handed over).

That is what the core modules model: the workflows that move Orders, runs and stock, the row locks that
serialize them, and the allocation rules they all share. Around the core: the money these workflows book,
what the reports make of it, and the accounts whose sessions every request needs.

## 1. Inventory

Paths are relative to the repository root. "Hard" is what unit tests of one request seldom reach.

| Component | State | Operations | Interacts with | Hard |
|---|---|---|---|---|
| Order lifecycle (`backend/app/services/order_lifecycle_service.py`) | Order rows (status, date, version), Order lines | confirm, edit of a CONFIRMED Order, cancel, manual custom-item fulfilment | recalculation, readiness, every lock | discovery of the Orders to lock before they are locked; checks made before the Product locks; bounded retry |
| Order completion (`services/order_completion_service.py`, `domain/order_completion.py`) | ledger rows, history | READY to COMPLETED, consumes Surplus and Purchased stock | as above | early and authoritative run check; coverage must be revalidated under the locks |
| Readiness (`services/readiness_service.py`) | `orders.status` | candidate discovery, satisfaction, promotion and demotion | called by every workflow above | who must be evaluated when coverage moves |
| Recalculation (`services/operational_recalculation_service.py`, `domain/surplus_allocation.py`, `domain/demand_aggregation.py`) | requirements, links to Order lines, Surplus allocations, reservations | delete and rebuild everything that no run protects | called by every workflow | what may be rebuilt (runs in production, promises to READY Orders), netting, date conflicts |
| Production runs (`services/production_run_service.py`, `domain/production_output_allocation.py`) | runs, run ingredients, output allocations | start, finish, cancel | locks the run first; Start locks no Order | Start against workflows that look for runs; output shared among Orders |
| Surplus (`services/surplus_service.py`) | lots, transactions | manual creation, reduction (within slack, or reopening promises) | recalculation, readiness | floor of active runs; only the named lot's promises may be reopened |
| Purchased inventory (`services/purchased_inventory_service.py`, `domain/inventory_costing.py`) | balance, weighted cost, transactions | initial balance, restock, adjustment | readiness | the first row appears; cost on a negative balance |
| Recipes (`services/recipe_service.py`) | revisions, current pointer | new revision, with migration of existing demand | recalculation | rewrites links without locking Orders |
| Drafts and pricing (`services/order_service.py`, `domain/order_pricing.py`) | draft Orders, totals | create, edit, delete | Order lock, version | lost updates |
| Payments (`services/payment_service.py`) | payments | record | Order lock | overpayment after edits and payments in any order |
| Versions and tenancy (`core/tenant.py`, `db/mixins.py`, `db/session.py`) | `version` columns | check of the client's version, `version_id_col` at flush | all | objects loaded before a lock stay stale after it |
| Ingredients and availability (`services/ingredient_*.py`, `services/availability_service.py`, `domain/inventory_availability.py`, `domain/ingredient_requirements.py`) | physical quantity, cost, version, reservations | opening balance, restock, adjust, replacement cost, consume | runs, recalculation | balances computed from unlocked reads; cost basis when stock is zero or negative |
| Quantities (`domain/unit_conversion.py`, `recipe_scaling.py`, `production_cost_apportionment.py`, `representability.py`, ...) | none | pure decimal arithmetic | all | largest-remainder apportionment, whole batches, storage widths |
| Authentication and accounts (`services/auth_service.py`, `account_service.py`, `api/deps.py`, `core/security.py`) | users, businesses, sessions, reset tokens | sign up, log in, refresh, log out, change and reset the password, delete the account | all requests | one-time tokens; sessions read before and refreshed after a password change |
| Read models (`dashboard_service.py`, `analytics_*.py`, `shopping_list_service.py`, `requirement_insight_service.py`) | none | queries | read what all others write | reports that group the same Orders differently must agree; cumulative shortages; the past must stand |
| Catalogue (`product_service.py`, `customer_service.py`, `settings_service.py`) | Products, options, customers | versioned updates | Product lock | |
| API, schemas, configuration | none | routing, validation | | |
| Schema (`backend/migrations`, `db/models`) | | constraints, foreign keys, partial unique indexes | | key-share locks of foreign-key checks |
| Frontend (`frontend/src`) | query cache, forms | pages over the API | | cache across tenants |

What makes the core correct:

1. an Order is READY only while all of it is covered, and CONFIRMED only while it is not;
2. what a run in production has claimed (its lines, its Surplus, its date) is left alone until the run ends;
3. requirement links are exactly the live demand;
4. no lot is promised beyond what it holds, and no line is served twice;
5. workflows run concurrently as if one after the other, none waits for ever, none is lost;
6. a balance is the sum of its ledger, a unit cost lies between the prices paid, and every cent of a run is borne once;
7. nobody pays more than is asked without a person's consent, and what was agreed is not repriced by the catalogue;
8. the reports agree with each other and, once their period is over, stay as they are;
9. an e-mail has one owner, a reset token one use, and a session that a password replacement looked for is dead once it is committed.

## 2. The modules

```
FulfillmentData          operators: demand, links, protection, coverage, readiness
   |
Fulfillment   <--------  the promise: every workflow is one atomic step
   |        \---------   FulfillmentProofs: theorems
   |  ^
   |  |  CoverageSpec (refinement)
   |  Production         one produced Product with quantities: the allocator, output, lots
   |
FulfillmentTx            the code's transactions: locks, discovery, checks, retries
      AtomicSpec (refinement): TxSpec implements Fulfillment!Spec
   \---------   FulfillmentTxProofs: the refinement, the lock invariants, and who can wait for whom

Production    Costing       arithmetic of money and goods, no state
   |    \      /
   |     Books              Production with its money; each action is a Production step or leaves it alone
   |       |  \-----   BooksProofs: what is paid, agreed, in stock, and what it costs
   |       |              \-- LedgerProofs: who bears what a run cost, what is missing, what the reports tell (over Reports)
   |       |
   |-- ProductionProofs: the allocators and every property of the quantities
   |      |-- FoldProofs: lemmas about folds and sums over finite sets
   |      \-- CoverageProofs: the quantities implement the coverage bit
           |
        Reports             analytics, shopping list, insight, alerts: functions of the books

Accounts                    users, sessions, reset tokens: stands alone
   \---------   AccountsProofs: theorems
MCFulfillmentTx, MCProduction, MCBooks, MCAccounts     instances for TLC
```

### Fulfillment (with FulfillmentData): what the workflows promise

State: `status`, `lines` (the Products of an Order's lines) and `date` are the Order rows; `link` is
`production_requirement_orders`, keyed by Product and demand date; `runState` and `runKey` are
`production_runs`; `stocked` is the presence of `purchased_product_inventory` rows. `covered` is the
one abstraction that carries weight: the set of lines that output, Surplus or Purchased stock satisfies,
i.e. `completed + active Surplus >= underlying_quantity` or "no shortage". How coverage is computed is
left open (`Coverings` allows any outcome that keeps what must be kept); `Production` fills it in.

One action per workflow: `Confirm`, `Edit`, `EditDraft`, `Cancel`, `CompleteOrder`, `Start`, `EndRun`
(finish and cancel), `AdjustSupply` (Surplus created or reduced, Purchased stock moved), `OpenStock`
(first inventory row) and `Migrate` (recipe revision applied to existing demand). Those that
recalculate end in `Settle`: reject a date conflict, rebuild the links of the Product, redistribute coverage outside
what is protected, evaluate the readiness of *at least* every Order with demand for the Product. `Migrate` recalculates its Product in full too: all of
its coverage but that of runs in production and of READY Orders is handed out again. It evaluates nobody, so a CONFIRMED Order may lose or gain coverage by it and stay as it is.

### FulfillmentTx: how the code does it

Each request is one READ COMMITTED transaction. A step is whatever can be separated from the next by
another transaction: the arrival (with the version the client saw), the lock of a run row, the
non-locking discovery (`Discover`, S0), each Order row of the sorted `SELECT ... FOR UPDATE`
(`LockOrder`), the checks made with Orders locked but Products not (`Check`), each Product row (`LockProduct`),
the second discovery (`Verify`, S1 within S0, else `Retry` up to `_MAX_DISCOVERY_RETRIES`), the foreign-key share locks of
a migration (`ShareOrder`), and the commit, which carries all writes, since nobody sees them before.
Any request may be rejected with everything locked (`RejectWrite`: unacknowledged warnings, a stale row, a
value out of range), and PostgreSQL may abort one transaction of a wait cycle (`DeadlockVictim`).

Two facts about SQLAlchemy are part of the model. A locking SELECT does not refresh an object the session already holds, so Confirm
and the confirmed edit judge the Order by the copy loaded in the preflight (`seen`) and rely on
`version_id_col` at flush (`Fresh`); Cancel and Complete expire their session first. And requirement rows are
deleted and inserted under new ids by each recalculation: `epoch` is the generation that a client
who starts a requirement names.

`given` is `production_run_order_allocations`: lines that have some cannot be deleted (foreign key), and Finish
gives output to the lines of every Order it locked.

Recipe, Ingredient, Surplus and Purchased row locks are taken after the Product lock in every workflow and are left out. Recipe, Surplus and Purchased rows belong to one Product, and whoever takes
them already holds that Product's row, so nobody waits there. An Ingredient may be shared by several Products, so two requests can meet on it; but Ingredients are locked after all Products and in the order of their ids: whoever
holds one and waits, waits for a later Ingredient only, and no circle can close through them.

### Production: quantities

One produced Product, workflows atomic. `qty`, `due`, `completed` belong to an Order's line for it; `lot` and `alloc`
are `surplus_inventory` and `surplus_allocations`; `frozen` the lines linked to a requirement in production; `planned`
is `production_demand_quantity` by date. `Allocated` is the first-expired-first-out allocator, `SharedOut` the
deadline-order allocation of run output, `Kept` the two axes of protection (active runs, READY promises except on the impaired lot), `Netted`
the group netting. Both allocators walk a sorted list in the code; `InTurn` is that walk, as a fold that
chooses the last of a set and serves it after all others. `rest` says whether the other lines of a mixed Order are satisfied.

`CoverageSpec` shows that it implements `Fulfillment`, with the mapping `covered <- {lines with
completed + Surplus >= quantity}` and the rest of an Order as a second, purchased Product.

Left out here: lots marked as not reusable (the allocator does not see them), fulfilment times (a finer deadline order), several
revisions (a requirement is keyed by date alone), whole batches, ingredients and costs. A lot without a usable-through
date behaves like one whose date lies beyond `Horizon`. A manually created lot may carry an earlier `produced_at`; here lots are numbered in that order.

### Costing, Books: money

`Costing` holds the arithmetic of the `domain` package as operators: weighted average, unit conversion with its rounding, whole
batches, labor, the two-stage largest-remainder apportionment (fine units, then cents), the lines of a Selling Option, totals, payment status, cumulative
shortage. Money is in integers: cents, and for unit costs and run totals fine units, `Fine` to a cent (10,000 in the database's NUMERIC columns).

`Books` extends `Production`: the Order's line there is its line of bread, made of flour; an Order in `Mixed` also sells cups (a Purchased good) and a cake (a
custom item). `bill` is what `orders` and `order_lines` charge, `paid` the sum of `payments`, `ledger` is `order_cost_allocations`, `lotCost` the cost columns of Surplus lots, `runCost` the
snapshot of Start, `flour` and `goods` the two kinds of balance. Workflows of `Production` reappear with what the same transaction books: `BookStart` captures
planned cost and its source, `BookFinish` consumes flour, prices it at the captured cost and apportions, `BookComplete` counts the
goods again, writes the rows of all cost types and stamps the day. Others touch money only (`WriteDraft`, `ReviseDraft`, `Reprice`, `Pay`,
`ChangeCatalogue`). Requests about flour are two steps, `BeginStock` and `CommitStock`, because the code computes from an unlocked read and relies on the
row's version; cups are handled under a row lock, payments and edits under the Order's, so each is one step. `acknowledged`, `capitalised`, `moved` and `prices` are
history: what a person confirmed, what runs cost in all, what the ledgers sum up to, which prices were ever entered.

Simplified: quantities of the cups and cake lines are fixed; the line of a confirmed Order is not replaced by another (a draft's is); `RestChange` moves the readiness of an Order's other lines more
freely than the code, which also makes the manual fulfilment of a custom item, and its reset by an edit, a case of it. Flour that is counted before any purchase enters the average at cost 0, as in the code.

### Reports: what the read models say

No state and no actions: the overview with deltas against the previous period, the trend buckets, the product, customer and Order
reports of the analytics service, with the payment columns of the last and what is outstanding; reservations per demand date, the shopping list, the insight of a requirement and the dashboard's alerts. The properties relate
them to each other and to later states. A month has `DaysInMonth` days, days are numbers (`ClosedNow` stamps the business-local day).

`Revenue` recomputes the total from the bill where the code reads the stored `final_total`, which `_apply_order_edit_body` rewrites with every edit and repricing; that the Products report leaves nothing unreconciled is therefore
true by definition here, and the weight of `ReportsAgree` is on the grouping by days, Products, customers and Orders.

Three limits of the code show here. A reservation counts the *recommended* batches even while a run was started with more, so a shortage can be understated
(`PlannedRunIsStocked` says so in its condition). The produced cost of a canceled Order is in no report. And a change of the Business's time zone, not modelled, moves the borders of past periods.

### Accounts: who may ask

A request is what its SELECTs saw (`BeginSignup`, `BeginLogin`, `Authenticate`, `Proceed`, `BeginConfirm`) and its commit; other requests come in between. `BeginConfirm` takes
the token's row lock. `Proceed` commits the session refresh, an UPDATE of `last_seen_at` and `expires_at` alone, which is why it cannot revive a session revoked since.
`Abandon` is any failure before the commit: a crash, a constraint, or the victim of the deadlock between a reset confirmation (token, then user) and an account deletion (user, cascading to tokens).

Replacing a password (`change_password`, `confirm_password_reset`) has one more step between what it read and its commit. `RevokeSessions` is the `UPDATE sessions`: under READ COMMITTED it sees the unrevoked rows committed
until then (`seen`) and no later one. It waits for a row that another transaction holds and then writes it all the same, so the effect of the statement is taken at the commit (`CommitChange`, `CommitConfirm`), and its row locks need no state of their own.
The `users` row is flushed only by that commit, so a login, and a second replacement, may come in between. A replacement is numbered by when its `UPDATE` ran; `begun` counts those that ran, abandoned ones included, `ended` is the latest of the committed ones,
and a session's `born` says after how many it was committed. `NoSessionPredatesRevocation` says what this design keeps: a live session was born after the `UPDATE` of every replacement that stands. What
the documents promise is more, that no session committed before the replacement outlives it, and `login_race` refutes it.

What the code does and the model keeps: a login that verified the *old* password and commits after the `UPDATE` gets a session that lives on, and its rehash, if one is due, writes the old password's hash back, as `users` has
no version column (docs/ARCHITECTURE_ADDENDUM.md:2019).

## 3. What is checked

| Run | Question | Result |
|---|---|---|
| `workflows` | 2 concurrent requests, each any of Confirm, Edit, Cancel, Complete, Start, Finish, Cancel Run, Adjust; 2 Orders, 2 Products (one purchased), 2 dates, 3 attempts | passes |
| `catalog` | 2 requests out of Confirm, Finish, Adjust and the workflows that lock no Order set (draft edit, first stock, migration); 1 attempt | passes |
| `production` | quantities 1..2, 2 Orders, 2 lots, 1 run, 2 days | passes |
| `books` | money over `Production`: 2 Orders (one mixed), 2 lots, 1 run, 2 concurrent stock requests, 6 openings, each with a budget of events | passes |
| `accounts` | 2 requests at a time; 2 users, 2 e-mails, 2 sessions, 1 token, a clock of 1 tick | passes |
| `cancel_race`, `edit_race`, `finish_race`, `first_stock`, `login_race`, `migrate_race`, `netting` | one documented promise each | violated (section 5) |

Properties, and the run that checks each:

- `AtomicSpec` (workflows, catalog): every transaction is, at its commit, one step of `Fulfillment`. This is the
  heart of the project: it fails if the second discovery, the version check or the authoritative run check is missing.
- `OneActiveRunPerRequirement`, `NoCompletionUnderRun`, `NoUnprotectedDemandOnActiveKey`, `LinksMirrorDemand`, `SatisfiedIsReady`
  (workflows): the second to fourth relate runs, links and Order status over several workflows; the
  last is the converse of `ReadyIsCovered` and holds only while nobody opens stock or migrates.
- `EveryRequestAnswered` (workflows): each request that arrives is answered.
- `CandidatesStayLocked`, `NoWaitCycle` (workflows): the discovered set is complete once it is verified, and locks close no circle.
- `TxTypeOK`, `ReadyIsCovered`, `NoLostUpdate` (catalog).
- `LotNotOverpromised`, `NoDoubleCover`, `NeverOverplanned`, `PromisesKept`, `ReductionSparesOtherLots`, `LockedSurplusStays`, `ExpiredNotPromised`,
  `OutputGoesToSoonest`, `CoverageSpec` (production).

- `BalanceIsLedgerSum`, `CostBetweenPrices`, `RunCostConserved`, `CostFollowsGoods` (books): stock and run cost.
  `BooksTypeOK` also says that what is charged matches what is produced and that goods never fall below zero.
- `OverpaymentAcknowledged`, `CatalogueDoesNotLeak` (books): what the customer was told.
- `ReportsAgree`, `PastReportsStand`, `AlertsFollowInsight`, `PlannedRunIsStocked` (books): the five reports over every period reconcile; what those of a past period say of sales stays, and their payment columns change only by a payment, after which nobody owes more;
  insight, shopping list and alert tell one shortage, and buying it ends it.
- `AccountsTypeOK`, `OneOwner`, `TokenUsedOnce`, `StaleWritesRefused`, `NoSessionPredatesRevocation`, `OthersUntouched` (accounts).

Each property is paired in `PROJECT.json` with a fault of the code that breaks it (definitions such as `NeverGrew` or
`KeptNone`, each placed before the definition it would replace).

### Bounds, and why they are enough

- *Two requests* suffice for every race of two transactions; the start state is any consistent database
  (`Init` chooses statuses, coverage, stock and runs freely), which replaces the long histories that earlier requests would need.
  A third request matters only for a set that grows twice or a longer wait cycle; the theorems of section 4 about candidates, wait cycles and atomicity hold for any number of requests.
- *Two Orders, two Products, two dates*: one Order whose demand is touched and one bystander; one Product
  both ask for; the old and the new date of an edit. `MaxAttempts` is the code's 3 except in `catalog` (1), where a set that grew once exhausts it.
- *One run identity* in most runs, two in `workflows`: a second row for the same requirement is what `OneActiveRunPerRequirement` is about.
- *Quantities 1..2, lots 2, outputs {0, 2}*: a partial and a full service, a lot split over two lines, a line split over two
  lots, an empty output and an excess. Lot ids are not reused, so a history has at most two lots (`HasShelf`).
- *Two days*: a lot usable today only, an overdue Order, and a lot that expires while promised.
- *Books*: six openings instead of one, because a history that mixes baking, pricing and stock adds states, not cases: baking (two Orders, a run, two days to complete and report), Surplus
  (an entered lot and a run), prices (drafts, edits, payments, catalogue), late payments (an Order completed from an entered lot and paid after its day), stock (four requests by two clerks, from an empty and never bought flour), and its use (stock requests around a run, which overdraws it). `left` is the budget of each kind.
  Outputs {0, 2, 3} give no output, an exact and an excess one; `Fine` = 4 makes cents round; weights 1 and 2 tie and untie remainders; `Quantities` has what so many packages of either size hold. Periods range over all of `Horizon` = 3 days; `DailyMax` = 1, `WeeklyMax` = 2 reach the three granularities.
  The budgets end, so the run sets `CHECK_DEADLOCK FALSE`.
- *Accounts*: two requests are every pairwise race: two replacements that overlap, a replacement and a login, a refresh or a deletion. All lifetimes are 1 tick: a session refreshed on its last tick must not slide past its absolute
  deadline, and a token expires. `MaxVersion` = 2 allows a password replaced twice and a version that goes stale. The last tick and the last version end behaviours (`CHECK_DEADLOCK FALSE`).
  `login_race` has one User and three sessions: the one the change comes from, the one it opens, and the login's.
- A request does not come back: `Requests` is the number of requests in one behaviour. This is why the runs over `FulfillmentTx`
  and `Production` allow the system to stop (`CHECK_DEADLOCK FALSE`); that nobody waits in a circle is `NoWaitCycle`, not TLC's deadlock check.

### Fairness

`Fairness` is weak fairness of each request's own steps, once it has arrived: a request runs in its own worker thread, and PostgreSQL
hands a released row lock to a waiter. Clients are not obliged to send anything. No strong fairness is assumed: the bounded retry
makes it unnecessary. With one request in `Retry`, others that keep changing the set can exhaust its attempts, and the answer is the code's `..._CONTENTION` error.

## 4. What is proved

Every theorem holds for any number of Orders, Products, dates, runs, lots, requests, users and rows (finite where it says so), not for an instance.
The assumptions are the named `ASSUME`s of the modules, which TLC evaluates in the runs: `DataAssumption`, `PayloadAssumption`, `TxAssumption` (ids, payloads and request kinds have
their types; an edited Order keeps at least one line), `ProductionAssumption` (ids and dates are numbers, Orders and lots are finitely many, a line
asks for something), `BooksAssumption` (prices, packages and amounts are what the request schemas and column checks admit, payments being positive; NULL is no row and no customer),
`ReportsAssumption` (a recipe yields something and takes something of its ingredient, which the schema demands; scales and period lengths are positive),
`AccountsAssumption` (lifetimes are positive, the idle one no longer than the absolute one) and `NoRowAssumption` (NULL is not a row).

### The atomic workflows: FulfillmentProofs

`TypeCorrect`, `ReadyStaysCovered`, `OneRunPerRequirement`, `LinksFollowDemand`, `ActiveKeysAreProtected`, `NoneCompletedUnderRun`.

`TypeOK /\ ReadyIsCovered` is inductive. `SettleReady` is the main lemma: if the workflow evaluates
every live Order with a line of the Products it recalculates, then an Order outside that set has all its lines outside
`Ps`, and `CoveringsKeep` says that coverage there does not move; an Order inside was just judged on the new coverage. What remains per action is
that an Order *not* evaluated was READY before with the same lines: `EditDraft` touches drafts only, `OpenStock` only adds coverage, and
`Migrate`, which evaluates nobody, fixes the pairs of READY Orders. `Start` moves neither status nor coverage.

The last three need each other and one more fact. `LinkInv` joins `LinksMirrorDemand`, `NoUnprotectedDemandOnActiveKey` and
`NoCompletionUnderRun` with *links are lines* (`LinkedAreLines`: an Order linked to a requirement in production is not a draft, and if it is still live it still has
the line). A run that ends may give its date back only because the demand there was linked to it, and a completion is excluded only because a linked Order that is READY has a
line for the run's Product, which is what the check looks for.

### The transactions: FulfillmentTxProofs

`WorkflowsAreAtomic` proves `TxSpec => AtomicSpec`: each step of a request before its commit stutters, and each commit is the
workflow, taken at once. `TxReadyStaysCovered`, `TxOneRunPerRequirement`, `TxLinksFollowDemand`, `TxActiveKeysAreProtected` and `TxNoneCompletedUnderRun`
carry the invariants of `Fulfillment` over; `TxTypeCorrect`, `CandidatesAreHeld` and `NoUpdateIsLost` are about the protocol itself.

The invariant `TxInv` says, request by request, what its place in the protocol entitles it to rely on (`Entitled`): which locks it holds, that
its copy of the Order is the row whenever the row's version is still the one it saw, that what was checked under a lock still holds, and that from
`Verify` on the locked Orders include all the demand for the locked Products. Another request's step keeps it because of a summary of what any step can do (`Effect`):
it changes only Orders it holds and raises their versions, lets demand and links change only for Products it holds, and ends only runs it holds.

`SatisfiedOrdersArePromoted` is the converse of `ReadyIsCovered` under any interleaving, for Orders without a line that may be *passed over* (`PassedOver`): Purchased Products if some request may open stock, Produced ones if some
request may migrate. Neither exception can be dropped. `first_stock` shows the first. The second: a later Order that was READY and lost its
purchased goods to a count keeps its lot; a migration hands the Product's Surplus out again and passes the lot on to a sooner CONFIRMED Order, which is then covered, and which nobody evaluates until something else touches it.
`NobodyWaitsSatisfied` is the theorem for every Order when no request is of those two kinds. `OnlyMigrationsDeadlock` proves that any circle of finitely many waiting requests contains a migration, and
`NobodyDeadlocks` that there is none if no request migrates, which `migrate_race` shows to be needed. The argument: locks are taken runs, Orders, Products and
ascending within each; in a circle everybody waits for somebody who waits for something greater, and a finite set of numbers has a greatest.

### The quantities: FoldProofs, ProductionProofs, CoverageProofs

`QuantitiesTypeCorrect`, `LotsAreNotOverpromised`, `LinesAreServedOnce`, `PlansAreNeeded`, `PromisesAreKept`, `OtherLotsAreSpared`, `LockedSurplusIsLeftAlone`,
`PromisesAreUsable`, `OutputGoesInDeadlineOrder`: every invariant and action property that the run `production` checks; and `QuantitiesImplementCoverage`, the refinement.

The allocators are folds, so the proofs need a fact of the kind "what each serving keeps, the whole keeps". `FoldProofs` has it without induction over an operator: `Descent`
(a set of subsets that contains `{}` and `s` whenever it contains `s` without its chosen element contains everything finite), `FoldExists` and `FoldUnique`
(the recursive function behind `MapThenFoldSet` exists and is the only one), and what is needed of sums: one summand changed (`SumPoint`), term by term order
(`SumOrder`), sums of sums (`SumPlus`), parts (`SumPart`).

`ProdInv` joins the types, `LotNotOverpromised`, `NoDoubleCover`, `NeverOverplanned`, that no two runs are on one date and that a READY Order is served in full. `AllocatedFair`
says of the allocator that lots and lines stay within their bounds and that it only adds, where lot and date allow; `SharedOutShares` says of the output that
whoever is served comes after everyone sooner was served in full. Any workflow then ends in `SettleInv` (the invariant) and `SettleMoves`
(the action properties), and each action has a lemma that establishes their premises. `SettleMoves` asks that a READY Order start from what it was promised,
which is why `Kept` must look at the status and at the impaired lot.

`QuantitiesImplementCoverage` proves `Spec => CoverageSpec`. The mapped variables are functions of the rows (`Cover`, `Links`, `Keyed`), so a step needs three facts. The new links are the ones
`Rebuilt` makes (`RebuiltLinks`). The new coverage is one that `Coverings` allows (`CoverFits`): the choice is the set of lines served in full and, for the rest of an Order, what it already had. And READY means
the same on both sides (`ServedStatus`). What `Coverings` may not move are the lines in production and those of READY Orders; `PromisesStay` says the allocator does not, unless a lot is impaired,
and then `Fulfillment` fixes nothing either (`AdjustSupply`). `Follows` is what a workflow must bring for this, and every action has a lemma that it does. One more invariant was needed, `DraftsUnlocked`: an Order that is being
confirmed is not already linked to a run, or its fresh line would be protected while uncovered.

### The money: BooksProofs, LedgerProofs

- `OverpaymentsAreConfirmed`, `AgreedOrdersKeepTheirTerms`. `BillInv`: the bill of every Order that is past its draft has its lines, and the line of bread is a whole number of the
  *same* package, which is why a quantity edit can derive the units from the line and not from the catalogue.
- `BalancesAddUp`, `AveragesStayBetweenPrices`. `StockInv` ties what a request read to the row it will find: if the row still has the version, the request's new balance is
  the row's plus its own movement. The rounded weighted average of two costs lies between them (`RestockedWithin`), whatever the weights, and on a balance of zero or below it is the new cost.
- `BooksTypeCorrect`. Half of it is types; the rest relates the bills to Production (`FlowInv`): after confirmation the units charged are the quantity made, and an
  Order has a day of its end exactly when it ended. Each workflow of Production ends in a `Settle`, which moves no draft and no ended Order (`SettleCourse`).
- `RunCostIsConserved`, `CostsFollowGoods`. `CostInv` says that what Orders and lots bear of baking is what the finished runs cost. Its step is Finish, which takes four lemmas.
  `HamiltonShares`: what one pass leaves over is less than one unit for each recipient with a remainder, so the units left over are handed out completely; a larger weight never gets less,
  and an equal one at most one unit less. It counts the recipients favoured in a total order on the remainders (`RankOrder`, `FirstsCount` of `FoldProofs`).
  `ApportionedCents` puts the two passes together. `DeadlineOrder` says that `InDeadlineOrder` lists each recipient once, and `Burdens` turns cents by position into cents by Order.

  The proof corrected the property. It used to say that a larger share of a run never costs less, which TLC confirmed on its small amounts and which is false: of 10000 fine cents (one cent) shared
  between 19999 and 20001 units, the first pass gives 5000 fine cents to each, and the second gives the cent to the earlier. `CostFollowsGoods` therefore allows one cent, and `CostsFollowGoods`
  proves that it is never more. `docs/ARCHITECTURE_ADDENDUM.md` (ADR-136) speaks of *one* pass over the quantities, where this could not happen; the docstring of `production_cost_apportionment.py`
  explains why the code makes two.

- `ShortagesAreTold`, `PlansAreStocked`. What is reserved through a day is a sum over the dates until then (`ReservedIs`), so it grows with the day and so does the shortage: one told for
  a date within the horizon is told on its last day too, and there is a first day it is told on (`ShortageIsTold`). For the plans, `Measured` says that a run holds the flour of its own number of batches;
  since no two runs in production are for one date, the runs' flour is a sum by dates (`SumClasses`) of which each is within what the date reserves (`RunsReserve`). The first
  needs that whoever reserves, reserves something: without it an ingredient nobody needs but which is overdrawn would be in the insight and not on the list.
- `PastReportsAreFinal`. An Order that ended keeps its bill, its ledger, its day and its status, and whoever ends later ends on a later day (`EndedStand`, from what `FlowInv` and `Settle` say of ended Orders):
  so a past period has the same Orders for ever (`ClosedStand`), and each report is a function of rows that stand. The payment
  columns are the exception: a completed Order may be paid late. `ReportStands` says that what is reported of sales (`Sales`) stands whatever is paid, and the whole report while nobody pays; `EndedPay` that an ended Order is only ever paid
  more, and a canceled one not at all; `DebtsShrink` that no balance grows, and so neither the number of those outstanding nor their sum.
  The buckets of the trends are made by a recursive walk over the days. `WalkExists` shows that the walk is a function, because each step moves on by at least one day, and the proofs reason by its equation.
- `ReportsReconcile`. The figures of a set of Orders are sums of what each contributes (`KpisAdd`), so two reports agree when they share out the same Orders. Days: the buckets tile the period, without gap or overlap, whatever
  the lengths of weeks and months (`BucketsTile`). Customers: every completed Order has a customer who is seen, or is a guest's (`CustomersShare`). Products: revenue and cost of an Order are those of its lines (`RevenueByLine`,
  `CostByLine`); the latter holds because the ledger books cost only on lines the Order has (`Attributed`, invariant by `AttributionKept`). Debts: `DebtsAdd` needs that nobody has paid less than nothing (`Collected`).

### The accounts: AccountsProofs

`AccountsTyped`, `EmailsAreOwned`, `TokensAreSpentOnce`, `SessionsEndWithPassword`, `StaleFormsRefused`, `OthersKeepTheirRows`: all six properties of `Accounts` that hold.
They rest on one invariant, `Inv` (`InvAlways`), because none of them is inductive alone:

- the types need ownership: a request that proceeds to the settings keeps the version of the Business of its session's User, so that Business must exist;
- `TokenUsedOnce` needs `LockedTokens`: the token under a confirmation's row lock is still there, unspent, and under no other confirmation's. Deletion keeps it because
  the cascade waits for the lock, a new token because it takes an id nobody holds;
- `NoSessionPredatesRevocation` speaks of live sessions, and a refresh that read a live row may commit when the row has expired and give it a new deadline. `UnrevokedIsFresh` therefore says it of every session
  that is not revoked. A commit revokes only what its `UPDATE` saw, so it needs `UnseenIsFresher` as well: what an `UPDATE` not yet committed has not seen was committed after it. A refresh leaves the mark and the birth alone.

The two action properties follow from `Inv` and from which steps write `business` and `user` at all (`BusinessWriters`, `UserWriters`).

### With TLC only

- `EveryRequestAnswered`: liveness under fairness, out of the prover's reach.

## 5. Disagreements between the code and its documents

Each has a run whose counterexample shows it, and an entry with its quotes in `PROJECT.json`.

1. **Cancel races Start** (`cancel_race`). Cancel looks for active runs before it locks the Products; Start locks Products but no Orders. The Order ends up
   CANCELED with a run producing for it. Completion re-checks for this very reason.
2. **Confirmed edit races Start** (`edit_race`): the same gap; the run keeps a line that has moved to another date.
3. **Finish serves a canceled Order** (`finish_race`). The Orders discovered before the lock wait are not looked at again after it: output and cost go to a line nobody will deliver.
4. **Migration can deadlock with Confirm** (`migrate_race`): the recipe service's comment says it never takes an Order lock, but the foreign keys of the rows it inserts do.
5. **First stock promotes nobody** (`first_stock`).
6. **A login outlives the password it used** (`login_race`). The `UPDATE` that ends a User's sessions and the commit of the new password are apart; a login committed in between is older than the new password and is not revoked.
7. **Completed production nets across Orders** (`netting`): a line edited below what was produced for it hides the shortage of another line of the same date.

`Fulfillment` promises only what the code keeps: its `Cancel` and `Edit` may hit protected demand, its `EndRun` may leave output with an Order that is gone, and its `OpenStock` and `Migrate` may leave a satisfied Order CONFIRMED.

## 6. Not modelled, and the plan

Done: Fulfillment, FulfillmentTx, Production, Costing, Books, Reports and Accounts, and the proofs of section 4.

Next:

1. Custom items with their manual fulfilment, and several lines of one kind, in `Fulfillment` and `FulfillmentTx`.

Not modelled, and why:

- HTTP routing, schemas, configuration, rate limits, CSRF and origin checks, mail: pure I/O or middleware that only refuses a request, which every modelled request may meet anyway.
- The frontend: a cache of answers; the services check every request again.
- Of the read models: sorting, paging, CSV, preset ranges, largest Order, breakdowns by option and fulfilment method, today's and upcoming sections, alerts that need the time of day (`AT_RISK`, `MISSING_TIME`), `LOST_READY` and incomplete recipes. The dashboard's
  `load_all_pages` compares counts, so an insert and a delete between two pages can pass unseen; a paged read has no counterpart in reports that are functions of one state.
- Of pricing: order previews, references to inactive Products and Customers (validation of one request). The cost of replacing Purchased goods, and a requirement's estimated costs, which stay as they were at the last recalculation.
- Removing a line that has completed-run allocations, which violates a foreign key: Orders keep their line here.
- Column widths beyond the ranges `FitsMoney` and `FitsAmount` test, migration scripts, logging, wording and layout of answers.
- Warnings and their acknowledgement fingerprints only decide between a commit and a rejection, and every workflow may be rejected at that point.
