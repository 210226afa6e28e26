# Verification of FinCart

FinCart is the backend of a shop: an HTTP API in Go over one PostgreSQL
database. What is hard about it is not in any one function. Many requests run at
once, each in a transaction at READ COMMITTED, and the stock, the prices, the
carts, the orders, the accounts and the sessions stay right only because of the
rows each transaction locks, the order in which it locks them, and a few
constraints of the schema. The project beside this file models the services
statement by statement, with the pool of connections below them, the HTTP layer
above them and the processes around them, checks the models with TLC in every
interleaving and with every abort, and proves the most important invariants with
TLAPS for every value of the constants.

Paths below are relative to the root of the repository.

## 1. Inventory

### Components

| Component | Source | State | Operations | Model |
|---|---|---|---|---|
| Transaction manager, database | `internal/database/transaction.go`, `postgres.go`, `migrations/*.sql` | tables, row locks, sequences, a pool of 20 connections | begin, commit, rollback; CHECK, foreign key and unique index | `Rows`, `Store`, `Deadlock`, `ConnectionPool` |
| Product repository | `internal/product/transaction_repository.go` | table `products` | GetByIDForUpdate, DecreaseStock, IncreaseStock, Create, Update, Delete | `ProductRepository` |
| Order repository | `internal/order/postgres_repository.go` | tables `orders`, `order_items` | Create, CreateItem, GetByIDForUpdate, GetByID, GetItems, UpdateStatus, List | `OrderRepository` |
| Cart repository | `internal/cart/postgres_repository.go` | the drafts in `orders`, and their lines | GetDraft, CreateDraft, GetItem, AddItem, UpdateItem, DeleteItem, GetItems, UpdateTotal, UpdateItemPrice, Checkout | `OrderRepository`, `CartService` |
| Order service | `internal/order/service.go`, `status.go` | none of its own | CreateOrder, CancelOrder, PayOrder, UpdateOrderStatus, GetOrder, ListOrders | `OrderService`, `Amounts` |
| Cart service | `internal/cart/service.go` | none of its own | GetCart, AddItem, UpdateItem, DeleteItem, Checkout | `CartService` |
| Product service | `internal/product/service.go` | none of its own | CreateProduct, UpdateProduct, DeleteProduct, GetProducts, GetProductByID | `ProductService`, `Http` |
| Payment | `internal/payment/service.go` | outside: what the provider has charged | Pay | `Payment` |
| Accounts | `internal/user` | table `users` | Register, Login, GetRoleByID, the handlers of `/auth` | `Accounts` |
| Refresh tokens | `internal/auth/refresh_service.go`, `postgres_refresh_repository.go` | table `refresh_tokens` | Create, Refresh, Revoke | `Sessions` |
| Authorization | `internal/auth/middleware.go`, `jwt.go` | none: the role is in the token | Middleware, RequireRole | `Sessions`, `Http` |
| HTTP layer | `internal/{order,cart,product}/handler.go`, `internal/httpserver` | none | decode, call a service, choose a status | `Http` |
| Migrations | `cmd/migrate/main.go`, `migrations/` | table `schema_migrations` | apply what is not applied | `Migrations` |
| API process | `cmd/api/main.go`, `docker-compose.yml` | goroutines, the server, the pool | start, serve, shut down gracefully | `ApiProcess`, `Deployment` |
| CORS, product list in memory | `internal/httpserver/cors.go`, `internal/product/memory_rpository.go` | none that is used | | not modelled |

### How they interact

A handler calls one service method. The method opens one transaction with
`WithinTransaction` and calls repositories inside it. Services never call each
other (but Login and Refresh of `internal/user` call the refresh service); they
meet in the rows:

- the order service and the cart service both write `orders` and `order_items`: a
  cart is an order with status `draft`, and Checkout turns it into `pending`;
- order, cart and product service all lock and write `products`;
- PayOrder calls the payment provider while it holds the lock of the order row;
- Login checks the password in one transaction and stores the refresh token in
  another; Refresh reads its token without a lock, revokes it and inserts the
  next one;
- the migrations give the services a CHECK (`stock >= 0`, `quantity > 0`), a
  foreign key from lines to products, and unique indexes on one draft per user and
  one account per address;
- every transaction holds one of 20 connections from BeginTx to its end;
- compose starts an API when the migration runner beside it has succeeded.

### What is hard, and what must hold

| Behaviour | Where | What must hold |
|---|---|---|
| Two sales of the last unit | `order/service.go:121`, `cart/service.go:456` | what a sale has read under its lock stays true until it takes the stock |
| A sale fails half way, or the connection drops | `order/service.go:167` | stock that leaves the shelf is in an order, and the other way round |
| The price changes between cart and checkout | `cart/service.go:484` | an order is placed at the prices of that moment, its total adds up |
| Statements of one method read different snapshots | `cart/service.go:450` | the tables change as if every call were one step |
| Payment races with cancellation | `order/service.go:411` | what is paid is what was charged, and no paid order is cancelled |
| The provider times out after charging, or the commit fails | `order/service.go:433` | money is lost in no other way, no other order is charged again; the answer says what happened |
| Two requests of one user on one cart | `cart/postgres_repository.go:34` | one cart, one line per product, no change to an order already placed |
| The first AddItem, twice at once | `cart/service.go:578` | one draft per user |
| A product is deleted under a cart | `product/transaction_repository.go:236` | no line loses its product |
| GetOrder reads twice and locks nothing | `order/service.go:278` | the answer is one state of the order |
| CancelOrder locks products in another order | `order/service.go:242` | every request ends, and the cause of every deadlock is known |
| Quantities and prices wrap | `order/service.go:99`, `:148` | no illegal line is stored, amounts that fit are exact |
| Two rotations, or a rotation and a logout, of one token | `auth/refresh_service.go:148` | a new token is never seen while the old one works; a token that was revoked earlier does not work |
| A role changes while tokens carry it | `auth/middleware.go:37` | the old role dies with the access token |
| Registrations of one address race | `user/postgres_repository.go:20` | one account per address |
| Runners of migrations race and are killed | `cmd/migrate/main.go:80`, `:112` | the ledger is the schema; started again, they succeed |
| An API starts, is told to stop, a request hangs | `cmd/api/main.go:159`, `:189` | no request before the schema, none loses the pool, the process ends |
| Requests queue for connections and rows | `database/postgres.go:17` | no connection leaks, every call returns |

PROJECT.json lists these and the others as hazards, each at its line.

## 2. Plan

Written in the order of how much of the program depends on them.

| Step | Modules | State |
|---|---|---|
| 1 | `Store`, `ProductRepository`, `OrderRepository`, `Payment`, `OrderService`, `CartService`, `ProductService`, `Shop`, `OrderLifecycle` | done |
| 2 | `Deadlock` (who waits for whom, termination) | done |
| 3 | `ShopInvariant`, `ShopProofs`: TypeOK, ClaimsHold | done |
| 4 | `AtomicShop`: every method in one step; `Shop` shown to implement it, with commits as its steps | done |
| 5 | `Accounts`, `Sessions`, `SessionsProofs`: registration, login, rotation, logout, roles | done |
| 6 | `Migrations`, `ApiProcess`, `Deployment` and their proofs | done |
| 7 | `Amounts`: arithmetic at a width | done |
| 8 | `ConnectionPool`, `ConnectionPoolProofs` | done |
| 9 | `Http`: middleware, handlers, answers over `Shop` | done |
| 10 | `ShopRules`, `ShopProofs`: carts, placed orders, prices, payments, the refinement of `OrderLifecycle` | done |
| 11 | `ShopBooks`, `SumProofs`, `BooksProofs`: totals, charges, answers and units of stock | done |
| 12 | `AmountsProofs`: the arithmetic of CreateOrder at any width | done |
| 13 | `ShopEffects`, `BooksProofs`: what each commit amounts to, and the refinement of `AtomicShop` | done |
| 14 | `ShopLocks`, `ShopProofs`: DeadlockNeedsCancel | done |
| 15 | `HttpRules`, `HttpProofs`: documented answers, true refusals, payments | done |

## 3. The modules

    Rows <- Store <- ProductRepository <- OrderRepository <- Payment
         <- OrderService <- CartService <- ProductService <- Shop
    Rows <- AtomicShop
    Shop instantiates OrderLifecycle and AtomicShop
    Shop <- MCShop     Shop <- Http <- MCHttp     Shop <- Deadlock <- MCDeadlock
    Shop <- ShopInvariant <- ShopRules <- ShopBooks <- ShopEffects
    ShopRules, Deadlock <- ShopLocks;  ShopLocks, SumProofs <- ShopProofs
    ShopEffects, ShopProofs <- BooksProofs
    Http, ShopEffects <- HttpRules;  HttpRules, BooksProofs <- HttpProofs

    Accounts <- Sessions <- MCSessions, SessionsProofs
    Migrations, ApiProcess <- Deployment <- MCDeployment
    Deployment <- DeploymentProofs
    Amounts <- MCAmounts;  Amounts, SumProofs <- AmountsProofs
    ConnectionPool <- MCConnectionPool, ConnectionPoolProofs

An arrow points from a module to those that it extends with what stands on its
left, as the code's layers build on each other.

**Rows** has the tables and what each statement makes of a row, as functions.
**Store** is PostgreSQL as the code uses it. Each table is kept in two versions:
`products`, `orders`, `items` are the committed rows; `productsW`, `ordersW`,
`itemsW` the newest version of each row, which only the transaction that holds
the row's lock may write or see. A plain SELECT reads the committed version (READ
COMMITTED), or the transaction's own; SELECT FOR UPDATE and every UPDATE wait
for the row's lock and then read the newest version; Commit copies the versions
of the locked rows, Rollback drops them, and both release the locks. `op`, `pc`
and the other session variables are the local variables of a service method
between two statements. A request is one connection: it is idle, or runs one
method.

**ProductRepository**, **OrderRepository** have one operator per statement. The
lines of an order are kept in the order of their ids, in slots; slot 1 is the
line with the lowest id.

**OrderService**, **CartService**, **ProductService** have one action per
statement that other transactions can come between, with the checks the code
makes on what the statement returned. A check that fails is a `...Refuse`
action: the method returns an error and WithinTransaction rolls back (`Reject`).
The lock loop, which CreateOrder and Checkout both have, is `LockSaleProduct`.

**Payment** has the money: `charged` are the orders the provider has taken money
for, `unsettled` those of them whose transaction then rolled back.

**Shop** puts the requests side by side and states the properties. `Abort` lets
any request fail at any statement before its commit: a context cancelled by the
client, a lost connection, a stopped server, a failed statement, a victim of the
deadlock detector.

**AtomicShop** is the abstract specification of the services: the tables alone,
and each call that changes them in one step, with its whole guard and effect
read off the rows of that moment. There are no transactions, locks, snapshots or
aborts in it. `Shop!RefinesAtomicShop` maps its tables to the committed ones, so
that a commit is a step and all else is a stutter.

**OrderLifecycle** is the abstract specification of one order: absent, then a
cart or pending, then along `status.go`, one order and one move at a time.

**Deadlock** computes who waits for whom and adds the fairness.

**Http** surrounds a request of `Shop` by its route: the middleware may refuse it
(401, 403), the handler may refuse its path or body (400), and where the service
gives up, `Errors` names the error by the checks of that statement in their order,
and the handler's switch turns it into a status. Two ways to fail are its own: an
error of the database that no switch names (500), and a COMMIT that takes effect
while its answer is lost (`CommitLost`, 500 as well).

**Accounts** and **Sessions** model `/auth` in the manner of Store: committed and
newest rows of `users` and `refresh_tokens`, the owner of a row that has been
written, one action per statement. A token is its row; an access token is a role and an
expiry, handed out with the answer (`grants`). `clock` counts the time that
lifetimes are about. Four variables are history and guard nothing.

**Migrations** has any number of runners on one database. A runner looks whether
the ledger exists, creates it, and per file looks whether it is applied, executes
it and notes it in one transaction. **ApiProcess** is one process: the main
goroutine, the goroutine that listens, the channel between them, the signal, the
deadline of Shutdown and the pool. **Deployment** composes them: an API starts when
its runner is done.

**Amounts** is one CreateOrder on integers that wrap beyond `MaxInt` and columns
that do not take more than `MaxColumn`. **ConnectionPool** is WithinTransaction seen from
`database/sql`: connections, callers that wait, rows that a transaction locks,
commit, rollback, panics and cancelled contexts.

### What the models abstract

- *Statements are folded* where no other transaction can tell: several UPDATEs of
  rows that the transaction has already locked (the prices of the lines and the
  total in `CheckoutPrice`; a line and its stock in `CreateOrderLine`), and a
  method's reads of its own locked order (the `loadCart` that ends AddItem,
  UpdateItem and DeleteItem, `cart/service.go:585`). Nothing is folded across a statement
  that may wait, nor across a read of rows that others may commit.
- *Arguments* are chosen when a call begins. A product body and a new status,
  which only the last statement uses, are chosen there.
- *Checks before the transaction* (empty list, quantity below one, unknown
  status, malformed body) refuse without touching the database: `BadRequest` in
  `Http`, `RefuseBody` in `Sessions`.
- CreateOrder merges the lines of one product before it opens the transaction;
  its request is a function from products to quantities in `Shop`, and a list of
  lines in `Amounts`, where merging is what can go wrong.
- The *unique index* is checked when CreateDraft inserts: the insertion waits
  while another transaction has a draft of the user undecided, then inserts or
  fails. A sequence value burnt by a failing insertion is not modelled: ids
  only have to be fresh and increasing. Registration meets its index likewise.
- The *foreign key* is checked at the end of DELETE, a statement of its own in
  `DeleteProductChecked`, which waits while a transaction is removing a line of
  the product.
- Names, descriptions, timestamps and the wording of errors are left out, and so
  are the bodies of answers in `Http`. Totals are natural numbers in `Shop`; their
  width is the subject of `Amounts`.
- A *migration* is a number; what it refers to are the numbers in `Needs`. The
  objects it creates exist or not as a whole, as its statements are one transaction.
  `006` alone is `Tolerant`: its index is created IF NOT EXISTS.
- bcrypt, SHA-256, random tokens and JWT signatures are taken to do what they are
  for: one password per hash, no collisions, no forgeries.
- AtomicShop promises less than `Shop` of a cart's currency (the products of a
  cart are read without a lock, and the administrator may change them at once),
  and nothing of GetCart and GetOrder, which RepliesAreConsistent is about.

## 4. What is checked

Twelve runs: eight that pass and four that show a disagreement (section 6). The
safety and refinement properties of the shop are asked of two requests: locks
conflict in pairs, and a third request adds no kind of interference between rows
that two do not have; where a circle of waits or a queue is the question
(`pooling`) there are four. `MaxOrders`, `MaxUsers`, `MaxTokens`, `MaxTime`,
`MaxCrashes` and `MaxLines` are bounds of the model: an INSERT past one fails like a
failing statement, which the code handles. Each run enables the methods that its
question is about.

| Run | Methods | Bounds | States |
|---|---|---|---|
| orders | CreateOrder, CancelOrder, PayOrder, UpdateOrderStatus, ListOrders, through HTTP | 2 users, 1 product with one unit, 2 orders | 138 198 |
| carts | AddItem, UpdateItem, DeleteItem, Checkout, DeleteProduct, the product reads, through HTTP | 1 user, 2 products, 2 orders | 181 375 |
| trading | CreateProduct, UpdateProduct, DeleteProduct, AddItem, UpdateItem, Checkout, CreateOrder, GetCart, GetOrder, UpdateOrderStatus to `cancelled` | 1 user, 2 products, one not made yet, 2 currencies, 1 order | 599 914 |
| deadlocks | CreateOrder, CancelOrder, AddItem, Checkout, PayOrder, DeleteItem, DeleteProduct | 2 products, 1 order, fairness | 113 626 |
| sessions | all calls of `/auth`, an administrator's route, a change of role | 2 callers, no accounts at first, 2 spellings of an address, 2 rows for accounts, 2 tokens, clock 0 to 2 | 1 968 774 |
| deploying | two runners, one API with two clients | the six files of `migrations/`, 2 crashes, fairness | 229 784 |
| amounts | CreateOrder | 4-bit integers, 3-bit columns, up to 3 lines | 1 082 368 |
| pooling | WithinTransaction | 4 callers, 2 connections, 2 rows, fairness | 2 209 |
| lock_order, revoked_refresh, checkout_answers, negative_totals | see section 6 | as small as shows it | |

What they show:

- **orders**: `ClaimsHold`: from the SELECT FOR UPDATE of a product to the UPDATE
  that takes its stock, the lock is the sale's, the row is what it read, and the
  stock suffices. `StockFollowsOrders`: no commit makes or loses a unit, stock and
  placed orders balance; two steps of an administrator are excepted by name,
  UpdateProduct, which overwrites the stock, and UpdateOrderStatus to `cancelled`,
  which gives nothing back. `PaidOrderIsTheChargedOne`, `ChargedOrdersGetPaid`: the
  order stays as it was charged until PayOrder commits; money is left over only
  where a charge outlives a rollback. `NoSecondCharge`: PayOrders that race, or one
  sent again after its answer was lost, never call the provider for an order whose
  money it has, except the money a rolled-back PayOrder left over; such an order can
  be charged again, since PayOrder sends the provider nothing to know a retry by.
  `PaymentAnswersAreTrue`: 204 means paid and charged, 402 means that no money moved;
  504 and 500 leave it open.
  `RefinesLifecycle`, `TypeOK`.
- **carts**: `OneDraftPerUser`, `OneLinePerProduct`, `TotalsMatchLines`,
  `PlacedOrdersAreFixed`. No constraint of the schema asks for one line per
  product; it holds because every writer of a cart locks the draft first.
  `AnswersAreDocumented`: every operation but Checkout answers only with statuses
  that `docs/openapi.yaml` lists for it.
- **orders and carts**: `RefinesAtomicShop`: the calls are serializable in the
  order of their commits, though READ COMMITTED does not promise it.
  `RefusalsAreTrue`: an error is a fact of the committed tables when it is sent;
  nobody is refused for what a transaction that then rolls back had done. Of
  `cart_not_found` a weaker fact holds and is stated: GetDraft waits for a draft
  that another request is checking out, and misses the one made meanwhile, so the
  user has been without a cart at some moment of the call, not always at its end.
- **trading**: `LinesHaveProducts`: no committed line loses its product.
  `SoldAtCurrentPrice`: an order is placed at the prices and in the currency of
  that moment. `RepliesAreConsistent`: GetCart, and GetOrder of an order that is
  placed when its row is read, answer with lines that add up to the total; for a
  draft, GetOrder may mix two moments. `StockFollowsOrders` once more, with
  Checkout, UpdateProduct and UpdateOrderStatus.
- **deadlocks**: `DeadlockNeedsCancel`: whenever requests wait for each other, one
  of them is a CancelOrder that has locked a product and waits for one with a lower
  id. `Termination`: every request ends.
- **sessions**: `OneAccountPerAddress`; `RotationRevokes`: nobody sees a new token
  while the one it replaces works, whatever fails; `ClosedTokensStayClosed`: a
  Refresh that begins with a revoked or expired token gets nowhere;
  `StaleRolesExpire`: the middleware admits the old role no longer than the lifetime
  of an access token after it was changed, but for calls that were running; `RefusalsAreTrue`: a 401 is
  true. The run has one password; that a wrong one is refused, and only that, is
  part of the theorem RefusalsTellTheTruth (section 5).
- **deploying**: `LedgerMatchesSchema`, `DoneMeansComplete`: runners that race and are
  killed never note what does not exist, and success means the whole schema.
  `RunnersSucceed`: no crash leaves a database on which they fail for ever.
  `ServesCompleteSchema`; `PoolOutlivesRequests`: the pool is closed under a handler
  only after the ten seconds; `GracefulLosesNothing`: "stopped gracefully" is true;
  `SignalStops`: the process ends also when a request hangs or the signal comes
  before it listens.
- **amounts**: `StoredLinesAreLegal`: sums that wrap negative pass the service's
  stock check, and only the CHECKs of the tables stop them; `ExactWhenItFits`.
- **pooling**: `ConnectionsAreOwned`: no connection leaks or is lent twice, on every
  way out, panics included; `WaitersHoldNothing`; `CallsReturn`.

The bounds make the interesting cases happen. One unit of stock for two buyers, or
two products of which the scarcer sells out with one unit, give both outcomes of
the stock check; prices that differ tell sums apart; two products are what a
deadlock takes; two orders of one user are a cart and the order it became, and a
second cart. Two users tell `order_forbidden` from `order_not_found`. Two tokens
are a token and its successor; a third would start another such pair. Clock 0 to
2 with lifetimes 1 and 2 passes each expiry with the other still running. In four
bits the extreme prices and quantities wrap to either sign and to zero, and sums
of three lines wrap twice. A request that ends may call again, so behaviours are as
long as the tables allow; the action properties are about every step of them. What
no bound covers is proved (section 5): most of the properties of `Shop`, for any
number of requests, users, products and orders.

Requests are symmetric in the safety runs, and symmetry is not used where liveness
is checked. `sessions` uses a VIEW without `reply`: no guard and no state property
reads it, so states that differ in it alone have the same futures, and its only use,
in RefusalsAreTrue, is primed, in the step that writes it.

### Fairness

- `Deadlock!Fairness`. `SF_vars(Step(r))` for each request: the server runs each
  handler in its own goroutine, PostgreSQL queues those who wait for a row, and a
  lock that keeps coming free is granted at some time; weak fairness would not do,
  as a waiting statement is enabled and disabled by others. The payment provider
  answers, with success, failure or timeout, which its interface asks for by taking
  a context. `WF_vars(Victim)`: PostgreSQL's deadlock detector aborts a request of
  every cycle. There is no fairness for any other Abort: no request ends only
  because it was killed. Clients have no fairness.
- `MigrationsFairness`. Weak, on the steps of a runner and on starting it again,
  which an operator or compose does. Crashes are bounded; a runner that is killed
  for ever never succeeds.
- `ProcessFairness`. Weak, on the main goroutine, on the goroutine that listens and
  on the clock of the shutdown. None on requests: nothing says that a handler that
  waits for a row is ever done.
- `PoolFairness`. Weak on commit, on the deadlock victim and on the context of a
  call that has panicked; strong on the grant of a row lock that a caller queues for
  and on being handed a connection, since those come and go with other callers.
- `Sessions` has none; no liveness of it is checked.

Each property is accompanied by a *Fault* operator, a plausible slip in the code
(a dropped FOR UPDATE, a missing check, an unsorted loop, a rollback left out),
placed before the definition it stands in for. PROJECT.json says which
property notices which fault.

## 5. What is proved

Every theorem holds for every value of the constants that satisfies the named
assumptions of its module: bounds are numbers, quantities positive, null values
distinct, the rows of the start have the lowest ids, and their like.

| Module | Theorems | Says |
|---|---|---|
| ShopProofs | TypeCorrectness, ClaimsAreKept, InvariantHolds | TypeOK, ClaimsHold, `IInv` |
| | RulesHold, DraftsAreUnique, LinesAreOncePerProduct, LinesKeepTheirProducts, ChargesAreSettled, OrdersArePaidOnce, PlacedOrdersStayFixed, SalesAreAtCurrentPrices, OrdersFollowTheLifecycle | `Rules`, OneDraftPerUser, OneLinePerProduct, LinesHaveProducts, ChargedOrdersGetPaid, NoSecondCharge, PlacedOrdersAreFixed, SoldAtCurrentPrice, RefinesLifecycle |
| | LockRulesHold, OnlyCancelDeadlocks | `LockRules`, DeadlockNeedsCancel |
| BooksProofs | BooksHold, TotalsAlwaysMatch, ChargedOrdersStay, RepliesAddUp, UnitsAreKept | `Books`, TotalsMatchLines, PaidOrderIsTheChargedOne, RepliesAreConsistent, StockFollowsOrders |
| | EffectsHold, CallsAreAtomic | `Effects`, RefinesAtomicShop |
| HttpProofs | CallRulesHold, HttpRunsTheShop, AnswerRulesHold, AnswersFollowTheDocument, PaymentsAreAnsweredTruly, RefusalsAreTruthful | `CallRules`, every behaviour of `Http` is one of `Shop`, `AnswerRules`, AnswersAreDocumented, PaymentAnswersAreTrue, RefusalsAreTrue |
| AmountsProofs | AmountsHold, LegalLinesOnly, FittingOrdersAreExact | `AmountsInv`, StoredLinesAreLegal, ExactWhenItFits |
| SessionsProofs | SessionsTypeCorrectness, AddressesAreUnique, RotationIsAtomic, ClosedTokensAreUseless, OldRolesExpire, RefusalsTellTheTruth | TypeOK, the four invariants and the action property of `sessions` |
| DeploymentProofs | LedgerIsTrue, OrderIsKept, SuccessIsComplete, SchemaIsServedComplete, GracefulIsTrue, PoolStaysOpen | LedgerMatchesSchema, AppliedInOrder, DoneMeansComplete, ServesCompleteSchema, GracefulLosesNothing, PoolOutlivesRequests |
| ConnectionPoolProofs | NoConnectionLeaks, WaitersAreHarmless | the two invariants of `pooling` |

`SumProofs` holds lemmas on the folds that the totals are made with.

**Shop.** ClaimsHold is not inductive. That nobody else writes a row that a sale
has read follows from the lock; that the lock was free, or that what it guarded
agreed with the committed row, is about rows nobody has locked
(`UnlockedRowsAgree`); that an INSERT does not hit a row in use is about the
sequences (`FreshIds`); that Checkout's line has a price to take is about its cart
and its locked products (`CartIsWanted`, `AllLocked`); and each statement relies on
the rows that the method has locked before it (`OwnsTarget`). `IInv` in
`ShopInvariant` is the conjunction of these, in a part about rows and a part for
each request. The proof is by rely and guarantee. Every step of r leaves alone the
sessions of the other requests and the rows they have locked (`Others`), and the part
of the invariant of t speaks only of these (`OthersKeepRequestInv`). So an action is
dealt with once, for its own request, with one lemma: `TypeOK'`, `Others(r)`,
`RowInv'`, `RequestInv(r)'` (`Preserved`). All Refuse actions are one lemma
(`RejectPreserves`), all statements that write only rows their request has locked
share another (`OwnRowsStep`). The rest of the first half of `ShopProofs` goes through
the actions of the three services and puts them together.

**The rules of the shop.** None of them is inductive either, and what they lack is
about rows that have not been committed. `Rules` in `ShopRules` is a second
invariant on top of `IInv`. For each order it says how its two versions may differ:
by one move of `status.go` (`OneMove`), which is all that may differ once it is
placed (`OnlyStatusMoves`). It says what a transaction keeps locked until it commits:
the product of a line it adds (`NewLinesLocked`, without which DeleteProduct's check
of the committed lines would not be enough), and the products of an order it places,
at the prices of its lines (`SoldPriced`). It says that a user has one draft over
both versions of all rows (`DraftRule`): the unique index sees what is committed and
waits for what is undecided, and CreateDraft holds no order when it inserts. For each
request it says that it locks one order only, its target (`LocksItsOrder`, why a
commit is one move of one order), and what it may take for granted of that order:
still a draft (`EditsDraft`), still pending and as read (`MovesPending`), new and
without the products to come (`FillsNewOrder`), priced (`KeepsPrices`).

The proof goes as before. A statement commits nothing and changes no price once its
request has locked an order (`Transacts`), and then it preserves the rules of every
order it does not write (`UnwrittenOrder`) and of every other request
(`OthersKeepRules`), so that what is left of an action is its own order and its own
request (`WrittenRules`). Commits and rollbacks are two lemmas for all methods
(`CommitRules`, `RollbackRules`). As nothing else writes committed rows
(`OnlyCommitsWrite`), the two action properties and the refinement follow from what
`Rules` says of the order that a commit makes visible. OrdersArePaidOnce needs no
invariant of its own: who calls the provider holds the lock of a pending order, and who
has the money of an order that is not paid yet holds the same lock (`ChargeRule`,
`MarksPaid`).

**Who waits for whom.** DeadlockNeedsCancel is about cycles of any length among any
number of requests. `LockRules` in `ShopLocks` says what a request has locked where it
can come to wait: no product before its first statement on products (`HoldsNoProduct`),
in the lock loop of CreateOrder and Checkout only products below what is left to lock
(`LocksUpwards`), and no order of which it has removed a line, unless it is about to
commit (`RemovesLate`). So who waits for an order waits for a request that is past
the statements that lock orders (`OrderWaits`, `OrderOwnersWaitForProducts`): in every
deadlock someone waits for a product that another of them has locked
(`DeadlocksAreOverProducts`). Suppose no CancelOrder among them goes down. Then each
such wait leads to another one, for a product with a higher id (`WaitsGoUp`), and
`NoEndlessWayUp` takes the highest of these products, which there is because ids are
bounded. TLC has checked `LockRules` as an invariant with every method enabled before it
was proved. That PostgreSQL then ends a request of the cycle, and that every request
ends, is Termination, a matter of fairness, which TLC checks.

**The books.** What the totals, the answers and the stock have to do with the lines
is a third invariant, `Books` in `ShopBooks`. The order that a method writes and its
lines disagree between two of its statements, so TotalsMatchLines by itself says
nothing of the transaction that will commit next. `TotalBooks` says it: the working
row and the working lines of a locked order agree except where its method stands
between the two (`IsWriting`), and there they differ by what is still to come:
CreateOrder has announced the total of the lines it has written and of the products
it has not got to (`FillsUp`). `StockBooks` says the same of the stock: what a sale
has taken of each product it has locked is what its order has got of it (`Took`),
what a cancellation has given back is what the lines it has gone through hold
(`GaveBack`), and no other method has touched a stock that it has not overwritten.
`ReadBooks` says what a request has read and still relies on: PayOrder of its locked
order, CancelOrder of its lines, GetCart of its cart, and GetOrder, which locks
nothing, of a placed order, whose total and lines no one changes. `Decides` says what
a request that is about to commit does to the status of its order.

A step of another request keeps the books of t because it leaves the session and the
locked rows of t alone (`Others`, `OwnReads`), and because it commits nothing t
relies on (`KeepsCommitted`; `OthersKeepBooks`). Each method has one lemma for what
its statements do to its own books; commits and rollbacks are once more one lemma
each. StockFollowsOrders then compares the two sides of one commit: `CommitBalances`
shows that stock and held quantity of a product move by opposite amounts in the one
order that the commit writes (`Holds`), and SumOfChange carries it over to the sum over
all orders (`CommitKeepsUnits`).

The totals are folds of the community modules, which means a recursive function over
the subsets of a set, named by CHOOSE. An induction theorem would have to be given an
operator, and the provers cannot do that. `SumProofs` gets by without: if a fact
failed for some subset of a finite set it would fail for a smallest one
(`LeastCounterexample`, from the well-foundedness of strict inclusion), and the
equation of the fold takes that one apart. It proves that the function exists
(`SumsExist`), that any element can be taken out first (`PartSplits`), and what the
proofs about the shop need: SumOfChange, SumOfZeros, SumInNat, and SumReindexed, which
turns Checkout's sum over products into one over the lines of its cart.

**The calls are atomic.** RefinesAtomicShop compares what a transaction has written
statement by statement with what one step of `AtomicShop` would make of the rows that
are committed at the moment of the commit. Until then others commit, so the fourth
invariant, `Effects` in `ShopEffects`, keeps the comparison up to date after every
statement: the working lines of a cart are the committed ones with the edit that the
client asked for (`LinesUnwritten`, `AddedItem`, `UpdatedItem`, `DeletedItem`), those
of a checkout differ from the committed ones in their prices alone (`SameGoods`),
those of a new order are the first lines of the sale in their final places
(`SoldSoFar`), and the administrator writes one product and a whole row of it
(`WritesOneProduct`). What these speak of on the committed side are rows that the
request has locked, and only the owner of a lock commits its row; so a step of another
request keeps them (`KeepsLocked`, `OthersKeepEffects`). This is where the locks of the
code are needed one by one: AddItem's check of the stock, for one, is still true at its
commit because it has read the product FOR UPDATE, while the currencies that the end of
an edit reads without a lock are why `AtomicShop` leaves the currency of a cart open.

The last part of `BooksProofs` takes the commits of the thirteen methods one by one.
The four invariants give the guard and the effect of each: `Books` that the total is
that of the lines and that the stock taken is what the lines hold, `Rules` that only
one order changes, by one move, at the prices of its products, `Effects` the rest.
CostIs carries the total of the lines over to the sum over products that `AtomicShop`
has, and SaleLinesAre its `Place` over to the slots that CreateOrder has filled one
after the other. A commit that reads only is a stutter, and so is all else
(`OnlyCommitsWrite`).

**The answers.** `Http` adds two variables to `Shop` and guards nothing of it that
`Shop` leaves open, so its behaviours are behaviours of `Shop` (HttpRunsTheShop) and
the four invariants hold in them. To say that an answer is true is to compare what a
statement has read with the rows that are committed when the answer is sent, and there
are three reasons why the two agree. What is read under a lock, or waited for and found
free, has one version (`SeesCommitted`, `FreeOrderIsCommitted`): so with the stock of a
product, and with the status of an order. What the call's own transaction has changed
already is not what the error is about: a sale changes no product before its last check
(`TouchesNoStock`), an edit refuses before it writes a line or, for the currencies, is
about lines that are in the cart or were asked for (`EditsAsAsked`), and nothing writes
the owner of an order (`KeepsOwner`, which is why GetOrder needs no lock to answer 403).
And what is committed about the user as a whole, his one cart and the quantity of a
product in it, is what the call has locked (`EditsTheCart`, `LockedCart`,
`LockedQuantity`, from the uniqueness of drafts). For "cart_not_found" none of these
works: GetDraft picks a row, waits for its lock and returns nothing when it is not a
draft any more, while the user may have a new cart. `KnowsCartless` is the fact that
holds: the commit that took the draft away left its user without one (`LosesItsCart`).
These and what PayOrder knows of its money (`HasPaid`) are `AnswerRules` in `HttpRules`.

PaymentAnswersAreTrue then is about two statuses: 204 is sent by the commit of PayOrder
alone, which comes after the charge, and 402 by one error alone. AnswersAreDocumented
goes through the switches of the handlers; those of the carts and of the catalogue name
errors that some of their methods never return, and which those are follows from where
a method can be (`RefusingSteps`, `Edits`). Its assumption `RoutesAssumption` says that a client
calls operations that have a route. Where several errors apply to one statement the
order of the code's checks decides, so the errors are chains of IF: the guards of a CASE
must not overlap.

TLC has checked `IInv`, `Rules`, `Books` and `Effects` as invariants of the instance of
`trading` (`Effects` also of `orders` and `carts`) before they were proved; to repeat
it, let `MCShop` extend `ShopEffects` and name them under INVARIANTS (`ShopLocks` and
`LockRules` likewise, and for `orders` and `carts` `MCHttp`, `HttpRules` and
`AnswerRules`).

**Amounts.** Of a number that has wrapped nothing is known, so the invariant speaks of
amounts that fit, and says what is done and what is left of them: the merged quantity
of a product and the lines not yet merged make up what the client asked for
(`MergedExactly`), the total and the cost of the products not yet checked make up the
true cost (`ChargedExactly`). Both parts are natural numbers and their sum fits, so no
intermediate value wraps, in whatever order they are added. The integers have any
width, the columns any smaller one, and the request any number of lines.
StoredLinesAreLegal supposes no amount to fit: it rests on the CHECKs alone.

**Sessions.** The same argument. `RowsInv` says how the two versions of a row
agree, that no two versions of accounts have one address (`UserInv`), and that a
token's predecessor is revoked already or is revoked and locked by the very
transaction that inserts the token (`ParentInv`), which is what makes RotationRevokes
inductive. `CallInv(c)` says where caller c can be, what account and token it acts
for, and what it may rely on although it locks nothing: accounts are never deleted,
and a row of `refresh_tokens` changes only by getting revoked.
RefusalsTellTheTruth is an action property and follows from the invariant by going
through the steps that can answer 401.

**Migrations.** `RunnerInv` adds a runner's place in its loop: the files before the
one it is at are noted, and its transaction holds a file and its note only
together. Which runner waits for which is not needed: the primary key of the ledger
keeps them apart.

**Deployment.** `InstanceInv` says for each place of the main goroutine what the
listener, the pool and the requests can be. The composition needs one fact more,
`StartedOnSchema`: a process that has been started found every migration, and no
runner takes one away.

**ConnectionPool.** The two invariants are inductive together; the count of
connections is handled with the theorems on cardinalities of finite sets.

Every invariant, action property and refinement that a passing run checks is proved. Out
of reach of the prover and left to TLC are Termination, RunnersSucceed, SignalStops and
CallsReturn, since they rest on fairness.

## 6. Findings

Four, each with a run that shows it.

- `lock_order`. `README.md:287` of the repository says that product ids are sorted
  before they are locked, to lower the risk of deadlock. CreateOrder and Checkout do
  so. CancelOrder (`internal/order/service.go:242`) gives the stock back in the order
  of the lines, each UPDATE locking its product; for an order that was a cart that is
  the order in which the user added the products. `deadlocks` shows that this is the
  only way in which requests come to wait for each other, and that PostgreSQL's
  detector then ends one of them: the call fails, no data is harmed.
- `revoked_refresh`. `tests/integration/auth_test.go:169` says "Revoked token cannot
  be refreshed." Refresh reads its token with a plain SELECT and does not look at
  what its UPDATE changed (`internal/auth/refresh_service.go:148`): a Logout can be
  answered with 204 in between, and Refresh still hands out a new pair.
- `checkout_answers`. Checkout answers 400 when the currency of a product in the cart
  has changed (`internal/cart/handler.go:319`); `docs/openapi.yaml:567-592` lists no
  400 for it.
- `negative_totals`. `docs/openapi.yaml:1437` gives total_amount a minimum of 0. Price
  times quantity wraps without a check (`internal/order/service.go:148`) and
  `orders.total_amount` has no CHECK.

Observations that contradict no document: two steps of an administrator break the
balance of stock and orders (StockFollowsOrders names them). A commit whose answer is
lost is answered with 500 though it took effect. WithinTransaction defers no
rollback, so after a panic the connection comes back only because BeginTx was given
the context of the request. A duplicate registration is answered with 500, and
runners of migrations do not lock each other out; the roadmap of the repository
(`README.md:403-404`) lists both.

## 7. What is not modelled

- CORS and routing tables: constant headers; they keep no state.
- Logging, JSON encoding and the bodies of answers; what bodies say of an order is
  covered by RepliesAreConsistent.
- The algorithms of bcrypt, SHA-256 and JWT, which are libraries'.
- The product list in memory, which `main.go` does not wire, and
  `auth/admin.go` and `auth/context.go`, which nothing calls.
- A result of the payment provider other than success, failed and timeout, which
  `payment.Service` does not name: PayOrder would answer 402 (`order/service.go:436`).
- Liveness of `/auth`: its calls wait only for an undecided row of another call.
- Isolation levels other than READ COMMITTED, and failures of PostgreSQL itself
  (lost commits, corruption).

## 8. Running

    tlc -workers 2 -config orders.cfg MCHttp         # also carts, checkout_answers
    tlc -workers 2 -config trading.cfg MCShop
    tlc -workers 2 -config deadlocks.cfg MCDeadlock  # also lock_order
    tlc -workers 2 -config sessions.cfg MCSessions   # also revoked_refresh
    tlc -workers 2 -config deploying.cfg MCDeployment
    tlc -workers 2 -config amounts.cfg MCAmounts     # also negative_totals
    tlc -workers 2 -config pooling.cfg MCConnectionPool
    tlapm ShopProofs.tla
    tlapm SumProofs.tla
    tlapm BooksProofs.tla
    tlapm HttpProofs.tla
    tlapm AmountsProofs.tla
    tlapm SessionsProofs.tla
    tlapm DeploymentProofs.tla
    tlapm ConnectionPoolProofs.tla
