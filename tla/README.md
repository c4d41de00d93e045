# Verification of the restaurant API and app

This directory holds TLA+ models of the Go server under `restaurant-api/` and of the parts of
the React Native app under `restaurant-app/` that keep state, with TLC runs that check them on
small instances and TLAPS proofs of what holds for instances of any size. Paths below are
relative to `src/`; `PROJECT.json` maps each definition to the lines it models.

## The system

| component | state | operations | talks to |
|---|---|---|---|
| PostgreSQL schema, repositories (`internal/repository`, `migrations`) | users, tables, products, orders, order_items | one SQL statement per method, auto-committed; deleting a product is the only transaction | every service |
| order service | none of its own | Create, AddItem, UpdateItem, DeleteItem, UpdateStatus | orders, order_items, tables, products |
| kitchen service | none | ListOrders, UpdateItemStatus | orders, order_items |
| table service | none | Create, UpdateStatus | tables |
| product service and handler | none | Create, Update (read, merge, write), Delete | products, order_items |
| user service | none | Create, Update, Deactivate | users |
| authentication (`auth_service.go`, `jwt.go`, `middleware/auth.go`) | none: a token is its own evidence until it expires | Login, IsAuthenticated | users |
| HTTP server (`cmd/server`) | requests in progress | a goroutine per connection | everything above |
| session store, HTTP client of the app | token in memory and on disk | login, logout, 401 interceptor | `/auth/login`, all routes |
| kitchen screen | cached list, fetch and mutation in progress | poll, draw, press | `/kitchen/orders` |
| waiter screens (tables, order) | the order shown, its cached cart, the read and the requests in progress | press a table, add, remove, send, go back | `/orders` routes |
| products and users screens | cached list, fetch in progress, one modal form, requests in progress | open, fill in, save, delete or deactivate, dismiss, leave | `/products`, `/users` |
| dashboard and admin tables screen | nothing of their own | draw two polled lists | `/tables`, `/kitchen/orders` |

Requests of several goroutines interleave statement by statement: the checks of a handler are
made on rows it read earlier and its UPDATEs do not repeat them. An order and the status of
its table are two rows written by two statements without a transaction, and any statement may
fail or lose its acknowledgement. On the other side of the network the app polls, gives a
request up after ten seconds while its handler goes on, draws lists put together from several
queries, and is killed and restarted with what its disk has.

What makes the components correct:

- **orders**: no order is reopened or closed unsent; items change only while it is open; a
  closed order has been prepared; a table is free exactly while none of its orders is active;
- **kitchen**: an item goes pending, preparing, ready and never back to pending;
- **menu**: an item always has its product, a PATCH keeps what it does not name;
- **requests**: each is answered, and a refused one has changed nothing;
- **kitchen screen**: late, but never ahead of the kitchen, and in the end up to date;
- **waiter screens**: a cart drawn as locked is locked, a cart at rest is the order but for items
  deleted with their product, an order is sent empty only from a cart whose lines have all been
  deleted since, the spinner ends;
- **admin screens**: what a save was acknowledged to have stored is stored and, at rest, drawn; an
  answer closes no form but its own; a deactivated user is back nowhere, however often the screens
  are left and come back to;
- **users**: an address names one account for ever;
- **sessions**: a session ends when it should and only then.

## Modules

| module | models |
|---|---|
| `Absent` | `NULL`, which is no row, no answer, no list |
| `RestaurantModel` | status columns, transition predicates, `writeServiceError` |
| `Repository` | the relations and an operator per repository method |
| `Requests` | a request in progress: worker, label of its next statement, rows it holds, rows it locks, reply, failures |
| `OrderService`, `KitchenService`, `TableService`, `ProductService` | the handlers and services, an action per statement |
| `RestaurantAPI` | all of them over one database: `Spec`, `FairSpec`, the properties of the server |
| `OrderDesk` | abstract: the same requests, each in one step, without workers, replies or failures |
| `DeskRefinement` | the mapping under which one worker of `RestaurantAPI` implements `OrderDesk` |
| `KitchenBoard` | kitchen screens over `RestaurantAPI` |
| `WaiterScreens` | tables screen and order screen over `RestaurantAPI`, beside the other clients of its routes |
| `UserService` | the users relation and its service, one statement per request |
| `AdminForm` | what the two admin screens share: list, fetch, modal form, requests |
| `ProductsScreen` | `AdminForm` over `RestaurantAPI` |
| `UsersScreen` | `AdminForm` over `UserService` |
| `Sessions` | tokens, the store of a device, its requests, over `UserService` |
| `Repository_proofs` | lemmas about the repository methods |
| `RestaurantAPI_proofs` | theorems about the server with any number of workers |
| `OrderDesk_proofs`, `DeskRefinement_proofs` | theorems about the desk, and that a server with one worker implements it |
| `KitchenBoard_proofs`, `WaiterScreens_proofs`, `ProductsScreen_proofs` | theorems about the screens, on top of those about the server |
| `UserService_proofs` | theorems about the sessions and the users screens |
| `MC*` | instances for TLC: the routes a run calls and the symmetry of its identifiers |

The screens are composed with the server they talk to: a press gives a worker a request
(`Receive`), the worker executes it statement by statement beside the others, and the screen sees
its `reply` once it is idle again, or gives up before. `Free` keeps the worker of a request the
screen waits for, the goroutine of its connection.

**Statements as steps.** `pc[w]` names the statement worker `w` executes next, for instance
`status.order`, `status.count`, `status.write`, `status.active`, `status.table`,
`status.reply` for `OrderService.UpdateStatus`. The checks a service makes on a row are part of
the action that reads the row (`Checked`): they touch nothing other requests see. `seen[w]` is
the row the handler holds, `wrote[w]` says that the request has changed the database.
`AnswerWrite` is a final write, whose acknowledgement may be lost; `StatementFails` is a
statement that fails, for a broken connection, a cancelled request context or a server that
stops. `told` is the set of orders whose id a client was given; no route lists open orders,
so requests name only these (or ids no row has).

**Abstractions.** Names, notes, categories, descriptions and time stamps are left out. Rows are
identified by model values. A table stands for its UNIQUE number. Prices and quantities are
small sets of integers. 2xx codes are one class. The rereads at the end of a handler are one
step, since what they read goes only into the response body. The foreign keys to tables and users
cannot fail: nothing deletes those rows (`TablePGRepository.Deactivate` has no caller).
Row locks matter in one place, the product deletion, and are `locked[w]` there. Requests that
a handler refuses before its first statement change nothing and are left out.

**The kitchen screen.** `Poll` starts the fetch, `ListOrders` and `ListItems` are the query for
the orders and one query per order, `Deliver` draws the result. `Press` sends the status that
follows the drawn one, `Answered` and `GiveUp` are its two ends. A success abandons the fetch
in progress and starts another, which is what invalidation does in the query library; the
library is not in the repository and modelled from how the hooks use it. Drawing an order without
items throws (`crashed`), because its JSON has no `items` and the screen maps over it.

**The waiter screens.** `handleTablePress` sends `POST /orders`; nothing disables the cards, so a
waiter may have pressed twice. `CreateAnswered` navigates to the order of the answer, whatever is
shown. `ReadOrder`, `ReadLines` and `DrawOrder` are the two statements of `GET /orders/:id` and the
drawing; a read starts with the navigation and after each success of the screen
(`Invalidated`) and at no other time, since the query has no interval. `Back` unmounts the screen:
no screen can open the order again, as the only way to an order is to create it.

The waiters are not alone with the server. `OtherRequest` lets the kitchen, the products and the
tables screens of the same app send what they like; of these requests the kitchen's and the
deletion of a product reach the items of an order that a waiter is looking at, and no screen is
told. No other screen sends anything to the `/orders` routes. Four variables observe: `missed` the
waiters to whom an answer or a read was lost, `had` the items an order has ever had, `dropped` the
items that went with their product, `drawn` the lines of the cart on which the send that a worker
handles was pressed. With them the properties can say what a deletion leaves of them: a cart at rest
may draw lines too many, all of them `dropped`; an order that reaches the kitchen empty was sent
from a cart with lines, all of them items of that order that have been deleted.

**The admin screens.** The state of both is a list, a fetch, a form and the requests sent
(`AdminForm`). A request remembers what became of its form: `open`, `dismissed`, or `unmounted`
with its screen. The callbacks of a mutation run after all three, those of an unmounted screen on
the query client only, hence `Settled`: a success reads the list again and closes the form that
is visible on the same mount, though it be another than the one that sent the request.
`Invalidated` cancels and restarts a fetch in progress, except while there is no list yet, when it
joins it: a library rule that leaves a row undrawn which was written after that fetch read the
relation.

The list and its fetch are in the cache of the device and outlive the screen. `Leave` unmounts the
screen: the form is gone, the fetch and the requests go on, and while the device is `away` an
answer neither cancels nor starts a fetch. `Forget` is the cache dropping a list nobody draws.
`ComeBack` mounts the screen anew: it draws what the cache has and starts a fetch, unless one is on
its way since before, which it joins. That fetch may have read the relation before a request that
was answered while the screen was away; nothing replaces it, and the old list is drawn at rest. This
is what the program does, so `gone` counts a deactivation only if the list will be read after its
answer (`ReadsAgain`), and `stored` only the answers that reach the screen that asked.

`ProductsScreen` sends its requests to the workers of `RestaurantAPI`; `UsersScreen` to
one-statement requests that are served (`Serve`), with other clients of the same routes beside
them (`ServeOther`).

**Sessions.** A token is unsigned, valid or expired. The store is written to disk by a step of
its own (`Persist`), which a kill may beat (`Restart`, hydration included). `CallAnswer` is the
401 interceptor, which asks neither whose token was refused nor how old the request is. Login
has its own axios call, outside that interceptor. Passwords are compared as they are stored
(`auth_service.go:36`), and the model does the same; the tests of the login (`auth_service_test.go:51`,
`auth_handler_test.go:58`) store a bcrypt hash and expect the plain password to be accepted. No property is
about this.

## Runs

| run | instance | shows |
|---|---|---|
| `items` | 2 workers, 1 order, 1 item, 1 product, quantities 1 and 2, faults, fair | `TypeOK`; `ItemsHaveProducts`: ordering a product races with its deletion; `RefusalLeavesNoTrace`; `LockedOrderStaysLocked`: once the requests that saw the order open are over, no other gets past the check, and its items are frozen but for deleted products; `OrderStatusPath`, `ItemStatusPath`; `EveryRequestAnswered`, waiting for locked rows included |
| `house` | 1 worker, 2 orders at a table that is created, 1 item, 1 product, prices 0 and 1, quantities 1 and 2 | `ImplementsDesk`, `PatchKeepsOtherFields`, `NotesKeepQuantity`, `TypeOK` |
| `desk` | 2 orders, 2 tables, 2 items, 2 products | `ClosedMeansReady`, `TableFollowsOrders`, `EndedOrderIsFinal`, `SchemaOK` of the desk |
| `board` | 2 workers, 1 order, 1 item, 1 screen, faults, fair | `BoardTypeOK`, `NoOpenOrderDrawn`, `DrawnProgressIsReal`, `DrawnItemsStayStarted`, `BoardCatchesUp` |
| `waiter` | 2 workers, 1 waiter, 2 orders, 1 item, deletions of its product by another client, faults, fair | `WaiterTypeOK`, `LockedCartIsLocked`, `RestingCartIsTrue`, `SentEmptyOnlyAfterRemoval`, `LostOrderStaysLost`, `SpinnerEnds` |
| `products` | 2 workers, 1 admin who leaves and comes back, 1 product, faults | `ScreenTypeOK`, `AcknowledgedSaveStays`, `RestingListShowsSaves`, `FormClosedByOwnAnswer` |
| `users` | 1 admin who leaves and comes back, with 2 requests at once, and other clients, 2 users, 2 addresses | `UsersTypeOK`, `OneAccountPerAddress`, `DeactivatedLeavesTheList`, `DeactivatedStaysOut` |
| `sessions` | 2 users, addresses, passwords and tokens, 1 device, 2 requests at once, fair | `TypeOK`, `SessionEndsByExpiry`, `ExpiredSessionEnds` |

Four runs end in a counterexample, each against a statement of the repository:

| run | the code | the repository says |
|---|---|---|
| `close_race` | `order_service.go:192` counts, `:202` closes; an item may be added in between | `errors.go:22` "order can be closed only when all items are ready" |
| `erase_lines` | `product_repo.go:173` deletes the items of sent and closed orders | `errors.go:23` "order items can only be changed while order is open" |
| `empty_order` | `model/order.go:25` omits empty items, and `KitchenScreen.tsx:124` maps over them | `types/index.ts:54` `items: OrderItem[];` |
| `wrong_password` | `auth_service.go:37` makes a wrong password an internal error | `auth_service_test.go:87` expects `ErrInvalidCredentials` |

**Bounds.** Every property speaks of one order, item, product, table, user or device at a time and
rows interact only through their foreign keys and unique columns; what it takes to break a
property is the number of *requests* in progress, so the runs spend their states on workers. Two
workers are two racing requests, which is what each of the properties relates; that a third does
not matter is what the theorems add for the properties they state, which hold for any number of
workers. Two orders at one table
are what the rule of the free table is about, and two orders of one waiter what repeated presses
are about, so `house`, `desk` and `waiter` have them. `products` and `waiter` have two workers: the
request of a screen and one it has given up, that another press of the same waiter sent, or that
deletes the product of what the waiter is looking at. The kitchen's requests and those on tables are
not among the `Endpoint`s of `waiter`: they change no set of items and no order, and the theorems
about the screens hold for every set of routes. Its `VIEW` leaves out of the state what nothing
looks at there, `wrote` and the replies for which no device waits. One
admin is enough for `AcknowledgedSaveStays`, which is about the saves of one screen; in `users` the
other admins are `ServeOther`. `MaxRequests` and `MaxCalls` bound the requests of a device in
progress: two tell a late answer from a recent one. Two tokens are two successive sessions; after
them the device stays on its login screen. All other sets are finite by their instance, and
identifiers that were used are not reused, as UUIDs are not. `CHECK_DEADLOCK FALSE` is in `desk` and
`waiter` only: with all orders ended or lost and nothing under way, nothing is left to do.

**Fairness.** `FairSpec` of `RestaurantAPI` is fairness of each worker's next statement, strong
because a statement that waits for a row may see it locked again by the next transaction: the
database grants row locks in the order in which they were asked for, so none waits for ever while
transactions end, which every return of the handler sees to. No client has to send anything.
`FairWaiterSpec` is weak fairness of the reads of the order screen: they wait for no row, and a
read that fails ends as `ReadFails`, which `SpinnerEnds` excepts.
`FairBoardSpec` is weak fairness of the query's timer and of the statements of a fetch;
`BoardCatchesUp` speaks of behaviours in which orders and items come to rest and fetches stop
failing. `Sessions!FairSpec` is weak fairness of sending, as the first screen of every role
polls (`useTables` 10 s, `useKitchenOrders` 4 s), and strong fairness of serving and answering:
a network that loses requests again and again does not lose all of them.

## What is proved

All proofs are checked by TLAPS for every value of the constants, under the assumptions the
modules name: `CheckConstraints` (the CHECKs of the schema on prices and quantities), `OneOfEach`
(1 is a quantity), `MarkersAreNoValues`, `NoRowIsNoStatus`, `NoListIsMissing`, `NoUserIsMissing`,
`NoFetchIsMissing`, `NoFormIsMissing`, `NoReadIsMissing`, `NoCodeIsMissing`, `NoStateIsMissing`, `NoAnswerIsMissing`
(`NULL` and `DELETED` are no values), `FaultsIsBoolean`, `SeedRows` and `FirstRows`. TLC evaluates
each of them in the runs.

`RestaurantAPI_proofs`, for any number of workers, with failures: `TypeCorrect`,
`ForeignKeyHolds`, `RefusedRequestsLeaveNoTrace`, `OrdersKeepTheirPath`, `ItemsKeepTheirPath`.
None of the properties is inductive: they hold because of what a worker checked before
the statement it is about to execute. `IInv` adds, for each worker, that it holds a request of
its route (`RequestFits`), that the row it holds passed the checks (`RowFits`), that the row in
the database is not *behind* the one it holds (`NotBehind`: an order read as sent is not open, an
item read as preparing is not pending), and that nothing is written before the first write
(`NoTrace`). `NotBehind` is the reason why unconditional UPDATEs do no worse than they do: other
workers may move the row, but by `OrderMoves` and `ItemMoves` never back. One lemma
(`OthersFit`) shows that a statement of one worker keeps all of this for the others, and then
each handler answers only for itself.

The locks, in the same module and on top of `IInv`: `LockedOrdersStayLocked`. `LockInv` adds that an open
transaction has deleted only items with the product it is deleting. `Careful` says what a
statement of one worker may do: it comes to rely on an open order only by reading that it is open, it
adds, edits or removes an item only while it relies on that, advances a status (the kitchen), or
deletes an item with its product. An order that is not open and on which no worker relies
therefore keeps its items, and by `OrdersKeepTheirPath` does not become open again.

`KitchenBoard_proofs`, `WaiterScreens_proofs`: the screens take the steps of the server as they
are, so `IInv` and `OrderMoves`, `ItemMoves` carry over. `BoardInv` adds that every list, drawn or
on its way, has only orders that were handed to the kitchen and is not ahead of their items
(`Honest`), and that the list on its way is not behind the drawn one (`Follows`), from which
`OpenOrdersStayHidden`, `ProgressIsReal` and `DrawnProgressStays` are read off. `WaiterInv` adds
that a status on its way or drawn is one the order has had (so a locked one is still locked:
`LockedCartsAreLocked`), that each item drawn was an item of that order and is still, or is deleted
(`HadFits`), that the lines a send was drawn on are such items and not none (with which
`EmptyOrdersHadItems` speaks of the order that is sent and of no other), that an open transaction has
deleted items with its product only (`LocksFit`), and that a worker on whose answer a creation waits
handles the order of that creation (`LostOrdersStayLost`). All of it beside any requests of the
other clients.

`RestingCartsAreTrue` needs more, and `CartInv` says it. An order is shown by one device at most,
since nothing else in the system knows of the order that an awaited creation may still open
(`Opens`, `Unopened`). Hence every worker with a request on a shown order has an answer to give to
the screen that shows it, unless that screen gave the request up, which `missed` remembers
(`OrderRests`). The requests of the other clients touch no order's row and only take items away,
with their product (`StrangersTakeItemsOnly`). While none of the screen's own requests has written
(`wrote`), what has been read is current up to such items (`Current`): a statement that changes
the order marks its request (`Marks`), and a request
that has written is not refused (`NoTrace` of `IInv`), so its answer is a 200, which replaces the
read on its way, or a 500, which is missed. The one read that a 200 does not replace is the first of
an order, and no request on the order is sent before that is drawn.

`UserService_proofs`, the users screens: `UsersInv` adds that a mounted screen waits for one request at most, that a
request whose form is open is the one of that form, that a deactivation answered with 200 has
deactivated, and that neither the list nor a fetch that has read the relation has a user whose
deactivation was acknowledged, unless the screen is away and will read the list anew when it
is back: `AddressesStayUnique`, `DeactivatedUsersLeaveTheList`,
`DeactivatedUsersStayOut`, `FormsCloseByTheirAnswer`, for any number of admins, users and requests.

`UserService_proofs`, the sessions: `SessionInv` adds that a device logs in only while it has no token and that a
401 was given to an expired token: `SessionsTypeCorrect`, `SessionsEndByExpiry`.

`OrderDesk_proofs`, for the abstract desk: `TypeCorrect`, `ClosedIsReady`, `EndIsFinal`, and
`TablesFollow` when nobody sets tables by hand. `RowsInv` is the schema, the foreign key and
`ClosedMeansReady`, which needs no further strengthening: only open orders get items, and a ready
item keeps its status. `IInv` adds that orders have tables.

`DeskRefinement_proofs`, for a server with one worker (`OneWorker`) and any rows and routes.
`AloneInv` adds to `IInv` what nobody else can undo: the row the handler holds *is* the row of the
database until the handler writes it, an order about to be closed has nothing that is not ready,
the table about to be freed has no other active order (`Current`). From it
`PatchesKeepOtherFields` and `NotesKeepQuantities`, with failures. Every statement of a request is
then a step of the desk or stutters there: the mapped table (`tables` as it will be) hides the gap
between the order's write and its table's (`DeskStep`, one lemma per handler). The exception is
`GiveUp`, a request that fails between these two writes: its table is not what the desk has.
Hence `ServerIsTheDesk` without failures (`~Faults`).

What was proved of the desk then holds of the server. Its orders and items do not depend on the
tables (`RowsInv` of `OrderDesk_proofs`), and a failure leaves them, so `AloneClosedIsReady`, which
`close_race` refutes for two workers, and `AloneEndIsFinal` hold with failures.
`AloneTablesFollow`, between two requests, needs `~Faults` and that no client sets tables by hand.
The restrictions are what the properties are about: the runs and the paragraph below show what two
workers do, and a failure between the two writes leaves a table that does not follow.

`ProductsScreen_proofs`. `ScreenInv`, for any number of admins, says what a pending request
asks of its worker (`Carries`: the row the screen would take for stored is the row the handler
would write) and whose form it belongs to: `ScreenTypeCorrect`, `FormsCloseByTheirAnswer`.
`SavedInv` adds, for one admin (`OneAdmin`), that a request answered with 200 has stored its row
(`AwaitedFits`), and that an acknowledged row stands unless a newer request of the same screen
has replaced it (`Superseded`) or one that the screen gave up is still running (`Abandoned`);
that the list, or the fetch that has read the relation, shows it (`StoredFits`). Then
`AcknowledgedSavesStay` and `RestingListsShowSaves`. `OneAdmin` is in the meaning of these two
properties: another admin may change the product at any time, and no code of the screen is there
to prevent it.

Every invariant and action property that the runs check is thus a theorem. Only model-checked
is what depends on fairness, `EveryRequestAnswered`, `BoardCatchesUp`, `SpinnerEnds` and
`ExpiredSessionEnds`: liveness and ENABLED are outside the prover.

The server with several workers does *not* implement the desk: `close_race` is one way it
fails. With two workers an order placed while another one at the table ends may also find its
table set free, and two status requests that both read an open order may leave it sent after it
was cancelled. What remains true then is what `RestaurantAPI_proofs` shows.

What the screens do not promise shows in the exceptions of their properties. An order that is left,
or whose creation was not heard of, is lost for every device (`LostOrderStaysLost`), and its table
stays occupied; it can still lose items, with their product. A cart at rest goes on drawing items
that were deleted with their product, and how far the kitchen was when it was read. A save that is
acknowledged while the first list is loading is not drawn, nor is one, or a deactivation, that is
answered while the screen is away and a fetch on its way. A save
sent after the screen was left and opened again runs beside the earlier one. A form dismissed while
its request is pending closes the next form when the answer comes. None of these contradicts a
text of the repository, so they are recorded as hazards in `PROJECT.json`, not as findings.

## Not modelled

- `DashboardScreen` and the admin `TablesScreen`: they draw polled lists and decide nothing, and so
  do the list of tables and the menu of the waiter screens (a product the menu offers may be
  deleted or not available). `useUpdateOrderItem` has no screen. The logout buttons are
  `Sessions!Logout`.
- Presentation components (`TableCard`, `StatusBadge`, ...), styles and alerts: no state.
- Start-up and shutdown: a request cut short by a shutdown is an outcome of `StatementFails`; the
  pool and `Shutdown` itself belong to libraries. CORS, logging: no state.
- Roles: the server does not enforce them and they decide only which screens are drawn.
- Malformed bodies, ids and tokens; the width of `INT` and `NUMERIC(10,2)`.

## Plan

Done, in this order:

1. `RestaurantModel`, `Repository`, `Requests`, the services, `RestaurantAPI`; server runs.
2. `OrderDesk`, `DeskRefinement`: what the server promises, and where one worker keeps it.
3. Proofs about `RestaurantAPI` and `OrderDesk`.
4. `KitchenBoard`: the screen over the server.
5. `Sessions`.
6. `WaiterScreens`: the cache of the order screen, the orders that are lost.
7. `AdminForm`, `ProductsScreen`, `UsersScreen`: forms that outlive their rows, requests that
   outlive their forms.
8. Proofs about the locks, the kitchen board, the waiter screens, the users screens, the sessions.
9. Proofs about the refinement of the desk, what a failure leaves of it, the products screen, the
   carts at rest.

Left:

10. The orphan order: an invariant relating tables and orders that holds with failures and
    separates the orders no client was told of.
