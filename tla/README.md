# Verification of the SnelStart order app

The repository is a monorepo: a web client (`apps/web`), an API (`apps/api`,
NestJS and MongoDB), a worker (`apps/worker`, BullMQ on Redis) and a shared
package. Sales staff and customers put products into a cart and send it as an
order; the API keeps the order in MongoDB and queues a job; the worker posts the
order to the SnelStart ERP and mails the customer. This directory holds TLA+
modules of the parts where steps interleave or fail, the TLC runs that check
them, and TLAPS proofs about the core.

Contents: [inventory](#inventory), [modules](#modules), [runs](#runs),
[bounds](#bounds), [fairness](#fairness), [proofs](#proofs),
[disagreements](#where-the-code-and-its-documents-disagree),
[abstractions](#abstractions-and-what-is-not-modelled), [plan](#plan).

## Inventory

| Component | State | Operations | Hard behaviour | What makes it correct |
|---|---|---|---|---|
| Order intake (`orders.service.ts`) | the `LocalOrder` documents | create, update, retry, delete, confirm by hand, reorder, lists | idempotency by look-up and unique index; save and `queue.add` are two calls; retries next to live jobs | one document per key, no order without somebody who will sync it, no second ERP order |
| Queue (BullMQ, Redis) | jobs, attempts, stalls | add, take, complete, fail, requeue | a job runs more than once | every job ends |
| Worker (`order-sync.processor.ts`, `order-post-sync.ts`) | its copy of the document | load, authorise, POST, save, audit, mail | the POST is not idempotent; one catch block for everything after it | SYNCED means linked; one ERP order, one mail |
| SnelStart client (`snelstart.client.ts`) | slots of the limiter | requests with retry on 401, 429, 5xx | recursion on 401, a shared refresh | every request ends; one stale token stays hidden |
| Connection settings (`connection-settings.*`) | settings documents with credentials and token | save, test, refresh | two database calls per save; a refresh that outlives the settings it read | one active document, a token of its own key, no expired token sent |
| Cart page (`CartPage.tsx`) | idempotency key and in-flight flag, in refs | submit, callbacks | lost replies, proxy timeouts, the page left and opened again | a cart is ordered once, nothing vanishes |
| Cart store (`cartStore.ts`, `authStore.ts`) | items, child items, per user in localStorage | add, remove, quantities, log in, log out, reload | two tabs on one store; the change of user; parents and children | parts follow their product, carts of users never mix, no change is lost without a cause |
| Status toasts (`useOrderSyncTransitionToasts.ts`) | previous statuses, in refs | poll, open, change the filter | old entries of the query cache, late answers, another order in the same page | one toast per end of a sync, and a true one |
| Prices (`pricing.service.ts`, `price-override.ts`, `priceOverride.ts`) | rules, cached quotes, the user's policy, the cart line | quote, put into the cart, give a price, reorder, submit | a quote outlives the price it was made of; two sides that round and judge on their own | the price of the rules, and no order refused or taken for an override without a cause |
| Catalogue (`products.service.ts`, `categories.service.ts`) | product rows, flags, three caches | full and delta sync, product page, hide, show, list | find-then-create, caches filled from flags read before, the newest `lastSyncedAt` | hidden stays hidden, a delta sync skips nothing |
| Customers (`customers.service.ts`, `cache.service.ts`) | ERP records, rows, cached lists and customers | create, update, delete, read, list, sync | a whole record that was read before is written back; a sync nobody waits for | no lost edit, the database follows the ERP, the caches the database |
| Notifications (`notifications.service.ts`) | reminders | the daily round | every API process makes it; an error ends a round | a reminder for every delivery |
| Accounts (`users.service.ts`, `EditUserPage.tsx`) | role, permissions, price limit | create, edit (two requests), delete, own profile | reads and saves that cross; half an edit | limit and permission go together, customers stay customers |
| Pictures (`images.service.ts`, `AdminImagesPage.tsx`) | mapping document, displayed picture | add, choose, delete, replace all | a Mixed list that Mongoose does not watch; deletions sent together | what is shown is listed, one picture, one cover |
| Reports, mail settings, company info, audit, texts, pages, deployment | – | input, output, layout | little of their own | – |

They interact like this: the cart page calls `POST /orders`; the API inserts
the document and adds the job; the worker reads and writes the same document
and calls the ERP, with a token of its own; the API's own calls of the ERP go
through the client, which takes its token from the connection settings. The
document in MongoDB is the state that the API, the worker and staff share; the
settings document is the one that requests, refreshes and admins share. The
other parts meet the orders by values only: a price, a customer, a status; their
own state is between one page, one service, one collection and one cache each.

## Modules

| Module | Models |
|---|---|
| `OrderSync` | create, retry, delete and confirm in `orders.service.ts`; the BullMQ job; `OrderSyncProcessor.process`; `order-post-sync.ts`; `createSnelStartVerkooporder` |
| `OrderEdits` | `updateOrder` beside `OrderSync`: the items in documents, runs and ERP orders |
| `OrderLedger` | the promise of intake and sync, without queue, worker or faults |
| `Connection` | `connection-settings.service.ts` and its controller, `requestWithRetry`, the interceptor and `testConnection` of the client |
| `Checkout` | `CartPage` against `POST /orders`, with the cart store as a set of items |
| `CartStore` | `cartStore.ts` in the tabs of one browser, over `authStore.ts` |
| `SyncToasts` | the order pages' queries and both toast hooks |
| `Prices` | a product's price from the ERP to the judgement of an order |
| `Catalog` | product and category syncs, visibility, three caches |
| `Customers` | `customers.service.ts`, its background sync and its caches |
| `Reminders` | the delivery reminders of several API processes |
| `Accounts` | one account of `users.service.ts` and the page that edits it |
| `Images` | the pictures of a product or category, and the page that replaces them |
| `MCOrderSync`, `MCOrderEdits`, `MCConnection`, `MCCheckout`, `MCImages`, `MCPrices` | the small instances TLC runs |
| `MCTokens` | an instance of `Connection` for the tokens: two requests, or a request and an admin |
| `MCWeb` | an instance of `Checkout`, `CartStore`, `SyncToasts`, `Images` |
| `MCBackOffice` | an instance of `Customers`, `Catalog`, `Prices`, `Reminders`, `Accounts` |
| `OrderSyncProofs`, `OrderLedgerProofs`, `OrderPostProofs` | theorems about `OrderSync` |
| `OrderEditsProofs` | theorems about `OrderEdits` |
| `ConnectionProofs`, `CustomersProofs` | theorems about the module of that name |
| `WebProofs` | theorems about `Checkout`, `CartStore`, `SyncToasts`, `Images` and `MCWeb`, where they run side by side |
| `OfficeProofs` | theorems about `Accounts`, `Prices`, `Reminders`, `Catalog` and `MCBackOffice`, where they and `Customers` run side by side |

The parts in `MCWeb` and `MCBackOffice` share no state in the code, so one of
them moves in each behaviour (`focus`) and the others stay as they began:
letting them interleave would multiply states and show nothing more.

**OrderSync.** An action is the code between two awaits. `order[o]` is the
document; a handler that has read it keeps a copy and saves it later.
`document.save()` of mongoose writes the modified paths only, so `run[j].dirty`
and `RetryDirty` carry them, and `Saved` merges them into the document that is
there by then. `save()` of a document that was deleted throws. `createOrder` is
`CheckKey`, `InsertOrder`, `EnqueueOrder`; `retryOrder` is `RetryLoad`,
`RetrySave`, `RetryEnqueue`; `DropRequest` and `DropRetry` are an await of
theirs that rejects, or the death of the process. The run of a job goes through
`start`, `loaded` (the SYNCED guard was read), `ready` (token in hand),
`posted`, `synced` (saved), `notified` (audit and staff mail), `mailed`, `done`;
any failure after `ready` goes to `failing`, where `SaveFailure` is the catch
block, and then `rethrow`. A failure before it goes to `rethrow` at once, since
that code stands before the `try`. `trouble[o]` is a history variable: the
faults the order met, in the terms a property needs.

**OrderEdits.** Every step of `OrderSync` is a step here (`SyncStep`), which also
records the items that a run loaded (`held`) and the ERP was given (`posted`).
`updateOrder` is `LoadEdit` (findById), `LookUp` (`getSalesOrders`, only for an
order that is linked) and `SaveEdit`; `DropEdit` is a refused price, a call that
fails or the end of the process. It writes paths that `OrderSync` never reads, so
a behaviour with edits is one of `OrderSync` (`EditsKeepSync`). `SaveEdit` is
refused when other items were saved since the load: mongoose puts the version of
the document into the filter of a save that replaces an array. `ItemsAgree` has
two parts. `ErpHasTheItems`: the ERP order has the items of the document, unless
an edit was saved while a run had the items in hand or after they were posted.
`InvoicedStays`: the items of an order that is linked to an invoiced ERP order
stay, unless the ERP could not be asked, or made the invoice while an edit was
under way or before the order was linked.

**OrderLedger.** `Accept`, `Create`, `Link`, `Remove`. `OrderSync` implements it
with the documents as records, `erp` as created orders and `snelstartOrderId`
as link. It says what no interleaving may do: two records of one key, an ERP
order of a request never accepted, a link to an order that was not created or a
link that disappears while the record is there.

**Connection.** `rows` are the settings documents in order of insertion,
`tokens` what the ERP issued. `task` holds whatever runs the save and token
functions: the one shared refresh of `refreshAccessToken` (`refreshPromise`) and
each admin. `req` is a call of the client: waiting for the limiter, with the
settings it read, waiting for the shared refresh, at the ERP, refreshing after a
401, or clearing the token in `markConnectionInvalid`. Time runs in ticks of 300
seconds because both margins of the code are 300 seconds: `saveAccessToken`
stores an expiry 300 seconds early, `tokenNeedsRefresh` compares with another 300.

**Checkout.** The cart outlives the page; `submitIdempotencyKeyRef` and
`submitInFlightRef` do not. A request has two sides: the API saves or rejects it
at any time, the page settles it at any time as success, as a gateway error
(503, 504, ECONNABORTED, shown as success) or as an error. Callbacks of a
mutation run after the page is gone, but reset only the refs of their own visit.

**CartStore.** `stored` is localStorage, `tab` the memory of each tab. A change
is made to the cart of the tab and saves it whole; only a login or a reload
reads the storage. `quantity` holds the products' lines and `parts` the child
lines, which every action recomputes as the store does. `wanted` is what the
carts would be if all changes had met in one place.

**SyncToasts.** `entries` is the query cache, which outlives pages, `answers`
the polls on their way. A page shows its entry, or what it showed before while
a new key has none (`placeholderData`). The list hook remembers a status per
order, the detail hook one status whatever the order.

**Prices.** One product and one customer. `quotes` are the Redis entries by kind
of page and by whether the customer was named; `page` and `line` are copies made
from them. `SubmitOrder` is the cart page's validation followed by the API's
(`Judge`): trusted, an override the policy allows, or refused.

**Catalog.** `visit` holds a request or a sync between two awaits: the ids of
the active categories it read, the ERP's products it loaded, the row it looked
up, the list it is about to cache. A product's `version` is the time of its
last change in the ERP, which is what a delta sync asks for.

**Customers.** A record is the set of edits it carries. Create, update and
delete are a request and the sync it leaves behind, two processes
(`Procs`); a sync loads the ERP's records and upserts them one by one. The caches are the
entries of single customers and the lists.

**Reminders.** A server's round is `FindOrders`, then `Look` and
`InsertReminder` per order; the insert that loses a race throws at the unique
index, and with it the rest of that process's round is gone.

**Accounts.** `form` is what an admin's edit page loaded; `SubmitForm` sends the
profile and, when `SaveProfile` answers it, the permissions. Each request reads
and checks (`FindUser`), then saves (`SaveProfile`, `SavePermissions`): `Save`
writes the differences between the copy and what is meant; `Accepted` refuses a
changed list of permissions when the version moved on.

**Images.** `gallery` is the mapping document, `displayed` the copy on the
product or category. Mongoose does not see a change inside a Mixed value:
`SaveAdd` pushes, `SaveCover` writes the name of the cover only, `SaveDelete`
assigns the list and is refused when the version moved on.

## Runs

| Run | Question | Answer |
|---|---|---|
| `order_sync` | What can the ERP, the customer and the document end up with, for one order and the faults it may meet? | Linked when SYNCED, confirmed only when in the ERP, one ERP order unless `DuplicateCauses`, one mail unless a save, the mail server, a crash or colliding jobs fail it, stranded only by `StrandingCauses` |
| `order_live` | Do jobs and orders come to an end, with all faults and crashes? | Yes, unless a stranding fault hit the order |
| `order_intake` | Two requests with one key at once? Two manual retries and the first job? A retry or an edit, and an edit? | One order; document and ERP order have the same items but for the causes of `ItemsAgree`; every step is a step of the ledger |
| `order_exhausted` | Is an exhausted order SYNC_FAILED, as README.md:225 says? | No |
| `checkout` (checkout) | When is a cart ordered twice, when does an item vanish? | Only after a lost reply or a submit from a reopened page; only after a gateway error or an item added in flight |
| `checkout` (cart) | What do two tabs, two users and an old cart make of the stored carts? | Parts follow products, carts never mix, and nothing is lost unless a tab saves over changes it has not read or the storage is full |
| `checkout` (toasts) | Is the end of a sync told once, and truly? | Unless a page showed an older status than the user had seen, or the detail page went to another order |
| `checkout` (pictures) | Is what is shown listed, and is there one picture? | Unless a save failed or a deletion crossed a request about its picture; unless a deletion failed, two admins overlapped or the page's list was old |
| `checkout_retry` | Does the key prevent duplicates on a retry, as README.md:66 says? | No |
| `connection` | What do two admins and a refresh leave in the settings? | One active document unless two saves overlap; a token of its key unless a switch, a gap or a test of other credentials; the environment replaces nothing but in a gap |
| `connection_tokens` | Which tokens go out, and which 401 reaches the caller, with or without an admin who saves, tests and logs in? | None expired unless it was under way for more than 300 seconds; none unless a refresh failed, there are no credentials, two tokens were withdrawn, saves overlap, or the token of a test is stored while the refresh ends with another: the caller joins that refresh and then reads the token of the test again |
| `connection_live` | Does every request end? | Yes |
| `back_office` (customers) | Do database and caches follow the ERP, do edits last? | The database unless a call or write failed or an ERP write crossed a copy; cached customers unless filled late, and lists unless a write crossed too; edits unless two updates overlap |
| `back_office` (catalogue) | Can a sync or a cache show a hidden product, can a delta sync miss one? | Never; caches only after a late fill or a lost flush; only after a page view while others were behind, an ERP edit during a sync, or a broken sync |
| `back_office` (prices) | What is asked, who is refused? | An order without a price of the user's own is judged by the rules' price and is an override only after the price moved or was quoted for nobody, or a reorder rounded it; refused only then, or after the policy moved |
| `back_office` (reminders) | Does the race of two servers cost a reminder? | No: only a failed or stopped round, or no process up at eight |
| `back_office` (accounts) | Can an edit leave a limit without its permission, or a customer with staff permissions? | Only when a request changes the account between another's read and save |
| `picture_covers` | Does a new cover unset the others, as images.service.ts:168 says? | No |
| `price_first_match` | Of several rules that match, does the first win, as pricing.service.ts:56 says? | No |

Properties of the form "unless a cause" name exactly the causes that the code
does not guard against; each list was narrowed until TLC refuted any shorter
one. They say two things: which faults the code survives, and which it does not.

Some hazards are such causes themselves. There the property documents the fault
and shows that nothing else does the same harm; it does not catch the fault
itself, which is in the code as it stands:

| Property | Hazards it names as causes |
|---|---|
| `DuplicateNeedsCause` | a lost reply (refuted by `checkout_retry`), a page left and opened again |
| `NothingVanishes` | a gateway error taken for success, an item added while a request is under way |
| `CartIsKept` | a tab that saves over what another saved |
| `SinglePicture` | deletions that cross or fail, an old list, two admins at once |
| `OneActiveRow`, `EnvNeverReplaces` | two saves at once; the gap between the two calls of a save |
| `TokenOfItsKey` | settings changed under a refresh; a test of other credentials; the gap |
| `NoEditLost` | two updates of one customer at once |
| `DatabaseFollowsErp`, `CachesFollowDatabase` | a sync that crosses a write; a repeated call that had worked; a cache filled late |
| `HiddenLeavesTheShop` | a cache filled late, a flush that is lost; the product pages of a hidden category, which it leaves out |
| `DeltaSkipsNothing` | a product page that moves the start; a change during a sync; a row that failed |

## Bounds

- `order_sync`: three attempts, one stall, one manual retry, one order. Three
  attempts give a first, a middle and a last failure; orders do not interact
  except through the idempotency key, which `order_intake` takes up with two.
  The constraint `FewFaults` keeps states in which an order met one kind of fault
  (any number of times), or several of which `AtMostOneMail` or `NeverStranded`
  says that they are harmless. Where it cuts, these two say nothing any more,
  and the other invariants are proved. `order_intake` gives up attempts and stalls
  for a second request under all kinds of fault or, of one request alone with
  one kind of fault, for a second retry, a retry and an edit, or two edits
  (`OneMatter`). Two edits are enough for one to save over another; the run
  stops where an edit came late and another cause was met, for then neither part
  of `ItemsAgree` says anything. `order_live` and `order_exhausted` allow all
  kinds of fault at once and no manual retry: that a retry resets the counter of
  the document but not that of the first job is exercised by `order_sync` only.
- `checkout`: two items, three requests, three visits: a retry of a retry, with
  an item added in between. Two tabs, two users, two products (one with parts,
  the same one hidden and in the old cart), quantities up to two, three changes:
  two tabs that each save and one that saves over both. Two orders on one of two
  lists, three statuses, three moves between pages: in progress, ended, in
  progress again. Two admins, three pictures, three acts: each replaces the
  picture and one chooses or deletes. `WebView` forgets `wanted` once the cart
  was harmed, when nothing is claimed of it.
- `back_office`: two requests with their syncs, two customers of which one
  exists, one kind of fault: every pair of a request with another or with a sync.
  Two products, one of them new, two visits, three times: a change, a sync, and
  a change the sync may miss. Three ERP prices, a fixed rule and two percentages,
  rule lists of two, one move, prices of one's own on both sides of cost: order
  and kind of rules, a price that a discount makes a fraction of a cent, and one
  so low that a reorder's rounding takes it out of what the policy allows. Two
  servers, two deliveries, two days: a race on each order. Two admins and the
  user, three requests. `OfficeClaims` cuts off states of which reminders,
  prices and accounts claim nothing any more; `OfficeView` keeps of the
  catalogue's causes what its properties ask of them.
- `picture_covers`: as the pictures in `checkout`. `price_first_match`: as the prices
  in `back_office`, with two percentage rules and no fixed price.
- `connection`: two admins, a key each and the environment's, three documents,
  two tokens, no requests: two saves and a test, or a save during a refresh. The
  clock may tick once, with one document at most and no admin at work
  (`SettingsClaims`): these properties do not speak of time. States after
  overlapping saves are cut off too, for the properties say nothing of them;
  `SettingsView` keeps the causes they ask for.
- `connection_tokens`: two requests, two tokens, one withdrawal, three ticks, a
  lifetime of three ticks: a token gets old, expires and is replaced once. The
  exception for a second withdrawn token is beyond this run; it is proved
  (`AuthErrors`) for any number of tokens. An admin moves in the behaviours that
  start so (`focus`), with one request, two documents and one tick: both
  together would be too many states. `TokenClaims` cuts off states after a slow
  token and, with an admin, the causes after which an authentication error is
  allowed; causes only grow, so no other state that the properties speak of is
  lost but those of `NoExpiredToken`, which is proved. `TokensView` keeps of the
  causes whether an authentication error is excused.
- `connection_live`: two requests on one slot, two attempts each, one
  withdrawn token. When the token bound is reached the refresh can only fail.

`CHECK_DEADLOCK FALSE` stands everywhere: the system may rest once all requests
are made, all jobs are over and the bounds are used up.

## Fairness

`OrderSync`: weak fairness of a started request, of the worker on each job, and
of a confirmation that was started. The API and the worker are event loops;
their awaits come back because MongoDB, Redis, SMTP and HTTP clients have
timeouts (Node's `fetch` gives up after 300 seconds), and BullMQ hands each
waiting job to the worker. Nobody has to retry, delete or confirm, and crashes
have no fairness. `Connection`: weak fairness of the refresh and of each
request, for the same reason; the clock, admins and the ERP's withdrawals have
none. The other modules have no liveness property: their requests are short,
and a poll or a round that does not come is what their safety properties allow.

## Proofs

Every safety property that a run finds to hold is proved too, for all values of
the constants that satisfy the named assumptions; liveness is left to TLC, but
for the measures it rests on:

- `OrderSync`: any requests and keys, any number of attempts, stalls and
  retries (`ConstantsAssumption`); `OrderEdits`: any edits of at least one order
  (`EditsAssumption`).
- `Connection`: any number of admins, requests, documents, tokens and ticks
  (`BoundsAssumption`), any lifetimes of more than one tick
  (`LifetimesAssumption`; a token that lived for the margin or less would be
  stored as expired already), and `EnvKeyAssumption`: the environment's
  credentials are not an administrator's, which is what `EnvNeverReplaces`
  tells apart.
- `Checkout`, `CartStore`, `SyncToasts`, `Images`: any items, tabs, users,
  products and parts, orders and lists, administrators and pictures, and any
  bounds (the `ASSUME`s of these modules say that bounds are numbers, that
  "nobody" is no user and no customer, that the products on the shelf are
  products, that numbers of parts are naturals, and that orders and lists are
  different things with the orders of each list given).
- `Customers`: any customers, requests and kinds of fault
  (`CustomersAssumption`). `Catalog`, `Prices`, `Reminders`, `Accounts`: any
  products, visits, prices in whole cents, rules, policies, processes,
  deliveries, administrators and requests. At least one product and one
  delivery: a process that is not at work holds some product or delivery in the
  models, and a type has no room for it in an empty set.

| Theorem | Module | Says |
|---|---|---|
| `TypeCorrect` | `OrderSyncProofs` | `[]TypeOK` |
| `OnePerKey` | `OrderSyncProofs` | `[]OneOrderPerKey` |
| `SyncedLinked` | `OrderSyncProofs` | `[]SyncedIsLinked` |
| `ConfirmedInErp` | `OrderSyncProofs` | `[]ConfirmedIsInErp` |
| `LinkKeptForever` | `OrderSyncProofs` | `LinkNeverLost` |
| `LedgerKept` | `OrderLedgerProofs` | `Spec => Ledger!Spec` |
| `OneErpOrder` | `OrderPostProofs` | `[]AtMostOneErpOrder` |
| `OneMail` | `OrderPostProofs` | `[]AtMostOneMail` |
| `NoneStranded` | `OrderPostProofs` | `[]NeverStranded` |
| `EveryJobWearsOut` | `OrderPostProofs` | `JobsWearOut` |
| `LiveJobsGoOn` | `OrderPostProofs` | `[]LiveHasWork` |
| `EditsKeepSync` | `OrderEditsProofs` | `EditSpec => Spec` |
| `ItemsStayTogether` | `OrderEditsProofs` | `[]ItemsAgree` |
| `TypeCorrect` | `ConnectionProofs` | `[]TypeOK` |
| `NoExpired` | `ConnectionProofs` | `[]NoExpiredToken` |
| `OneActive` | `ConnectionProofs` | `[]OneActiveRow` |
| `EnvComesFirst` | `ConnectionProofs` | `[]EnvNeverReplaces` |
| `OwnToken` | `ConnectionProofs` | `[]TokenOfItsKey` |
| `AuthErrors` | `ConnectionProofs` | `[]AuthErrorNeedsCause` |
| `EveryRequestWearsOut` | `ConnectionProofs` | `RequestsWearOut` |
| `TheRefreshWearsOut` | `ConnectionProofs` | `RefreshWearsOut` |
| `WaitersAreServed` | `ConnectionProofs` | `[]NobodyWaitsInVain` |
| `CheckoutTypeCorrect` | `WebProofs` | `[]TypeOK` of `Checkout` |
| `NothingIsLost` | `WebProofs` | `[]NothingVanishes` |
| `OrderedTwiceOnlyAfter` | `WebProofs` | `[]DuplicateNeedsCause` |
| `PartsAlwaysFollow` | `WebProofs` | `[]PartsFollowProducts` |
| `NoCartMixes` | `WebProofs` | `[]CartsNeverMix` |
| `EveryCartIsKept` | `WebProofs` | `[]CartIsKept` |
| `ToldAtMostOnce` | `WebProofs` | `[]ToldOnce` |
| `ToldTheTruth` | `WebProofs` | `[]ToldTruly` |
| `OnePicture` | `WebProofs` | `[]SinglePicture` |
| `ShownIsListed` | `WebProofs` | `[]PictureIsListed` |
| `CartTypesKept` | `WebProofs` | `[]CartTypeOK` |
| `ToastTypesKept` | `WebProofs` | `[]ToastsTypeOK` |
| `PictureTypesKept` | `WebProofs` | `[]ImgTypeOK` |
| `WebIsItsParts` | `WebProofs` | `WebSpec => Spec /\ CartSpec /\ ToastsSpec /\ ImgSpec` |
| `WebTypesKept` | `WebProofs` | `[]WebTypeOK` |
| `ShapeKept` | `CustomersProofs` | `[]CustTypeOK` |
| `EditsStay` | `CustomersProofs` | `[]NoEditLost` |
| `DatabaseFollows` | `CustomersProofs` | `[]DatabaseFollowsErp` |
| `CachesFollow` | `CustomersProofs` | `[]CachesFollowDatabase` |
| `TypesKept` | `OfficeProofs` | `[]AccTypeOK` |
| `StaysWhole` | `OfficeProofs` | `[]AccountIsWhole` |
| `PriceArrives` | `OfficeProofs` | `[]OrderHasRulePrice` |
| `RefusedOnlyAfter` | `OfficeProofs` | `[]RefusalNeedsCause` |
| `AllAreReminded` | `OfficeProofs` | `[]DeliveriesAreReminded` |
| `HiddenIsGone` | `OfficeProofs` | `[]HiddenLeavesTheShop` |
| `OnlyAdminsShow` | `OfficeProofs` | `HiddenStaysHidden` |
| `DeltaAsksForAll` | `OfficeProofs` | `[]DeltaSkipsNothing` |
| `PriceTypesKept` | `OfficeProofs` | `[]PricesTypeOK` |
| `ReminderTypesKept` | `OfficeProofs` | `[]RemTypeOK` |
| `CatalogTypesKept` | `OfficeProofs` | `[]CatTypeOK` |
| `OfficeIsItsParts` | `OfficeProofs` | `OfficeSpec => CustSpec /\ CatSpec /\ PricesSpec /\ RemSpec /\ AccSpec` |
| `OfficeTypesKept` | `OfficeProofs` | `[]OfficeTypeOK` |

The argument, one lemma per action or group of actions and invariant:

- *Intake* (`KnownInv`): what is stored was accepted, and an order that nobody
  accepted is not stored; with it the unique index gives `OneOrderPerKey`.
- *Links* (`LinkInv`): `SyncedIsLinked` is not inductive, because a save writes
  what a copy holds and not what is there. The strengthening says of every copy
  (`RunInv`, `CopyLinked`) that its id is at most `erp[o]`, that a copy that is
  SYNCED has one, and that a dirty status SYNCED comes with a dirty id; and of
  every document that once linked it is linked again by any save
  (`OrderLinked`). A status that is saved without an id is then PENDING_SYNC
  or SYNC_FAILED. `LinkNeverLost` and the refinement follow from the same
  invariant. A deleted order is set back to `NewDoc` (`AbsentInv`).
- *One ERP order* (`PostInv`): as long as no cause of duplication hit the
  order, at most one of its jobs is live (`OneLiveJob`), and the place of that
  job's run says how many ERP orders there are: none up to `ready`, one from
  `posted` on, and then the document is SYNCED as soon as the run has saved
  (`PostOK`). A second run of the job therefore stops at the SYNCED guard.
- *One mail* (`MailInv`): once a mail is out, the document says so, or the run
  that sent it is about to save that it did, and every run that has yet to
  decide on a mail knows of it. A copy that will save the date holds one
  (`DatedInv`): a date is never overwritten by its absence.
- *Nobody stranded* (`StrandInv`): the document has counted the failed attempts
  of the live job (`InStep`), so that the run whose attempt is the job's last
  also finds the limit of the document reached, and sets SYNC_FAILED. An order
  without a live job is then not PENDING_SYNC, unless a handler is about to add
  a job (`Awaited`).
- *Edits.* `ErpHasTheItems` (`ItemsInv`): until an edit is late, everything that
  was posted, and everything a run may still post, has the document's items.
  `InvoicedStays` (`InvoiceInv`): an edit that may go on knows that the order it
  will save is not linked to an invoiced one (`EditInformed`), and no run is
  about to link one (`NoInvoiceAtHand`). The second needs that an id which a run
  is about to save is no other run's and not the document's (`IdsInv`): what is
  invoiced while it is linked can then never be linked anew.
- *No expired token* (`TokenInv`): `NoExpiredToken` speaks of the request at
  the ERP only; the token got there through a task, a document and two copies.
  `Refs` says that the tokens and documents all of them name exist: types alone
  do not make `rows[task[t].row]` a document. `Fresh` says that a token
  in hand is at most one tick old, so that the expiry stored with it is not
  after the real one, and that a request keeps such an expiry with its token
  until it goes out. `Fresh` holds only while "slow" is no cause; since causes
  only grow, a step without "slow" after it starts from a state without it.
- *Settings* (`SaveInv`): between the two calls of a save no document is active,
  and one task at a time is there (`OneSave`); whoever is about to insert the
  environment's credentials found no document (`EnvFirst`). `TokenOfItsKey`
  (`KeyInv`): the token in hand, the active settings a task will look for and
  the document it will write to all have the key of that task (`TaskKeys`).
- *Authentication errors* (`AuthInv`): with one token withdrawn and no cause
  met, no task has a withdrawn token in hand; when the shared refresh ends the
  active settings hold its token or none (`StoredValid`), and after a second try
  the withdrawn token is out of the settings (`RetryValid`). A second 401 would
  need a second withdrawn token.
- *Checkout* (`CheckoutInv`): the orders are those of the saved requests
  (`OrdersOfSaved`) and keys are not shared (`OwnKey`), which makes the two
  properties statements about requests: what was put in is in the cart, removed,
  or in a saved request, and as long as nothing was retried one request waits
  and the baskets of those that may become orders are disjoint.
- *Cart* (`CartInv`): every operator of the store makes a cart whose parts follow
  out of one whose parts follow (a lemma for each); what is stored for a user is
  what the user's tab holds as long as no tab saved over another.
- *Toasts* (`ToastInv`): statuses alternate, so that the parity of a number says
  whether a sync is under way (`EvenNext`), and cached, shown and remembered
  statuses are real ones, not newer than now (`ShapeInv`). What the
  hooks remember is the newest status the user has seen (`ListRemembers`,
  `DetailRemembers`): a toast is then about a newer one, and the first of it.
- *Pictures.* A picture on its way is new (`NewPictures`), so that pushing it keeps
  the ids of a list different, and a deletion whose version is the gallery's has
  read the gallery's list (`CopySane`): the list it assigns is the present one
  without its picture. `SinglePicture` (`Alone`): of every listed picture an upload
  still has a deletion under way, so when the last one ended the list is empty,
  and one page at a time adds. `PictureIsListed` (`AllListed`): what is displayed
  is listed, about to be listed, or about to be replaced by something listed
  (`DisplayFollows`), and a deletion that will leave the cover alone does not
  delete the cover (`HandListed`).
- *Customers.* The types need that a PUT has the record it edits (`PutHolds`).
  `NoEditLost` (`EditsInv`): as long as no two updates of a customer overlapped,
  a process between its read and its PUT is the only one about that customer
  (`AloneWithRecord`), and the record it holds has every edit saved before
  (`RecordHasSaved`), so that writing it back loses none. `DatabaseFollowsErp`
  is about the end of all requests only; `FollowInv` says what holds on the way:
  a record in hand is the ERP's of now (`CopiesCurrent`), a row that is missing
  or old has a process that will load or holds the record (`OldRowsPending`),
  a row too many has one about to remove it (`LeftRowsPending`). With nobody
  under way nothing is pending. `CachesFollowDatabase` (`CacheInv`): what a
  reader has in hand for a cache is what the database has, or "lateFill" is on
  record; an entry that differs has a process that will yet clear or fill it
  (`WillDrop`), differing lists one that will clear them (`WillFlush`).
- *Accounts* (`WholeInv`): the account is whole, and so are the copies of
  requests, as long as none crossed another; a copy that is whole and a request
  that passed its checks give an account that is whole.
- *Prices* (`PricesInv`): while nothing moved, the quotes, the page and the line
  have the price of now, but for a rounding (`AllCurrent`); rounding twice is
  rounding once (`MoneyFacts`), so both sides judge the same number. That a
  rule's price is a number (`PriceIsNat`), for lists of any length, rests on what
  the loop over the rules comes to (`StateAfter`): the loop is a recursive
  function, and the least index at which the two would differ stands in for an
  induction, since an induction theorem cannot be instantiated here.
- *Reminders* (`RemInv`): a round has before it every order without a reminder
  (`RoundsComplete`), and there is always a process that sees its round through
  (`SomebodyIsReady`): one loses its round to a reminder that another inserted,
  and that other is still going.
- *Catalogue* (`ShopInv`): what a reader has in hand for a cache is what it would
  read now, or "lateFill" is on record. `DeltaSkipsNothing` (`DeltaInv`): a
  product that is behind will be asked for, or is in the hands of a sync whose
  copy is the ERP's of now (`SeenNow`); when `Since` moves, whoever moved it held
  everything that was behind and not asked for.
- *Jobs end* (`WorkInv`). A job has attempts and stalls left (`TriesLeft`), and its
  run steps to go (`StepsLeft`). `WorkLeft` weighs a try as much as a whole run, so a
  step of the worker lowers it, an attempt that throws and a crash too, and no
  step of a handler raises it: a retry adds a job of its own, and every job is
  added once (`AddedOnce`). A job thus takes at most `MostWork` steps, crashes
  included, and one that is live always has a step to take (`LiveHasWork`).
- *Requests end* (`LeftInv`). `RequestLeft` counts the sends of the first round and,
  until a first 401, those of a second; neither recursion of `requestWithRetry`
  gives one back, and the refresh's end lowers it for all who joined
  (`SettledNearer`). The refresh itself only comes nearer to its end. A request
  that waits for the refresh waits for one under way, because nothing ends a
  refresh but what settles its promise: the branch of `Insert` that ends a task
  without a token is never the refresh's (`OnItsWay`).
- *Wholes* (`WebIsItsParts`, `OfficeIsItsParts`): `MCWeb` and `MCBackOffice` are
  what the runs check, and every other theorem is about one part. A step of the
  whole is a step of one part and a stutter of the rest, so a behaviour of the
  whole is one of each part, and the theorems of the parts hold of the runs.
- *Types.* Four of them are not inductive and need more than the shapes:
  a detail page shows one order at most (`OneShown`), or an order it shows would
  have no status remembered; a product page that is about to write its row has
  that product in hand (`BeforeUpsert`), or it would write a row for none; a
  price of the user's own is one that he gave (`OwnGiven`); and the length of a
  list of pictures and the version of a gallery are bounded because each picture
  is added once and deleted once (`VersionBound`: the version, the pictures
  listed, and twice those to come are at most twice all the pictures).

What proofs that failed at first have shown:

- A retry that saves over a status it did not read is no cause of a second mail
  or of a stranded order: "stale" left `MailCauses` and `StrandingCauses`.
- The API refuses a price the cart page let through when a reorder rounded it and
  the user may set no price: a product of 0.04 with a discount. The run now has
  such a price, and `RefusalNeedsCause` names the case.
- Two more ways to fill a cache of the catalogue late: a product page in its
  stage "page", and ids that were kept from before a category changed. Both take
  three visits, and the run has two.
- The cached lists of customers may stay old after a write crossed a copy: a
  page that fetched an old ERP record stores it after the sync's flush, and
  starts no sync of its own. It takes three processes more than the run's two
  requests have; `CachesFollowDatabase` claims the lists without it only.
- Where the environment's key were an administrator's too, `EnvNeverReplaces`
  would fail for want of a difference: hence `EnvKeyAssumption`.

Only model-checked: liveness (`EveryJobEnds`, `EveryOrderSettles`,
`EveryRequestEnds`), which speaks of fairness, so of ENABLED, out of TLAPS's
reach. What it rests on is proved for all values of the constants: jobs, requests
and the refresh use up a bounded number of steps, and whoever has some left is
not stuck (`LiveHasWork`, `NobodyWaitsInVain`). With each of these steps
weakly fair, every job and every request ends; and an order whose jobs are over
is settled or met a stranding fault (`NeverStranded`). No run repeats these five
definitions: TLC found them to hold on the instances of `order_sync`,
`connection`, `connection_tokens` and `connection_live` before they were proved.
Properties that the code violates have a run that refutes them and no theorem.
`TypeOK` of `OrderSync` and `Connection` is proved and no run repeats it.

## Where the code and its documents disagree

1. `order_exhausted`. README.md:225: "Exponential backoff; max attempts before
   `SYNC_FAILED`". Settings, credentials and the token are resolved before the
   `try` block (`order-sync.processor.ts:83-94`). Attempts that fail there are
   not counted and never change the status: the job fails for good, and the
   order stays PENDING_SYNC without an error message.
2. `checkout_retry`. README.md:66: "**Idempotency** | UUID keys prevent duplicate
   orders on client retry". `onError` (`CartPage.tsx:382`) resets the key, so a retry
   after a lost reply carries a new one and the cart is saved twice.
3. `picture_covers`. images.service.ts:168: "If this is cover, unset others".
   The list is Mixed, so the change inside it is never written and two pictures
   are stored as covers; likewise in `setCoverImage` and
   `addCategoryImageByUrl`.

4. `price_first_match`. pricing.service.ts:56: "Apply rules in priority order
   (first match wins)". Only a fixed price ends the loop (line 61). A percentage
   is taken of the base price and the loop goes on, so that a later rule, of lower
   priority, replaces its price: of a 10 % and then a 25 % discount the
   customer gets the second. Line 64 speaks of stacking; nothing stacks.

Met while modelling, and built into the modules as the code has it, without a run:

- README.md:184 says the API rebuilds prices; `createOrder` compares the
  requested price with its own and keeps the requested one when an override is
  allowed.
- Staff see prices for nobody in particular, since no link passes a customer to the
  product pages: an order of a product with a rule is then an override, or
  refused (cause "nobody"). Customers see the rule's price and cannot put the
  product into the cart, because the page admits them the base price only.
- products.service.ts:1211 calls `Since` the last successful product sync; it is
  the newest `lastSyncedAt` of any row, and a product page sets one too (cause
  "viewed").
- useOrderSyncTransitionToasts.ts:64 promises "at-most-once toasts"; the detail
  hook keeps one ref for all orders (cause "switched").
- notifications.service.ts:126 filters on a status FAILED that nothing assigns.
- `price.override.limited` cannot be given on the edit page to an account without
  it: the profile request refuses the limit before the permission is there, and
  the permissions request refuses the permission before the limit is there. An edit whose second
  request fails after the limit was lifted leaves the account limited at 0 %.
  `updateUserPermissions` accepts full and limited together, `createUser` does not.
- A category shows every picture that is added, cover or not
  (images.service.ts:517); `deleteImage` shows the first `isCover` picture rather
  than the one `coverImageId` names; `setCoverImage` clears no cache; the worker's
  `thumbnailUrl` is never saved (Mixed again).
- company-info.service.ts "manually refreshes company info from API" by deleting
  a cache key; the row that is then found has the hash it was stored with, and
  the API is not asked.
- reports.service.ts compares figures of unfiltered current lines with previous
  lines filtered by search and profit, and labels the daily trend in UTC where
  its windows are local days.

## Abstractions and what is not modelled

- Documents keep the fields that sync reads or writes, and in `OrderEdits` the
  items, as one value. Prices, addresses, notes and texts are left out; `DRAFT`
  and `FAILED` are in the schema's enum and nothing writes them. `FailedDoc`
  keeps that a failure before the last sets PENDING_SYNC and the last
  SYNC_FAILED.
- BullMQ is modelled from the options the code gives: attempts, delayed retry
  without the delay, a jobId that is added once, one stall (its default).
  A lock that is lost while the worker still runs is not modelled.
- `deleteOrder` asks the ERP whether the order is invoiced; that is the ERP's
  state, so any order may be deleted.
- `updateOrder`: of the fields it assigns, the items and what is computed from
  them. The dialog of the web client does not send them (`OrderDetailPage.tsx:540`),
  so only other users of the API change items. The body may name any field that
  `stripProtectedOrderFields` does not remove, the status too; no client does.
- `syncOrderToSnelStart` and `notifyOrderSynced` of the API have no caller.
- `Connection`: the subscription key is taken to be right. The interceptor sends
  the environment's or that of the active settings (`snelstart.client.ts:73`),
  and with a wrong one every call answers 401 whatever the token: the request
  refreshes once, tries again and ends as an authentication error
  (`snelstart.client.ts:127-141`), a cause that `AuthErrorNeedsCause` does not
  name because no step of the model brings it about. One check of the token per
  send, microtasks run before the clock moves, a database that fails outside the
  try block of a refresh is left out, and so are the fields that only report the
  last test.
- `CartStore`: a tab reads the storage at login and reload; prices, notes and
  the customer's data on a line are left out.
- `SyncToasts`: one page is open at a time; polls come without fairness.
- `Prices`: a quote is made in one step; one customer, whose rules are the list
  `rules`; times of validity and matching of products are data.
- `Catalog`: one category; a page's upsert clears the caches in the same step;
  a sync's fetch is one step although the ERP is read in pages; the staff variant of
  the product page and a Redis that fails are left out.
- `Customers`: the lists are one entry; visits and cities are left out; a
  fetch of all customers is one step.
- `Accounts`: permissions are "staff", "full" and "limited"; a requester
  without the right is a refusal that may come; lists, names, passwords and
  activation are left out.
- `Images`: pictures are numbers; the object store and thumbnails are left out.

Not modelled at all, and why the map stays below a third of the source: two
thirds of the implementation are React pages (forms, tables, dialogs, layout),
mail texts, translations and DTOs. They keep no state that outlives a request
but what `Checkout`, `CartStore`, `SyncToasts` and the pages in `Accounts` and
`Images` model; rendering has no transition to check. Of the API, reports and
dashboards only read; the audit log is append-only; mail settings and company
info are single documents, read and written whole; cart totals
are stateless sums; health, monitoring and deployment are configuration.

## Plan

Done, in this order: `OrderSync` with its abstract `OrderLedger`, `Checkout` in
front of it, `Connection` beside it, and their first proofs; then `Customers`,
`Catalog`, `CartStore`, `SyncToasts`, `Prices`, `Reminders`, `Images`,
`Accounts`, the proofs of `Customers` and `Accounts`, and `OrderEdits` with its
proofs; then the proofs of all safety properties of the runs, of the measures
under their liveness, and that the two wholes are their parts.

Next: the mail settings (two first saves at once create two documents) and the
read marks of the notification bell.
