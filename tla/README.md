# A formal model of the transactions micro service

This directory holds TLA+ specifications of the service in `src/`: a NestJS
application that keeps the merchants' view of payments. It stores transactions in
MongoDB, copies them to two Elasticsearch indexes, runs refunds, captures and
other actions at payment providers, and tells the rest of the platform about
changes over RabbitMQ. TLC checks the specifications on small instances, and
TLAPS proves the safety properties for all of them.

## The system

The service starts as five kinds of process (`src/src/http.ts`, `ws.ts`,
`consumer.ts`, `cron.ts`, `cli.ts`). The http server and the consumer run in 5 to
20 replicas each (`.helm/values.yaml`), a consumer handles one message at a time,
and they share nothing but MongoDB, Elasticsearch, RabbitMQ and Redis. The only
lock, `Mutex` on Redis, is held for a single MongoDB write.

| Component | State | Operations | Talks to |
|---|---|---|---|
| Payment actions (`transaction-action.service`, `messaging.service`, `third-party-caller.service`, validators, event listeners) | none of its own: the transaction's status, fees, items and history | `doAction`, `updateStatus`, fake actions of examples | payment micros by RPC or HTTP, transaction store, statistics, checkout |
| Checkout events (`transaction-events.controller`, `statistics.service`) | the queue | `PAYMENT.CREATE`, `PAYMENT.UPDATE`, `PAYMENT.REMOVE`, `PAYMENT.SUBMIT` | transaction store, statistics |
| Transaction store and search index (`transactions.service`, `transaction-elastic.listener`, `folder-documents.listener`) | the collection, two indexes | create, update, push history, remove, apply an answer | MongoDB, Elasticsearch |
| Index maintenance and bulk loops (`commands/`, `exporter.service`) | none: loops over collection or index | export, rebuild, compare, fix; replay to other services; files | MongoDB, Elasticsearch, RabbitMQ |
| History and migration events (`history-events.controller`, `migrate-events.controller`, `internal-transaction-controller`) | the history | `ACTION.COMPLETED`, `HISTORY.ADD`, migration, internal refund | transaction store, statistics |
| Shipping and mails (`shipping-bus-messages.controller`, `mailer-bus-messages.controller`, `producer/`) | the shipping order's mark, the history | order processed, label or slip downloaded, mail sent | transaction store, mailer |
| Example transactions (`transactions-example.service`, `sample-products.service`) | examples, sample products | create, remove, fake actions | transaction store, statistics |
| Payment flows and seller names (`payment-flow.service`, `flow-events`, `auth-events`) | the flows, a field of the transaction | upsert, removal; question and answer about a name | transaction store, auth |
| Lists and search (`elastic-search.service`, `mongo-search.service`, the filters, the routes of business, user and admin) | none | filter, search, count, sum | MongoDB, Elasticsearch |
| Exported files (`exporter.service`, `export-transactions.controller`, its message) | the export messages | count, answer directly or by a link | Elasticsearch, media, mailer |
| Reports (daily report, monthly reports, cron) | none | aggregate and send | MongoDB, RabbitMQ |
| Third-party messages, legacy API | none | start `doAction` | payment actions |
| Payment options, converters, web sockets, integrations, proxies | none, or lists of labels | copy, forward | |

What makes it hard is that nearly everything interesting happens between two
awaits: a request validates what it has read, calls a provider, and writes several
times afterwards, while other requests and messages do the same. What makes each
component correct:

- *Payment actions*: the money that was moved, the history, the events and the
  answer agree, whatever overlaps, fails or crashes; no more is refunded or
  captured than was paid.
- *Checkout events*: nothing sent is lost, the last message wins, the statistics
  hear of what each message changes, a redelivered message does not block the
  queue.
- *Search index*: each index ends up with the stored document.
- *Bulk loops*: every document is dealt with once, although the collection changes
  under them, and they end.
- *History events*: no entry is lost to a redelivery, a refund of the service is not
  counted again when the provider tells of it, a migration announces what the history
  leaves of the amount.
- *Shipping and mails*: who has a processed order gets the mail about it.
- *Examples*: gone when the first real transaction has come, and the statistics hear of
  each once, and of its removal after it was found.
- *Seller names*: a name asked for arrives, and stays.
- *Lists and exports*: nobody sees the transactions of others; both engines find the
  same ones; an export that was accepted arrives.
- *Reports*: nothing is counted twice or left out, no day belongs to two months or none.

## The modules

| Module | What it is |
|---|---|
| `ActionAmounts` | the pure part of an action: virtual amounts, validators, the amount of the action and of its history entry |
| `PaymentActions` | `doAction` by several requests on one transaction, with the provider; composes `ActionAmounts` |
| `ActionLedger` | what `doAction` promises: executed once at most, recorded once at most, for the amount sent to the provider |
| `PaymentActionsProofs` | theorems about `PaymentActions`, and that it implements `ActionLedger` |
| `CheckoutEvents` | the messages about one payment, from checkout, providers, shipping and mailer, the queue and its consumers |
| `CheckoutEventsProofs` | theorems about `CheckoutEvents` |
| `SearchIndex` | the writes of one transaction and its two copies |
| `SearchIndexProofs` | theorems about `SearchIndex` |
| `PagedScans` | the loops over pages |
| `PagedScansProofs` | theorems about `PagedScans` |
| `BusinessLifecycle` | examples, flows and seller names of one business, over bus and http |
| `SearchFilters` | the pure part of lists: every filter in MongoDB and in Elasticsearch, amounts in the index, the filters the controllers add |
| `Calendar` | the pure part of monthly reports: JavaScript's `setDate` and `setMonth`, the period of a report |
| `Readouts` | lists, exports, the daily and the monthly reports while transactions come and go; composes `SearchFilters` and `Calendar` |
| `ReadoutsProofs` | theorems about `Readouts` |
| `BusinessLifecycleProofs` | theorems about `BusinessLifecycle` |
| `Sums` | lemmas about sums over finite sets, for the proofs |
| `MC*` | the instances for TLC |

### PaymentActions

One transaction and several requests. A request is one call of `doAction`; each
await that another process can get in between is a step.

| Steps of a request | Code |
|---|---|
| `Receive` | the route has read the transaction; `PaymentActionBefore` with the three validators on that snapshot; the amount is adjusted for a capture |
| `CallProvider`, `ProviderRefuses`, `AnswerLost` | `runPaymentRpc` or the HTTP call; the provider executes and answers, refuses, or executes without the answer arriving |
| `ApplyPaymentProperties`, `ApplyPaymentItems`, `RunNextAction` | what `MessagingService` stores of an RPC answer, in two writes, and its next action |
| `ApplyThirdPartyResult` | what `ThirdPartyCallerService` stores: the status, if it differs from the one read before |
| `DispatchAfter` | `findModelByUuid` and the dispatch of `PaymentActionAfter` |
| `PushHistory`, `ProcessRefundedTransaction`, `SendTransactionUpdate`, `ListenerFails` | its listeners |
| `Respond`, `Crash` | the answer to the caller; the end of the replica |
| `PaymentUpdated` | `PAYMENT.UPDATE` of the checkout, which overwrites status, fees and item quantities |

`tx` is the document: status, the sum of its fees, and per action the sum of the
amounts in its history, which is all that the virtual fields read. `moved`,
`charged` and `shipped` are the provider's books; `entries`, `subtracted` and
`notified` the effects so far. `disturbed` notes requests during which another
writer changed what they have read.

The amount of an action is computed in two places, and the model keeps them apart. On
the way to the provider, `Sent` is what `prepareActionFields` makes of the payload
(`Unwrapped` in the payload itself, the lines of an edit in a copy) with the amount that
`runAction` takes from `capture_funds`, and `AmountSent` is what these fields name to the
provider. After the answer, `AmountFromPayload` is what the history listener finds in the
payload that is left. `ImplementsLedger` says that the two are the same, and `NamesItsAmount`
where they are not: the listener looks neither at `capture_funds` of a `capture` nor at
`payment_update` of an `edit`, so that such an entry has the whole total.

Abstractions. Amounts are whole cents. The history is its sums. The listeners run
in any order: the order is that of the event dispatcher, which is not in the
repository. A provider executes the amount it is sent, or one of its own if it is sent
none; which of several fields it reads first is not in the repository (`AmountSent`
puts the payment's own amount first, then the plain one, the wrapped one, the items). Its
answer keeps the articles of the cart, and an answer
without status repeats the old one. A removal of the transaction in the middle of
an action is in `CheckoutEvents`.

### CheckoutEvents

One transaction's messages in a durable queue with several consumers. A message is
taken, handled in the steps of its handler and acknowledged; when a consumer goes
down it comes again, before the messages sent after it; when a handler throws it
goes to the dead letters. `log` has all messages in the order they were sent, and the
queue is the set of the places of those that wait: the first is next, and one that comes
again goes back to its place.

| Message | Steps |
|---|---|
| `PAYMENT.CREATE` | `CreateTransaction`, `RemoveBusinessExamples` |
| `PAYMENT.UPDATE` | `ReadExisting` and `Announce` once per method of `StatisticsService`, `UpdateByUuid`: it publishes by comparison and then writes |
| `PAYMENT.REMOVE` | `RemoveByUuid` |
| `PAYMENT.MIGRATE` | `FindMigrated`, `CreateOrUpdate`, `UpdateHistoryByUuid`, `ProcessMigrated` |
| `PAYMENT.SUBMIT` | `OnTransactionSubmitted`: an invoice by mail, unless the payment did not succeed |
| `ACTION.COMPLETED`, `HISTORY.ADD` | `OnActionCompleted` or `OnHistoryAdd`, `PushHistoryRecord` |
| label or slip downloaded, mail sent | `OnShippingDocumentDownloaded` or `OnPaymentMailSent`, `PushHistoryRecord` |
| shipping order processed | `OnShippingOrderProcessed`, `SetShippingOrderProcessed`, `ProduceShippingEvent`, which may fail |
| internal refund | `HandleInternalRefund`; `Announce` has sent it |

| An action of the service | Code |
|---|---|
| `BeginOwnAction` | the route has read the transaction |
| `StoreAnswer` | the provider has answered: `applyPaymentProperties` stores status and amount, `updateTransactionFromThirdPartyResult` a status that differs from the one read |
| `RecordOwnAction`, `SubtractOwnRefund` | the history entry, and the event for the statistics if it is a refund |

`PaymentActions` has this action in detail; here it writes the same document between any
two steps of any handler, and may stop after each step. `MailSent` is the mailer.
`stored`, `amount`, `type`, `history` and `processed` are the document; `existing` is what a
handler has read of it, `told`, `published`, `migrated` and `mails` what went out.
`disturbed` notes the consumers during whose handling somebody else wrote status or amount,
`overtaking` the messages taken while an earlier one was still handled, `answered` that the
status is a provider's answer: the properties name with them the interleavings under which
the code keeps its promise.

The others send in the order of a script, and nothing in the queue keeps an update after
its create: several services send over several exchanges, and several consumers read.

Abstractions. An entry of the history is an action and an amount, and a message about
one action has one. A message has the amount `Total`. The examples of the
business are there or not: `BusinessLifecycle` has them one by one. The notifier and the
request for the seller name at the end of `create` touch no state of this model. There is
one action of the service at a time; two are what `PaymentActions` is about.

### SearchIndex

A writer is one write of one handler: it stores a version under the lock, and its
two listeners put that version in their index later, in any order, or never. The
methods of `TransactionsService` differ in what they do when there is no document
and in whether they dispatch at all. `rivals` notes what was still on its way to an
index at the last write. Elasticsearch applies writes in the order they arrive.

### PagedScans

Six loops, each of which counts and then reads page after page until it has seen as
many. `scan` chooses the loop: three write the index from MongoDB (`es:export`, with
and without `remove_old`, and `es:business-update`), one sends messages
(`transactions:export` and `export:blank-migrate`), one deletes orphans from the
index (`es:fix-diff`, `es:business-check`), one writes a file (`exportToFile`).
Meanwhile the service creates, updates and removes transactions, changes document
and copy in one step, and may change whether a transaction meets the criteria of
the loop. `counted`, `added`, `left`, `between` and `raced` note, from the count on, what
was counted, came, went, came before something already there or read, and changed between
a read and its write: the properties say for which of these changes a loop keeps its
promise. Pages are cut by rank, the number of the transactions that come before one.
Times of creation are distinct, Elasticsearch shows writes at once, and a
file starts at page 1. A page beyond `max_result_window` is refused; what the client
makes of that error is not in the repository, and an empty page instead would make
`fix-diff` run for ever rather than fail.

### BusinessLifecycle

Messages come in any order, as they do from several exchanges, and wait in a set;
requests come over http. A handler takes one step per write or event.

| Steps | Code |
|---|---|
| `CreateExample`, `SendAddEvent` | `createBusinessExamples` for the sample products of a business, or the route that triggers an example |
| `CreatePayment`, `AskSellerName`, `ListExamples`, `RemoveExample`, `SendRemoveEvent` | `PAYMENT.CREATE`: the insert, the question about the seller, `removeBusinessExamples` |
| `ListExamples` to `SendRemoveEvent` | the business was removed |
| `RunFakeAction`, `DoFakeAction`, `SaveExample` | a fake action, whatever the example's status: the route has read the example, the statistics are told, the document is saved |
| `HandleFlow` | `FLOW.CREATE`, `.UPDATE`, `.MIGRATE`, `.REMOVE` |
| `Answer`, `FindUnnamed`, `SetSellerName` | the auth service's answer, and `updateMany` |
| `Fail`, `Crash` | a listener, the database, the index or the broker throws between two steps, and the rest of the handler is skipped; or its consumer goes down, and the message comes again |

`log` has for each uuid, in order, what the statistics are told (`add`, `remove`,
`subtract`) and when a handler found it as an example to remove. Two handlers that overlap
find the same example and announce its removal twice, and the log shows both. `broken`
has the tasks that did not come to their end, at the step where they broke off.

Abstractions. A transaction is whether it is an example, its status and its seller's
name; one business. A flow is stored once, its seller or nothing. A create that comes
again in the same handler is a dead letter, as in `CheckoutEvents`.

### Readouts

A request, one of four kinds, is answered while transactions come and go. Both engines
know of a change at once: `SearchIndex` is about when they do.

| Steps | Code |
|---|---|
| `QueryPart`, `AnswerList` | `getResult` of either search service asks for rows, sums, counts and distinct values at once, each with the filters that the controller has completed |
| `CountForExport`, `ReturnDocument` | a file is counted first: refused, answered directly, or left to a message |
| `ConsumeExport`, `ReadForLink`, `StoreFileInMedia`, `MediaFails`, `SendEmailToDownloadFileByLink`, `Crash` | the message: read, upload, mail with a link |
| `TodayByCurrency`, `BeforeTodayByCurrency`, `TodayByOption`, `BeforeTodayByOption`, `ProduceDailyReport` | the four queries of the daily report |
| `ExportMonthly`, `ExportTransactionWidget`, `NextDay` | the cron job, the command, and the clock |

`SearchFilters` evaluates a filter on a document in the terms of each engine: what
`mongo-filters` and `elastic-filters` build, `addFilters` with its early return on a filter
without value, the values that `DoubleValueProcessor` multiplies, and the amounts that
`TransactionDoubleConverter` packs. The two are written apart and compared.

An export asks an index of the folders plugin, in which every document has the fields `userId`
and `scope` as well: `userId` is what `folders.config.ts` names, the `user_uuid`, and one
document of each scope is kept. A user's export sets `userId` and `scope` and leaves a
`user_uuid` of the client's as it is, a business's sets `business_uuid` and `scope`.

Abstractions. An amount is cents. `TooSmall` has the amounts whose floating-point number
times 100 falls below the whole cent, as 1.15 * 100 does, and `TooLarge` those of which it
falls above, as 1.1 * 100 = 110.00000000000001 does; amounts in the terms of the index are
kept in half cents, so that both show. The index truncates what it stores, and a filter's
value is not truncated: an equality with an amount of `TooLarge` finds nothing there.
A word is a sequence of letters, one lower-case word, so that
Elasticsearch's analysis does not matter. A sum is the set of the transactions summed, so
that it is right when the set is. A time is hours, a day `DayLength` of them; months are
numbered through and have the lengths the instance gives them. Sorting and pages of a
list, and exchange rates, are left out.

## The runs

| Run | Checks | Shows |
|---|---|---|
| `actions_overlap` | `TypeOK`, `TallyIsSumOfEntries`, `AnsweredRequestsAreComplete`, `FreshValidatedActionsFit`, `ChargesAreRecorded`, `ImplementsLedger` | two overlapping requests over RPC, every kind of payload and of place for its amount, refusals, lost answers, failures, crashes, updates by the checkout |
| `actions_serial` | `RefundsWithinTotal`, `CapturesWithinTotal`, `AnswerIsApplied`, `AnsweredRequestsAreComplete` | the third-party path, which compares with the status read before, one request at a time with amounts the validators see: the history never goes beyond the total |
| `over_refund` | `RefundsWithinTotal`, violated | two overlapping refunds are validated on the same history |
| `over_capture` | `CapturesWithinCart`, violated | an article is captured twice before `PAYMENT.UPDATE` |
| `events_consumers` | `TypeOK`, `LastMessageWins`, `UpdatesAreAnnounced`, `HistoryKept`, `NoRefundCountedTwice`, `MigratedAmountsAreNet`, `ProcessedIsMailed`, `QueueDrains` | two consumers, one of which goes down, scripts with every kind of message, an action of the service at any time; with fairness, no message blocks the queue |
| `events_replicas` | `UpdatesTellOfTheirChanges`, violated | two consumers: the statistics miss an accepted payment |
| `events_own_status` | `StatusChangesAreAnnounced`, violated | one consumer: the service stores the provider's status itself, and the statistics never hear of it |
| `index_sync` | `TypeOK`, `OnlyRivalsOverwrite`, `LoneWritesAreIndexed` | three writes in any order, with failures |
| `paged_scans` | `TypeOK`, `RewritesCatchUp`, `NothingTwice`, `NothingMissed`, `FinishedChecksClean`, `ReachableCountsEnd` | six loops over every small collection and index, one change meanwhile |
| `fix_diff` | `ChecksClean`, violated | the command moves the pages it has not read |
| `business_lifecycle` | `TypeOK`, `StatisticsKnowExamples`, `PaymentsClearExamples`, `RemovedStaysRemoved`, `NameSetOnce`, `SellerNameArrives` | two consumers and a request, one of which fails or goes down between two steps: six sets of messages in any order |
| `readouts` | `OnlyOwnTransactions`, `EnginesAgree`, `DailyReportCountsOnce`, `MonthsReportedOnce`, `AcceptedExportsArrive` | lists of every asker with every condition, exports of every size and format, the daily report of every set of transactions, a year of monthly reports |

The five violated properties are what a message, a test or a comment of the
repository says; `findings` in `PROJECT.json` quotes them. Each property of the
other runs has a mutant, a version of one definition with a plausible bug in it,
under which TLC finds the property violated; it stands before that definition.

### Bounds

- *Two requests* are the one that acts and the one whose effects it has not seen; a
  third adds nothing to a pair of a stale read and a write. A total of 4 and refunds
  of 3 make one fit and two not; captures of 3 of a rest of 4 with a fee of 1 hit the
  test that adds the fee. The totals are checked on the third-party path, whose status is the
  only thing an answer writes; the theorems have them on both. Two units of one article let a
  capture be part of the cart.
- *Two consumers* are the one that is at an earlier message and the one that takes the next.
  *Two to four messages* per script cover accepted, paid, refunded and cancelled, an update
  before its create, one told of twice and one before the removal, and a migration before and
  after other entries; one crash lets any handler be interrupted and its message come again
  while the other consumer goes on. One action of the service, a refund or a capture, on either
  path, is enough for a write and an entry that come between any two steps.
- *Three writers* are the last one, the one it overlaps, and one whose copy was there
  before.
- *Three transactions in pages of two* make full, short and empty pages, one
  transaction more can be created, and the window is three pages. The same
  invariants held with pages of one and with two changes. `MaxPage` is not reached
  before the window in any instance, as in the source, where 1000 pages of 1000 are
  beyond `max_result_window`.

- *Two examples, two payments of one flow, two answers* with different names make two
  removals, two answers and a removal with an action overlap, on two consumers; one task that
  breaks off (`MaxBroken`) does so at any of its steps, the others after it come to their end.
- *Five transactions, one of which comes or goes* during a request: two businesses, two
  users, an example, three currencies, a creation at midnight, and an amount on each side of
  the whole cent. Every condition is tried with one and with two values in a business's list,
  and filters without value, or on the controllers' own fields, in everybody's. Limits of
  1 (merchants) and 2 (admins) for direct answers and 2 for pdfs make every branch of
  `checkPdfLimit` happen with five transactions. Twelve months with the lengths of a common
  year, every day of them, and three months back reach February from each month after it.

Runs set `CHECK_DEADLOCK FALSE` because all these systems may stop: requests end,
scripts are sent, loops finish.

### Fairness

- `PaymentActions`: weak fairness of each request's own next step. Node runs a
  pending continuation, and a provider's call has a timeout; a crash or a failure
  stays possible at each step, and then the request has ended.
- `CheckoutEvents`: weak fairness of each consumer's taking and handling. Nothing
  makes the checkout send or a consumer crash, and the service's own action may come, and
  stop after any of its steps, or not.
- `BusinessLifecycle`: weak fairness of each consumer, of a request that has begun, and of
  the auth service's answer, which is a message of its own. Requests need not come, and
  nothing need fail.
- `Readouts`: weak fairness of the consumer of exports. The upload may always be refused,
  without any fairness: the library waits for the media service or gets an error.
- `SearchIndex`: weak fairness of the listeners of a dispatch that has begun.
- `PagedScans`: weak fairness of the loop. It may be aborted by an error at any
  point, and the liveness properties allow for that.

## The proofs

`PaymentActionsProofs` proves for any set of requests, jobs, cart, total, fees and
statuses, from the assumptions named in the modules:

- `TypeCorrect`: `TypeOK` is an invariant. `AppliedInv` and the others need it.
- `ActionsImplementLedger`: with `LedgerInv`, which relates where a request is to what
  it has left behind (before the provider: nothing; after: executed; after
  `PushHistory`: an entry), every step is a step of `ActionLedger` or a stutter. The
  amount moved and the amount noted are computed from different payloads (`Sent`, `Kept`) by
  different functions (`AmountSent`, `AmountFromPayload`); `FoundIsSent` compares them, and
  `LedgerInv` keeps what is left of the payload until the listener reads it.
- `FreshEntriesFit`: `ValidatedFits` carries what the validators found on the snapshot,
  through the adjustment for fees, to the entry.
- `SerialRefundsFit`, `SerialCapturesFit`: if `Serial` and all jobs are such that the
  validators see their amounts, the snapshot is still current when the entry is pushed
  (`SerialInv`), so neither refunds nor captures exceed the total, although a last capture
  carries a fee that no validator has seen. `over_refund` has no such premise and fails. Both
  are about the history: an answer that is lost moves money no history has, and the next
  request is validated without it.
- `TalliesAreSums`: the tally per action is the sum of the entries that requests pushed. An
  entry that is pushed adds its amount, and the order of the others does not matter.
- `AnswersAreComplete`: `CompleteInv` ties the listeners still to run to the effects that
  are missing.
- `AnswersAreApplied`: `AppliedInv` keeps the answer in the document as long as no one
  else writes.

`Sums` has the lemmas this needs of the sums of the community modules, by induction over
the least number in a set of sizes: the library's induction theorems take an operator, its
theorem that every well-founded relation has a minimum does not.

`CheckoutEventsProofs` proves for any number of consumers, any messages in any order, any
actions of the service and any number of crashes, from `ScriptsAssumption`, every safety
property of `events_consumers` but `MigratedAmountsAreNet`:

- `TypeCorrect`: with the types, a message that is handled is not waiting (`HeldOnce`).
- `LastMessageStands`: by `LastInv` a message about the status that overtook none has none
  before it left, and if it is the last one, what it asks for is stored once its handler has
  written, unless its handler failed or a provider's answer came after it. `StepInv` says which
  steps belong to which kind of message, `LogInv` what can be in the log, and `Moved` what one
  step may do to waiting, handled and overtaking messages.
- `UpdatesTellStatistics`: `ToldInv`, while nobody else writes status or amount, has what a
  handler read as what is stored, so that when it writes it has told of exactly that change.
  Whoever does write marks the busy handlers (`Disturbs`); `events_replicas` and
  `events_own_status` show what becomes of their updates.
- `HistoryIsKept`: `KeptInv` says of every entry that has to stay that it is there or that the
  handler of its message will still push it, and of the service's own entry that no message
  that takes entries away was pending; a migration replaces the history by its own.
- `RefundsAreCountedOnce`: by `RefundInv` the one refund in the history is the service's own,
  no step to come pushes another, and no second event is due for it.
- `ProcessedOrdersAreMailed`: `MailInv` keeps the message about an order that is marked and
  not mailed about pending, or with the dead letters, whatever crashes.

`PagedScansProofs` proves for any transactions, size of pages, limit of pages, window and
number of changes, from `ScansAssumption`, every safety invariant of `paged_scans`:

- `TypeCorrect`: with `PhaseInv`, what counters and page are in each phase.
- `NothingIsSentTwice`: the ranks of a finite set are the numbers below its size, each once
  (`RanksAreTaken`), and a page is the transactions with ranks in an interval. `TwiceInv`: as
  long as nothing came in between, what was sent has a rank below the next page's, and a
  removal only lowers ranks.
- `NothingIsMissed`: `PrefixInv`, while nothing went and nothing came in between, has what was
  counted as the first of what is read; `PlaceInv` keeps the counter from running ahead of the
  pages; by `MissedInv` what has a rank below the next page's was sent, so that a counter
  that reaches the total leaves nothing out.
- `IndexCatchesUp`: `RewriteInv` has every copy below the next page as it is stored, but for
  those changed between the read of their page and its write.
- `ChecksThatEndAreClean`: the check deletes from what it pages over, but once it has
  deleted, fewer copies are left than it counted, and it cannot end. By `CheckInv`, while
  nothing is added, it has looked at every rank below the next page's as long as all it
  counted is there, so a page that completes the count holds the last orphans; if all that
  was counted fits a page, that page holds them. The run `fix_diff` has what it does instead
  of ending.

`SearchIndexProofs` proves for any set of writers that `TypeOK` is an invariant
(`SearchIndexTypes`) and that a copy which is behind holds what one of the rivals of the
last write wrote (`CopiesLagBehindRivals`). The strengthening says the same of every
listener that is still to run.

`ReadoutsProofs` proves for any transactions, requests, limits, length of the day and
lengths of months between 28 and 31:

- `OnlyOwnTransactionsAreRead`: a filter the controller sets replaces whatever the client
  sent for the field and has a value, so it applies in both engines. `OwnInv` adds the rows
  that the consumer has read and not yet mailed; `RequestInv` says which steps and
  variables belong to which kind of request.
- `EnginesAlwaysAgree`: of plain filters, by condition and kind of field. `IsPlain` has the
  amounts under which the engines do agree: not of `TooSmall`, and not of `TooLarge` where a
  condition compares with the value itself. It rests on the assumption that amounts without
  cents are exact times 100 in binary (`ExactAmounts`), which is why `between`, of which
  MongoDB drops the cents, agrees for whole ends only, and on `IsRequest`: amounts and times in
  filters are numbers.
- `DailyReportsCountOnce`: `DailyInv` says what each of the four queries has left of the
  transactions that stay. What the first finds is of today, so the second adds it to
  nothing; a currency the first two saw is still there for the options.
- `MonthsAreReportedOnce`: the first and last day of a report, for any day it is made on, by
  the cron job (`LastMonthCovered`) and by the command (`ReportLength`); `MonthInv` ties the
  reports made to the clock.

`BusinessLifecycleProofs` proves for any consumers, requests, payments, flows, names,
catalogue and messages, from `LifecycleAssumption`: uuids of payments are no numbers drawn
for examples, messages have the shapes the controllers read, and no consumer is a request.

- `LifecycleTypesHold`: `LifecycleInv` says what a task is about at each of its steps, by the
  message it came with, and that the uuids it removes, announces or saves are drawn ones.
- `NamesAreSetOnce`: removals and fake actions only reach drawn uuids, never a payment, and
  the update for an answer looks for the name again.
- `RemovedExamplesStayRemoved`: `RemovedInv` says that what a consumer is about to announce
  as removed is gone too, so the event is about something that no step brings back.
- `StatisticsAreComplete`: by `StatisticsInv` each example is announced once, by the worker
  that stored it, and every consumer that found it announces its removal once: in the log the
  removals announced and those still owed are as many as the times it was found. Where less
  was announced, a task that broke off was about this example (`Spoiled`). `CountOfOneMore` and
  `CountsAndRanges` have what one event more does to the counts.
- `PaymentsClearAllExamples`: `ClearingInv` has, for every example that is due to a payment
  whose handling did not break off, its consumer still to look for examples or with this one
  before it. It holds however many consumers remove the same examples at once.

So every safety property of a run that passes is proved but `MigratedAmountsAreNet`, which
would need sums over histories that other handlers change meanwhile. Also only
model-checked are the liveness properties and the fairness they rest on, which TLAPS
cannot treat: `ChargesAreRecorded`, `LoneWritesAreIndexed`, `QueueDrains`,
`ReachableCountsEnd`, `SellerNameArrives`, `AcceptedExportsArrive`. The properties of the
five runs that find a violation are false.

## Not modelled, and the plan

What is left, in this order; `hazards` in `PROJECT.json` says where each of them bites.

1. The third-party action message, which calls `doAction` and may be delivered again: a
   repeated request of `PaymentActions`. `updateStatus` stores an answer as an action does and
   pushes no entry: in `CheckoutEvents` it is an own action that stops after `StoreAnswer`.
2. `es:compare`, a further loop of `PagedScans`.

Left out for good, because no state that a property could be about depends on them: the
layout of csv, xlsx and pdf files and of mails; sample products, drawn at random; payment
options, one upsert per message; the actions a payment micro offers, which are read
and shown; exchange rates, and the sums by business and user of a monthly report, which
are single queries; routes that only read and check access, the web socket gateway,
proxies and integrations. MongoDB, Elasticsearch, RabbitMQ and the libraries `@pe/*` are
outside the repository and appear as what the code assumes of them.
