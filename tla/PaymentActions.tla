--------------------------- MODULE PaymentActions ---------------------------
(***************************************************************************)
(* TransactionActionService.doAction on one stored transaction, run by     *)
(* several requests at once.  A request is one call of doAction: an HTTP   *)
(* request of a merchant, the legacy API or an admin, or a message that    *)
(* asks for a third-party action.  The http server and the consumer run in *)
(* several replicas each, and nothing locks the transaction between the    *)
(* read that the validators see and the history entry that the next        *)
(* validator will see: every await of doAction is a step of its own here.  *)
(*                                                                         *)
(* The payment provider (an RPC to a payment microservice, or HTTP to the  *)
(* third-party payments service) is outside the repository: it executes a  *)
(* call or refuses it, and its answer may be lost.                         *)
(***************************************************************************)
EXTENDS ActionAmounts

CONSTANTS
    Requests,       \* calls of doAction
    Jobs,           \* what a request may ask for
    Identifiers,    \* the articles of the transaction's cart
    Cart,           \* the quantity of each article
    Total,          \* transaction.total
    Fees,           \* the sums of delivery_fee and payment_fee that occur
    InitialFees,
    ThirdParty,     \* is the type one of ThirdPartyPaymentsEnum?
    Statuses,       \* the payment statuses that occur
    InitialStatus,
    Sizes,          \* amounts a provider may pick when the payload names none
    Serial          \* do the callers wait for one request before the next?

\* TransactionActionsToThirdPartyActions: what the third-party caller accepts.
ThirdPartyActions == {"return", "refund", "authorize", "capture", "shipping_goods", "cancel",
    "edit", "edit_delivery", "edit_reference", "verify", "upload", "send_signing_link"}

PaymentActionsEnum == ThirdPartyActions \cup
    {"change_amount", "collection", "late_payment", "paid", "remind"}

NoAction == "none"

Job == [action: PaymentActionsEnum \cup {NoAction}, payload: Payload(Identifiers),
        skipValidation: BOOLEAN]

ASSUME ParametersAssumption ==
    /\ Jobs # {} /\ Jobs \subseteq Job
    /\ Cart \in [Identifiers -> Nat]
    /\ Total \in Nat \ {0}
    /\ Fees \subseteq Nat
    /\ InitialFees \in Fees
    /\ ThirdParty \in BOOLEAN
    /\ InitialStatus \in Statuses
    /\ Sizes \subseteq Nat
    /\ Serial \in BOOLEAN

VARIABLES
    tx,         \* the stored transaction
    pc,         \* where each request is
    job,        \* what it asks for, its payload as mutated so far
    snapshot,   \* the transaction as it was read for the request
    disturbed,  \* the requests during which another writer changed status or fees
    checked,    \* the amount its validators saw, 0 if they saw none
    answer,     \* the status and the fees in the provider's answer
    todo,       \* the listeners of PaymentActionAfter that have not run yet
    moved,      \* at the provider: the amount executed for the request
    charged,    \* at the provider: the requests it executed
    shipped,    \* at the provider: the quantity captured of each article
    entries,    \* the requests with a history entry
    subtracted, \* the requests with a transactions.event.payment.subtract
    notified    \* the requests with a transactions_app.payment.updated

requestVars == <<pc, job, snapshot, disturbed, checked, answer, todo>>
providerVars == <<moved, charged, shipped>>
eventVars == <<entries, subtracted, notified>>
vars == <<tx, requestVars, providerVars, eventVars>>

NoJob == [action |-> NoAction,
          payload |-> [amount |-> 0, wrapped |-> 0, itemised |-> FALSE, items |-> <<>>,
                       updated |-> FALSE, update |-> <<>>],
          skipValidation |-> FALSE]

Running == {"calling", "properties", "items", "next", "status", "after", "listeners"}
Stopped == {"done", "rejected", "failed", "crashed"}
Listeners == {"history", "statistics", "update"}

InFlight == {r \in Requests : pc[r] \in Running}

\* The amount of the history entry of r.
EntryAmount(r) == AmountFromPayload(job[r].action, job[r].payload, Total)

Init ==
    /\ tx = [status |-> InitialStatus, fees |-> InitialFees, tally |-> EmptyTally,
             captured |-> [id \in Identifiers |-> 0],
             refunded |-> [id \in Identifiers |-> 0]]
    /\ pc = [r \in Requests |-> "idle"]
    /\ job = [r \in Requests |-> NoJob]
    /\ snapshot = [r \in Requests |-> [status |-> InitialStatus, tally |-> EmptyTally]]
    /\ disturbed = {}
    /\ checked = [r \in Requests |-> 0]
    /\ answer = [r \in Requests |-> [status |-> InitialStatus, fees |-> InitialFees]]
    /\ todo = [r \in Requests |-> {}]
    /\ moved = [r \in Requests |-> 0]
    /\ charged = {}
    /\ shipped = [id \in Identifiers |-> 0]
    /\ entries = {}
    /\ subtracted = {}
    /\ notified = {}

-----------------------------------------------------------------------------
(* One request, step by step.                                              *)

\* The validators of PaymentActionBefore, all on the transaction as read.
PassesValidation(j) ==
    /\ AmountIsChecked(j.action, j.payload, j.skipValidation)
         => ValidAmount(j.action, j.payload.amount, Total, tx.tally)
    /\ AmountMatchesItems(j.action, j.payload)
    /\ ItemsAllowed(j.action, j.payload, Cart, tx.captured, tx.refunded)

\* The route loads the transaction, doAction unpacks it and dispatches
\* PaymentActionBefore; nothing else is read until the provider is called.
Receive(r) ==
    /\ pc[r] = "idle"
    /\ Serial => InFlight = {}
    /\ \E j \in Jobs :
        /\ snapshot' = [snapshot EXCEPT ![r] = [status |-> tx.status, tally |-> tx.tally]]
        /\ \/ /\ PassesValidation(j)
              /\ pc' = [pc EXCEPT ![r] = "calling"]
              /\ job' = [job EXCEPT ![r] = [j EXCEPT !.payload =
                            Adjusted(j.action, j.payload, tx.fees, Total, tx.tally)]]
              /\ checked' = [checked EXCEPT ![r] =
                    IF AmountIsChecked(j.action, j.payload, j.skipValidation)
                    THEN j.payload.amount ELSE 0]
           \/ /\ ~PassesValidation(j)
              /\ pc' = [pc EXCEPT ![r] = "rejected"]
              /\ job' = [job EXCEPT ![r] = j]
              /\ UNCHANGED checked
    /\ UNCHANGED <<tx, disturbed, answer, todo, providerVars, eventVars>>

\* The payload as the listeners see it once the call has been prepared: only the
\* messaging path writes into it.
Kept(j) == IF ThirdParty THEN j.payload ELSE Unwrapped(j.action, j.payload)

\* The fields as they leave for the provider.
Sent(j) == IF ThirdParty THEN j.payload ELSE Dispatched(j.action, j.payload)

\* The provider executes the call: the amount it is sent or, when the fields name
\* none, an amount of its own.
Execute(r) ==
    LET fields == Sent(job[r]) sent == AmountSent(job[r].action, fields) IN
    /\ job' = [job EXCEPT ![r].payload = Kept(job[r])]
    /\ charged' = charged \cup {r}
    /\ \E amount \in IF sent # 0 THEN {sent} ELSE Sizes :
            moved' = [moved EXCEPT ![r] = amount]
    /\ shipped' = IF job[r].action = "shipping_goods"
                  THEN [id \in Identifiers |-> shipped[id] + ItemQuantity(fields.items, id)]
                  ELSE shipped

SupportedByCaller(action) == ThirdParty => action \in ThirdPartyActions

Answer == [status: Statuses, fees: Fees]

\* runPaymentRpc or executeThirdPartyRequest, and the answer comes back.
CallProvider(r) ==
    /\ pc[r] = "calling"
    /\ SupportedByCaller(job[r].action)
    /\ Execute(r)
    /\ \E a \in Answer : answer' = [answer EXCEPT ![r] = a]
    /\ pc' = [pc EXCEPT ![r] = IF ThirdParty THEN "status" ELSE "properties"]
    /\ UNCHANGED <<tx, snapshot, disturbed, checked, todo, eventVars>>

\* Mutant of ProviderRefuses: the error is swallowed.
MutantRefusalSwallowed(r) ==
    /\ pc[r] = "calling"
    /\ pc' = [pc EXCEPT ![r] = "after"]
    /\ UNCHANGED <<tx, job, snapshot, disturbed, checked, answer, todo, providerVars, eventVars>>

\* The call ends in an error, answered with a BadRequestException: the caller
\* does not support the action, the payload cannot be prepared (no payment
\* option), or the provider refuses.
ProviderRefuses(r) ==
    /\ pc[r] = "calling"
    /\ pc' = [pc EXCEPT ![r] = "failed"]
    /\ UNCHANGED <<tx, job, snapshot, disturbed, checked, answer, todo, providerVars, eventVars>>

\* The provider executes the call and its answer is lost (an RPC timeout, a
\* broken connection): the same BadRequestException.
AnswerLost(r) ==
    /\ pc[r] = "calling"
    /\ SupportedByCaller(job[r].action)
    /\ Execute(r)
    /\ pc' = [pc EXCEPT ![r] = "failed"]
    /\ UNCHANGED <<tx, snapshot, disturbed, checked, answer, todo, eventVars>>

\* A write of status and fees, as the requests in `others` notice it.
Disturb(others) ==
    disturbed' = IF tx'.status # tx.status \/ tx'.fees # tx.fees
                 THEN disturbed \cup others ELSE disturbed

\* applyPaymentProperties: the answer's amount, delivery fee, status, reference
\* and place overwrite the stored ones under the lock; an empty amount throws.
ApplyPaymentProperties(r) ==
    /\ pc[r] = "properties"
    /\ \/ /\ tx' = [tx EXCEPT !.status = answer[r].status, !.fees = answer[r].fees]
          /\ pc' = [pc EXCEPT ![r] = "items"]
       \/ /\ pc' = [pc EXCEPT ![r] = "failed"]
          /\ UNCHANGED tx
    /\ Disturb(InFlight \ {r})
    /\ UNCHANGED <<job, snapshot, checked, answer, todo, providerVars, eventVars>>

\* applyPaymentItems: the answer's cart, the same articles, under the lock taken
\* a second time; then the next action, when the answer asks for one.  When this
\* second write fails the first one stays, and no listener hears of the action.
ApplyPaymentItems(r) ==
    /\ pc[r] = "items"
    /\ \E next \in {"next", "after", "failed"} : pc' = [pc EXCEPT ![r] = next]
    /\ UNCHANGED <<tx, job, snapshot, disturbed, checked, answer, todo, providerVars, eventVars>>

\* runNextAction: an external capture over RPC, which may fail.
RunNextAction(r) ==
    /\ pc[r] = "next"
    /\ \E next \in {"after", "failed"} : pc' = [pc EXCEPT ![r] = next]
    /\ UNCHANGED <<tx, job, snapshot, disturbed, checked, answer, todo, providerVars, eventVars>>

\* Mutant of ApplyThirdPartyResult: the answer is compared with the status the
\* transaction had when it was created.
MutantComparesWithInitialStatus(r) ==
    /\ pc[r] = "status"
    /\ tx' = IF answer[r].status # InitialStatus
             THEN [tx EXCEPT !.status = answer[r].status] ELSE tx
    /\ pc' = [pc EXCEPT ![r] = "after"]
    /\ Disturb(InFlight \ {r})
    /\ UNCHANGED <<job, snapshot, checked, answer, todo, providerVars, eventVars>>

\* updateTransactionFromThirdPartyResult: the status is stored only when the
\* answer differs from the status read before the call; the write may fail.
ApplyThirdPartyResult(r) ==
    /\ pc[r] = "status"
    /\ \/ /\ tx' = IF answer[r].status # snapshot[r].status
                    THEN [tx EXCEPT !.status = answer[r].status] ELSE tx
          /\ pc' = [pc EXCEPT ![r] = "after"]
       \/ /\ answer[r].status # snapshot[r].status
          /\ pc' = [pc EXCEPT ![r] = "failed"]
          /\ UNCHANGED tx
    /\ Disturb(InFlight \ {r})
    /\ UNCHANGED <<job, snapshot, checked, answer, todo, providerVars, eventVars>>

\* Mutants of DispatchAfter: a listener was left out of EventListenersList.
MutantNoHistoryListener(r) ==
    /\ pc[r] = "after"
    /\ pc' = [pc EXCEPT ![r] = "listeners"]
    /\ todo' = [todo EXCEPT ![r] = Listeners \ {"history"}]
    /\ UNCHANGED <<tx, job, snapshot, disturbed, checked, answer, providerVars, eventVars>>

MutantNoStatisticsListener(r) ==
    /\ pc[r] = "after"
    /\ pc' = [pc EXCEPT ![r] = "listeners"]
    /\ todo' = [todo EXCEPT ![r] = Listeners \ {"statistics"}]
    /\ UNCHANGED <<tx, job, snapshot, disturbed, checked, answer, providerVars, eventVars>>

\* doAction reads the transaction again and dispatches PaymentActionAfter.
DispatchAfter(r) ==
    /\ pc[r] = "after"
    /\ pc' = [pc EXCEPT ![r] = "listeners"]
    /\ todo' = [todo EXCEPT ![r] = Listeners]
    /\ UNCHANGED <<tx, job, snapshot, disturbed, checked, answer, providerVars, eventVars>>

Finish(r, listener) ==
    /\ pc[r] = "listeners"
    /\ listener \in todo[r]
    /\ todo' = [todo EXCEPT ![r] = @ \ {listener}]

\* Mutant of PushHistory: every action gets a tally.
MutantTalliesEveryAction(r) ==
    /\ Finish(r, "history")
    /\ tx' = [tx EXCEPT !.tally = [a \in TalliedActions \cup {job[r].action} |->
                (IF a \in DOMAIN tx.tally THEN tx.tally[a] ELSE 0)
                    + (IF a = job[r].action THEN EntryAmount(r) ELSE 0)]]
    /\ entries' = entries \cup {r}
    /\ UNCHANGED <<pc, job, snapshot, disturbed, checked, answer, providerVars, subtracted, notified>>

\* Mutant of PushHistory: the history that was read is extended and saved.
MutantSavesReadHistory(r) ==
    /\ Finish(r, "history")
    /\ tx' = IF job[r].action \in TalliedActions
             THEN [tx EXCEPT !.tally = [snapshot[r].tally EXCEPT
                        ![job[r].action] = @ + EntryAmount(r)]]
             ELSE tx
    /\ entries' = entries \cup {r}
    /\ UNCHANGED <<pc, job, snapshot, disturbed, checked, answer, providerVars, subtracted, notified>>

\* HistoryRecordEventListener: $push of the entry under the lock.
PushHistory(r) ==
    /\ Finish(r, "history")
    /\ tx' = IF job[r].action \in TalliedActions
             THEN [tx EXCEPT !.tally[job[r].action] = @ + EntryAmount(r)]
             ELSE tx
    /\ entries' = entries \cup {r}
    /\ UNCHANGED <<pc, job, snapshot, disturbed, checked, answer, providerVars, subtracted, notified>>

\* StatisticsEventListener: an event for a refund, none for a return.
ProcessRefundedTransaction(r) ==
    /\ Finish(r, "statistics")
    /\ subtracted' = IF job[r].action = "refund" THEN subtracted \cup {r} ELSE subtracted
    /\ UNCHANGED <<tx, pc, job, snapshot, disturbed, checked, answer, providerVars, entries, notified>>

\* SendTransactionUpdateEventAfterActionListener: the update for the checkout.
SendTransactionUpdate(r) ==
    /\ Finish(r, "update")
    /\ notified' = notified \cup {r}
    /\ UNCHANGED <<tx, pc, job, snapshot, disturbed, checked, answer, providerVars, entries, subtracted>>

\* A listener throws: the caller gets a 500, and what is left undone stays so.
ListenerFails(r) ==
    /\ pc[r] = "listeners"
    /\ todo[r] # {}
    /\ pc' = [pc EXCEPT ![r] = "failed"]
    /\ UNCHANGED <<tx, job, snapshot, disturbed, checked, answer, todo, providerVars, eventVars>>

Respond(r) ==
    /\ pc[r] = "listeners"
    /\ todo[r] = {}
    /\ pc' = [pc EXCEPT ![r] = "done"]
    /\ UNCHANGED <<tx, job, snapshot, disturbed, checked, answer, todo, providerVars, eventVars>>

\* The replica that serves r goes down; nobody resumes its requests.
Crash(r) ==
    /\ pc[r] \in Running
    /\ pc' = [pc EXCEPT ![r] = "crashed"]
    /\ UNCHANGED <<tx, job, snapshot, disturbed, checked, answer, todo, providerVars, eventVars>>

\* PAYMENT.UPDATE overwrites what the checkout knows better: status, fees, and the
\* articles that have been captured, which nothing else writes.
PaymentUpdated ==
    /\ \E status \in Statuses, fees \in Fees :
          tx' = [tx EXCEPT !.status = status, !.fees = fees, !.captured = shipped]
    /\ Disturb(InFlight)
    /\ UNCHANGED <<pc, job, snapshot, checked, answer, todo, providerVars, eventVars>>

-----------------------------------------------------------------------------

Proceed(r) ==
    \/ CallProvider(r) \/ ProviderRefuses(r) \/ AnswerLost(r)
    \/ ApplyPaymentProperties(r) \/ ApplyPaymentItems(r) \/ RunNextAction(r)
    \/ ApplyThirdPartyResult(r) \/ DispatchAfter(r)
    \/ PushHistory(r) \/ ProcessRefundedTransaction(r) \/ SendTransactionUpdate(r)
    \/ ListenerFails(r) \/ Respond(r)

Next ==
    \/ \E r \in Requests : Receive(r) \/ Proceed(r) \/ Crash(r)
    \/ PaymentUpdated

Spec == Init /\ [][Next]_vars

\* A request that was received goes on: every RPC and HTTP call ends, with an
\* answer or an error.  Nothing makes a request arrive or a replica crash.
Fairness == \A r \in Requests : WF_vars(Proceed(r))

FairSpec == Spec /\ Fairness

-----------------------------------------------------------------------------
(* Properties.                                                             *)

Tally == [TalliedActions -> Int]
Quantities == [Identifiers -> Int]

\* Every variable has its type; a history only has entries of known actions to
\* add up, and only requests that reached the provider have left a trace there.
TypeOK ==
    /\ tx \in [status: Statuses, fees: Fees, tally: Tally,
               captured: Quantities, refunded: Quantities]
    /\ pc \in [Requests -> {"idle"} \cup Running \cup Stopped]
    /\ job \in [Requests -> Job]
    /\ snapshot \in [Requests -> [status: Statuses, tally: Tally]]
    /\ disturbed \subseteq Requests
    /\ checked \in [Requests -> Int]
    /\ answer \in [Requests -> Answer]
    /\ todo \in [Requests -> SUBSET Listeners]
    /\ moved \in [Requests -> Int]
    /\ charged \subseteq Requests
    /\ shipped \in Quantities
    /\ entries \subseteq Requests
    /\ subtracted \subseteq Requests
    /\ notified \subseteq Requests

\* The requests whose history entry counts for the given action.
EntriesOf(action) == {r \in entries : job[r].action = action}

\* Whatever the interleaving, the amounts the virtual fields add up are those of
\* the entries pushed so far: no concurrent $push is lost, and the payload that
\* an entry was computed from is not changed after it.
TallyIsSumOfEntries ==
    \A a \in TalliedActions :
        tx.tally[a] = SumFunctionOnSet([r \in Requests |-> EntryAmount(r)], EntriesOf(a))

\* A payload whose amount the validators saw is the amount of the action: there
\* is no wrapper and there are no items to replace it afterwards.
ValidatedPayload(r) ==
    checked[r] # 0 /\ job[r].payload.wrapped = 0 /\ ~job[r].payload.itemised

\* What is refunded is at most what was paid, and what is captured is at most
\* what was paid and not refunded.
Fits(action, tally) ==
    /\ action = "refund" => AmountRefunded(tally) <= Total
    /\ action = "shipping_goods" => AmountCaptured(tally) + AmountRefunded(tally) <= Total

\* The validators do their work through all the steps and computations between
\* them and the entry, the fee of a last capture included: if the history is
\* still the one they saw, the entry of a validated request fits the total.
FreshValidatedActionsFit ==
    [][\A r \in entries' \ entries :
          (ValidatedPayload(r) /\ tx.tally = snapshot[r].tally)
              => Fits(job[r].action, tx'.tally)]_vars

\* A merchant who gets a success answer finds all of it done: the money moved,
\* the entry in the history, the checkout told, and the statistics corrected if
\* and only if it was a refund.
AnsweredRequestsAreComplete ==
    \A r \in Requests : pc[r] = "done" =>
        /\ r \in charged \cap entries \cap notified
        /\ r \in subtracted <=> job[r].action = "refund"

\* Executed by the provider, a request gets its entry, unless the caller is told
\* of an error or the replica went down.
ChargesAreRecorded ==
    \A r \in Requests :
        r \in charged ~> (r \in entries \/ pc[r] \in {"failed", "crashed"})

\* The request names an amount, and not only where the history does not look.
NamesItsAmount(r) ==
    /\ AmountSent(job[r].action, Sent(job[r])) # 0
    /\ ~NamedElsewhere(job[r].action, job[r].payload)

\* doAction keeps the books of ActionLedger: whichever place of the payload names
\* the amount, what prepareActionFields sends and what getAmountFromPayload makes
\* of the payload after it are the same.  Captures that name their amount in
\* capture_funds and edits are out: the history looks in neither place.
Ledger == INSTANCE ActionLedger WITH
    named <- [r \in Requests |-> IF r \in charged /\ NamesItsAmount(r) THEN moved[r] ELSE 0],
    executed <- charged,
    recorded <- entries,
    noted <- [r \in Requests |-> IF r \in entries THEN EntryAmount(r) ELSE 0]

ImplementsLedger == Ledger!Spec

\* No transaction is refunded, in its history, beyond what was paid for it.
RefundsWithinTotal == AmountRefunded(tx.tally) <= Total

\* The same of captures.
CapturesWithinTotal == AmountCaptured(tx.tally) <= Total

\* The captures in the history never add up to more of an article than the cart
\* has.
CapturesWithinCart ==
    \A id \in Identifiers :
        SumFunctionOnSet([r \in Requests |-> ItemQuantity(job[r].payload.items, id)],
                         EntriesOf("shipping_goods")) <= Cart[id]

\* An answer is stored, its status and on the messaging path its fees, even when
\* it repeats what the transaction had before other requests changed it: only a
\* writer that comes between the read and the answer can keep it from the books.
AnswerIsApplied ==
    \A r \in Requests \ disturbed :
        pc[r] \in {"items", "next", "after", "listeners"} =>
            /\ tx.status = answer[r].status
            /\ ~ThirdParty => tx.fees = answer[r].fees

\* Every job that refunds or captures names an amount that the validators look
\* at and nothing replaces.
JobsAreValidated ==
    \A j \in Jobs : j.action \in {"refund", "return", "shipping_goods"} =>
        /\ AmountIsChecked(j.action, j.payload, j.skipValidation)
        /\ j.payload.wrapped = 0
        /\ ~j.payload.itemised
============================================================================
