--------------------------- MODULE CheckoutEvents ---------------------------
(***************************************************************************)
(* The messages about one payment, and the consumers that handle them: the *)
(* controllers of transaction, history, migration, shipping, mailer and    *)
(* internal events with what they call in TransactionsService,             *)
(* TransactionHistoryService, StatisticsService, the examples and the      *)
(* producer of mail events.  Meanwhile the service runs a payment action   *)
(* of its own (see PaymentActions), which writes the same document: first  *)
(* what the provider answers, then an entry of the history.                *)
(*                                                                         *)
(* All replicas of the consumer read one durable RabbitMQ queue, one       *)
(* message at a time each.  A handler is not atomic: statistics read the   *)
(* stored status, publish an event if the message changes it, and only     *)
(* then is the transaction written.  A consumer that goes down has not     *)
(* acknowledged its message, which RabbitMQ delivers again, from its old   *)
(* place in the queue.  A handler that throws has its message go to the    *)
(* dead letter exchange.                                                   *)
(***************************************************************************)
EXTENDS Integers, Sequences, FiniteSets, Functions, FiniteSetsExt

CONSTANTS
    Consumers,      \* the replicas of the consumer
    Scripts,        \* what the others may send, a sequence of messages each
    OwnActions,     \* what the service itself may do, and what the provider answers
    Total,          \* the amount of the payment
    Statuses,       \* the payment statuses in them
    NoDocument,     \* stands for the status when nothing is stored
    MaxCrashes      \* bound: how often some consumer goes down

Accepted == "STATUS_ACCEPTED"
Paid == "STATUS_PAID"
Refunded == "STATUS_REFUNDED"
Cancelled == "STATUS_CANCELLED"
Failed == "STATUS_FAILED"
Declined == "STATUS_DECLINED"
New == "STATUS_NEW"

\* A payment method of the messaging service, whose edits are told of by messages,
\* and one of the third-party service.
SantanderPosDe == "santander_pos_installment"
Types == {SantanderPosDe, "third-party type"}

\* The actions that history entries name.
HistoryActions == {"statuschanged", "preauthorize", "capture", "edit", "refund", "cancel",
                   "shipping-label-downloaded", "email_sent"}
Entry == [action: HistoryActions, amount: 0..Total]

\* An action of the service: the entry it records, and the status and amount of the
\* payment in the provider's answer.
OwnAction == [entry: Entry, status: Statuses, amount: 1..Total]

\* PAYMENT.CREATE, .UPDATE, .REMOVE, .MIGRATE and .SUBMIT, ACTION.COMPLETED and
\* HISTORY.ADD, the shipping messages that an order is processed and that its label
\* or slip is downloaded, the mailer's that a mail is sent, and the internal event of
\* a refund.  A migration brings the whole history, those on the history one entry.
Kinds == {"create", "update", "remove", "migrate", "submitted", "completed", "added",
          "shipped", "downloaded", "mailsent", "internal"}
Message == [kind: Kinds, status: Statuses, entries: Seq(Entry)]

\* The messages that write the status, and those that take away from the history.
WriteKinds == {"create", "update", "remove", "migrate"}
ResetKinds == {"remove", "migrate"}

\* A message about one action has that action's entry.
OneEntry(m) ==
    /\ m.kind \in {"completed", "added", "downloaded"} => Len(m.entries) = 1
    /\ m.kind = "downloaded" => m.entries[1].action = "shipping-label-downloaded"

ASSUME ScriptsAssumption ==
    /\ Total \in Nat
    /\ OwnActions \subseteq OwnAction
    /\ Scripts # {}
    /\ Scripts \subseteq Seq({m \in Message :
            m.kind \notin {"internal", "mailsent"} /\ OneEntry(m)})
    /\ New \in Statuses
    /\ NoDocument \notin Statuses
    /\ MaxCrashes \in Nat

VARIABLES
    script,     \* what the others still send this time
    log,        \* the messages that went into the queue, in their order
    queue,      \* the messages waiting, as places in the log: the first is the next
    step,       \* where each consumer is in its handler
    message,    \* the message it handles
    event,      \* the kind of event it may have to publish now
    existing,   \* the status and the amount it read last
    told,       \* how often it told the statistics of a changed status
    type,       \* the payment method of the transaction
    stored,     \* the status of the stored transaction
    amount,     \* its amount
    history,    \* its history
    processed,  \* is its shipping order processed?
    own,        \* the service's own action and how far it is
    mails,      \* how many mails of each kind were asked for
    mailed,     \* how many the mailer told of
    examples,   \* has the business its example transactions?
    published,  \* how many events about refunds went out
    deadLetters,\* the messages whose handler threw
    crashes,
    \* What the properties look back on.
    disturbed,  \* consumers during whose handling another wrote status or amount
    overtaking, \* messages taken while an earlier one about the status was handled
    answered,   \* was the status last written from a provider's answer?
    expected,   \* messages whose entries the history has to keep
    migrated    \* the migrations announced

queueVars == <<script, log, queue>>
localVars == <<message, event, existing, told>>
consumerVars == <<step, localVars, disturbed>>
documentVars == <<type, stored, amount, history, processed>>
mailVars == <<mails, mailed>>
observerVars == <<overtaking, answered, expected, migrated>>
vars == <<queueVars, consumerVars, documentVars, own, mailVars, examples, published,
          deadLetters, crashes, observerVars>>

\* transactions.event.payment.add and .paid, and the internal refund event.
StatusEvents == {"add", "paid", "refund"}

\* .subtract and .refund.
RefundEvents == {"subtract", "refunded"}

MailKinds == {"invoice", "shipping"}

Steps == {"idle", "create", "examples", "read", "announce", "update", "remove",
          "migrate", "write", "history", "net", "completed", "added", "downloaded",
          "mailsent", "push", "submitted", "shipped", "mark", "mail", "internal", "ack"}

OwnSteps == {"none", "begun", "stored", "pushed", "recorded", "failed"}

Status(c) == log[message[c]].status
Entries(c) == log[message[c]].entries

\* What the entries of one action add up to.
AmountOf(entries, action) ==
    SumFunction([i \in DOMAIN entries |->
                    IF entries[i].action = action THEN entries[i].amount ELSE 0])

\* The places of the messages of some kinds.
Places(kinds) == {p \in DOMAIN log : log[p].kind \in kinds}

\* The messages that wait or are handled.
Busy == {c \in Consumers : step[c] # "idle"}
Pending == queue \cup {message[c] : c \in Busy}

\* Nothing that takes from the history is on its way.
HistoryIsSafe == Places(ResetKinds) \cap Pending = {}

Init ==
    /\ script \in Scripts
    /\ log = <<>>
    /\ queue = {}
    /\ step = [c \in Consumers |-> "idle"]
    /\ message = [c \in Consumers |-> 0]
    /\ event = [c \in Consumers |-> "add"]
    /\ existing = [c \in Consumers |-> [status |-> NoDocument, amount |-> 0]]
    /\ told = [c \in Consumers |-> [e \in StatusEvents |-> 0]]
    /\ type \in Types
    /\ stored = NoDocument
    /\ amount = 0
    /\ history = <<>>
    /\ processed = FALSE
    /\ \E a \in OwnActions :
          own = [step |-> "none", action |-> a, read |-> NoDocument, at |-> 0, safe |-> FALSE]
    /\ mails = [k \in MailKinds |-> 0]
    /\ mailed = 0
    /\ examples = TRUE
    /\ published = [e \in RefundEvents |-> 0]
    /\ deadLetters = {}
    /\ crashes = 0
    /\ disturbed = {}
    /\ overtaking = {}
    /\ answered = FALSE
    /\ expected = {}
    /\ migrated = {}

Nothing == [status |-> NoDocument, amount |-> 0]
ToldNothing == [e \in StatusEvents |-> 0]

Goes(c, to) == step' = [step EXCEPT ![c] = to]
Proceeds(c, to) == Goes(c, to) /\ UNCHANGED <<localVars, disturbed>>

\* What is stored is read.
Read(c, to) ==
    /\ existing' = [existing EXCEPT ![c] = [status |-> stored, amount |-> amount]]
    /\ Goes(c, to)
    /\ UNCHANGED <<message, event, told, disturbed>>

\* Nothing of a handling is left in the memory of a consumer.
Rests(c) ==
    /\ Goes(c, "idle")
    /\ message' = [message EXCEPT ![c] = 0]
    /\ event' = [event EXCEPT ![c] = "add"]
    /\ existing' = [existing EXCEPT ![c] = Nothing]
    /\ told' = [told EXCEPT ![c] = ToldNothing]
    /\ disturbed' = disturbed \ {c}

\* A write of status and amount, which disturbs what the others go by.
Write(status, value, others) ==
    /\ stored' = status
    /\ amount' = value
    /\ disturbed' = IF <<status, value>> = <<stored, amount>> THEN disturbed
                    ELSE disturbed \cup (others \cap Busy)

\* What a handler writes, and goes on.
Store(c, status, value, to) ==
    /\ Write(status, value, Consumers \ {c})
    /\ answered' = FALSE
    /\ Goes(c, to)
    /\ UNCHANGED localVars

\* The handler threw, and its message goes to the dead letter exchange.
DeadLetter(c) ==
    /\ deadLetters' = deadLetters \cup {message[c]}
    /\ Rests(c)

-----------------------------------------------------------------------------
(* The history entries taken from messages.                                *)

\* Mutant of AllowedHistoryActions: events of every action are listened to.
MutantAllHistoryActions == HistoryActions

\* The service records its own actions itself; of the messages it takes these.
AllowedHistoryActions == {"statuschanged", "preauthorize", "capture", "edit"}

\* An edit is recorded from ACTION.COMPLETED for one payment method only.
IsTaken(kind, entry) ==
    /\ entry.action \in AllowedHistoryActions
    /\ kind = "completed" /\ entry.action = "edit" => type = SantanderPosDe

-----------------------------------------------------------------------------
(* The others and the queue.                                               *)

\* Has the history to have the entries of m from now on?  The transaction is there,
\* or the message brings it, and nothing is under way that takes entries away.
IsExpected(m) ==
    /\ HistoryIsSafe
    /\ \/ m.kind = "migrate"
       \/ m.kind \in {"downloaded", "mailsent"} /\ stored # NoDocument
       \/ m.kind \in {"completed", "added"} /\ stored # NoDocument
          /\ IsTaken(m.kind, m.entries[1])

Enqueue(m) ==
    /\ log' = Append(log, m)
    /\ queue' = queue \cup {Len(log) + 1}
    /\ expected' = IF IsExpected(m) THEN expected \cup {Len(log) + 1} ELSE expected

\* In any order: several services send, over several exchanges.
Publish ==
    /\ script # <<>>
    /\ Enqueue(Head(script))
    /\ script' = Tail(script)
    /\ UNCHANGED <<consumerVars, documentVars, own, mailVars, examples, published,
                   deadLetters, crashes, overtaking, answered, migrated>>

FirstStep(kind) == IF kind = "update" THEN "read" ELSE kind

\* Is an earlier message about the status still handled?
Overtakes(p) ==
    p \in Places(WriteKinds) /\ \E d \in Busy : message[d] < p /\ message[d] \in Places(WriteKinds)

Take(c) ==
    /\ step[c] = "idle"
    /\ queue # {}
    /\ LET p == Min(queue) IN
       /\ queue' = queue \ {p}
       /\ message' = [message EXCEPT ![c] = p]
       /\ Goes(c, FirstStep(log[p].kind))
       /\ overtaking' = IF Overtakes(p) THEN overtaking \cup {p} ELSE overtaking
    /\ UNCHANGED <<script, log, event, existing, told, disturbed, documentVars, own,
                   mailVars, examples, published, deadLetters, crashes, answered, expected,
                   migrated>>

Ack(c) ==
    /\ step[c] = "ack"
    /\ Rests(c)
    /\ UNCHANGED <<queueVars, documentVars, own, mailVars, examples, published, deadLetters,
                   crashes, observerVars>>

\* The message goes back between the ones before and after it.
Crash(c) ==
    /\ step[c] # "idle"
    /\ crashes < MaxCrashes
    /\ crashes' = crashes + 1
    /\ queue' = queue \cup {message[c]}
    /\ Rests(c)
    /\ UNCHANGED <<script, log, documentVars, own, mailVars, examples, published,
                   deadLetters, observerVars>>

-----------------------------------------------------------------------------
(* PAYMENT.CREATE.                                                         *)

\* Mutant of CreateTransaction: a message whose handler threw is delivered again.
MutantRequeuesFailure(c) ==
    /\ step[c] = "create"
    /\ \/ /\ stored = NoDocument
          /\ Store(c, Status(c), Total, "examples")
          /\ UNCHANGED queue
       \/ /\ stored # NoDocument
          /\ queue' = queue \cup {message[c]}
          /\ Rests(c)
          /\ UNCHANGED <<stored, amount, answered>>
    /\ UNCHANGED <<script, log, type, history, processed, own, mailVars, examples,
                   published, deadLetters, crashes, overtaking, expected, migrated>>

\* uuid is unique in the collection: a second insert throws.
CreateTransaction(c) ==
    /\ step[c] = "create"
    /\ \/ /\ stored = NoDocument
          /\ Store(c, Status(c), Total, "examples")
          /\ UNCHANGED deadLetters
       \/ /\ stored # NoDocument
          /\ DeadLetter(c)
          /\ UNCHANGED <<stored, amount, answered>>
    /\ UNCHANGED <<queueVars, type, history, processed, own, mailVars, examples, published,
                   crashes, overtaking, expected, migrated>>

RemoveBusinessExamples(c) ==
    /\ step[c] = "examples"
    /\ examples' = FALSE
    /\ Proceeds(c, "ack")
    /\ UNCHANGED <<queueVars, documentVars, own, mailVars, published, deadLetters, crashes,
                   observerVars>>

-----------------------------------------------------------------------------
(* PAYMENT.UPDATE.                                                         *)

\* Each of the three methods of StatisticsService reads the transaction itself.
ReadExisting(c) ==
    /\ step[c] = "read"
    /\ Read(c, "announce")
    /\ UNCHANGED <<queueVars, documentVars, own, mailVars, examples, published, deadLetters,
                   crashes, observerVars>>

\* Mutant of IsAnnounced: the old status is not looked at.
MutantAnnouncesEveryUpdate(kind, old, new) ==
    /\ old # NoDocument
    /\ \/ kind = "add" /\ new = Accepted
       \/ kind = "paid" /\ new = Paid
       \/ kind = "refund" /\ ((old = Paid /\ new = Refunded) \/ new = Cancelled)

\* && binds tighter than || in processRefundedTransactionAfterPaid: a cancelled
\* payment is announced as refunded whether or not it was paid.
IsAnnounced(kind, old, new) ==
    /\ old # NoDocument
    /\ \/ kind = "add" /\ old # new /\ new = Accepted
       \/ kind = "paid" /\ old # new /\ new = Paid
       \/ kind = "refund" /\ ((old = Paid /\ new = Refunded) \/ new = Cancelled)

\* The method onTransactionUpdateEvent calls next, by the new status.
Following(kind, new) ==
    IF kind = "add" /\ new = Paid THEN {"paid"}
    ELSE IF kind = "add" /\ new \in {Refunded, Cancelled} THEN {"refund"}
    ELSE {}

\* An event for the statistics if the message changes the status, then the next
\* method or the write.  The event of a refund comes back to this service.
Announce(c) ==
    /\ step[c] = "announce"
    /\ IF IsAnnounced(event[c], existing[c].status, Status(c))
       THEN /\ told' = [told EXCEPT ![c][event[c]] = @ + 1]
            /\ IF event[c] = "refund"
               THEN Enqueue([kind |-> "internal", status |-> Status(c), entries |-> <<>>])
               ELSE UNCHANGED <<log, queue, expected>>
       ELSE UNCHANGED <<told, log, queue, expected>>
    /\ \/ /\ \E next \in Following(event[c], Status(c)) : event' = [event EXCEPT ![c] = next]
          /\ Goes(c, "read")
       \/ /\ Following(event[c], Status(c)) = {}
          /\ Goes(c, "update")
          /\ UNCHANGED event
    /\ UNCHANGED <<script, message, existing, disturbed, documentVars, own, mailVars,
                   examples, published, deadLetters, crashes, overtaking, answered,
                   migrated>>

\* Mutant of UpdateByUuid: the upsert is forgotten.
MutantUpdatesKnown(c) ==
    /\ step[c] = "update"
    /\ IF stored = NoDocument
       THEN Proceeds(c, "ack") /\ UNCHANGED <<stored, amount, answered>>
       ELSE Store(c, Status(c), Total, "ack")
    /\ UNCHANGED <<queueVars, type, history, processed, own, mailVars, examples, published,
                   deadLetters, crashes, overtaking, expected, migrated>>

\* Mutant of UpdateByUuid: fromCheckoutTransaction leaves the history in.
MutantUpdatesHistory(c) ==
    /\ step[c] = "update"
    /\ Store(c, Status(c), Total, "ack")
    /\ history' = Entries(c)
    /\ UNCHANGED <<queueVars, type, processed, own, mailVars, examples, published,
                   deadLetters, crashes, overtaking, expected, migrated>>

\* findOneAndUpdate with upsert, under the lock: the message's status is stored
\* whatever the transaction has become since it was read, removed included.
\* fromCheckoutTransaction takes the history out: the update leaves it alone.
UpdateByUuid(c) ==
    /\ step[c] = "update"
    /\ Store(c, Status(c), Total, "ack")
    /\ UNCHANGED <<queueVars, type, history, processed, own, mailVars, examples, published,
                   deadLetters, crashes, overtaking, expected, migrated>>

-----------------------------------------------------------------------------
(* PAYMENT.REMOVE.                                                         *)

\* What is inserted again has no history, and its order is not processed.
RemoveByUuid(c) ==
    /\ step[c] = "remove"
    /\ Store(c, NoDocument, 0, "ack")
    /\ history' = <<>>
    /\ processed' = FALSE
    /\ UNCHANGED <<queueVars, type, own, mailVars, examples, published, deadLetters,
                   crashes, overtaking, expected, migrated>>

-----------------------------------------------------------------------------
(* PAYMENT.MIGRATE.                                                        *)

FindMigrated(c) ==
    /\ step[c] = "migrate"
    /\ Read(c, "write")
    /\ UNCHANGED <<queueVars, documentVars, own, mailVars, examples, published, deadLetters,
                   crashes, observerVars>>

\* updateByUuid if the transaction was found, else create, which throws when a
\* transaction of this uuid was created meanwhile.  Neither writes the history.
CreateOrUpdate(c) ==
    /\ step[c] = "write"
    /\ IF existing[c].status = NoDocument /\ stored # NoDocument
       THEN DeadLetter(c) /\ UNCHANGED <<stored, amount, answered>>
       ELSE /\ Store(c, Status(c), Total, "history")
            /\ UNCHANGED deadLetters
    /\ UNCHANGED <<queueVars, type, history, processed, own, mailVars, examples, published,
                   crashes, overtaking, expected, migrated>>

\* updateHistoryByUuid has no upsert; what it returns for a removed transaction
\* makes the listeners throw.
UpdateHistoryByUuid(c) ==
    /\ step[c] = "history"
    /\ IF stored = NoDocument
       THEN DeadLetter(c) /\ UNCHANGED history
       ELSE /\ history' = Entries(c)
            /\ Read(c, "net")
            /\ UNCHANGED deadLetters
    /\ UNCHANGED <<queueVars, type, stored, amount, processed, own, mailVars, examples,
                   published, crashes, observerVars>>

\* What processMigratedTransaction announces of a transaction, if anything.
NetAmount(status, value, entries) ==
    IF status \in {Accepted, Paid} THEN {value}
    ELSE IF status = Refunded THEN {value - AmountOf(entries, "refund")}
    ELSE {}

Announced(c, amounts) ==
    {[place |-> message[c], amount |-> a, alone |-> c \notin disturbed] : a \in amounts}

\* Mutant of ProcessMigrated: the transaction is read again before it is announced.
MutantReadsAgain(c) ==
    /\ step[c] = "net"
    /\ migrated' = migrated \cup Announced(c, NetAmount(stored, amount, history))
    /\ Proceeds(c, "ack")
    /\ UNCHANGED <<queueVars, documentVars, own, mailVars, examples, published, deadLetters,
                   crashes, overtaking, answered, expected>>

\* The transaction announced is the one that the write of the history returned.
ProcessMigrated(c) ==
    /\ step[c] = "net"
    /\ migrated' = migrated \cup
            Announced(c, NetAmount(existing[c].status, existing[c].amount, Entries(c)))
    /\ Proceeds(c, "ack")
    /\ UNCHANGED <<queueVars, documentVars, own, mailVars, examples, published, deadLetters,
                   crashes, overtaking, answered, expected>>

-----------------------------------------------------------------------------
(* ACTION.COMPLETED and HISTORY.ADD, and what shipping and mailer tell.    *)

\* The entry goes into the history if the transaction is found; an unknown one is
\* only warned of.
FindForHistory(c, taken) ==
    /\ Proceeds(c, IF stored # NoDocument /\ taken THEN "push" ELSE "ack")
    /\ UNCHANGED <<queueVars, documentVars, own, mailVars, examples, published, deadLetters,
                   crashes, observerVars>>

OnActionCompleted(c) ==
    /\ step[c] = "completed"
    /\ FindForHistory(c, IsTaken("completed", Entries(c)[1]))

OnHistoryAdd(c) ==
    /\ step[c] = "added"
    /\ FindForHistory(c, IsTaken("added", Entries(c)[1]))

\* A label or a slip.
OnShippingDocumentDownloaded(c) == step[c] = "downloaded" /\ FindForHistory(c, TRUE)

OnPaymentMailSent(c) == step[c] = "mailsent" /\ FindForHistory(c, TRUE)

\* Statistics hear of what was recorded if it is a refund.
SubtractedFor(entry) ==
    IF entry.action = "refund" THEN [published EXCEPT !["subtract"] = @ + 1] ELSE published

\* Mutant of PushHistoryRecord: the whole message is pushed, as it came.
MutantPushesMessage(c) ==
    /\ step[c] = "push"
    /\ IF stored = NoDocument
       THEN DeadLetter(c) /\ UNCHANGED <<history, published>>
       ELSE /\ history' = Append(history, log[message[c]])
            /\ published' = IF log[message[c]].kind = "completed"
                            THEN SubtractedFor(Entries(c)[1]) ELSE published
            /\ Proceeds(c, "ack")
            /\ UNCHANGED deadLetters
    /\ UNCHANGED <<queueVars, type, stored, amount, processed, own, mailVars, examples,
                   crashes, observerVars>>

\* pushHistoryRecord, under the lock and without upsert; then, for ACTION.COMPLETED,
\* processRefundedTransaction.
PushHistoryRecord(c) ==
    /\ step[c] = "push"
    /\ IF stored = NoDocument
       THEN DeadLetter(c) /\ UNCHANGED <<history, published>>
       ELSE /\ history' = history \o Entries(c)
            /\ published' = IF log[message[c]].kind = "completed"
                            THEN SubtractedFor(Entries(c)[1]) ELSE published
            /\ Proceeds(c, "ack")
            /\ UNCHANGED deadLetters
    /\ UNCHANGED <<queueVars, type, stored, amount, processed, own, mailVars, examples,
                   crashes, observerVars>>

-----------------------------------------------------------------------------
(* An action of the service itself, at most one, see PaymentActions.  It may *)
(* stop after each step: the request fails or the service goes down.  When  *)
(* it stops after the second step it is also a request for the status.      *)

OwnGoes(to) == own' = [own EXCEPT !.step = to]

BeginOwnAction ==
    /\ own.step = "none"
    /\ stored # NoDocument
    /\ own' = [own EXCEPT !.step = "begun", !.read = stored]
    /\ UNCHANGED <<queueVars, consumerVars, documentVars, mailVars, examples, published,
                   deadLetters, crashes, observerVars>>

\* applyPaymentProperties, without upsert: for a removed transaction its listeners
\* throw.  updateTransactionFromThirdPartyResult writes the status if it is another
\* than the one read before the call, with updateByUuid, which inserts.
StoreAnswer ==
    /\ own.step = "begun"
    /\ \/ /\ type = SantanderPosDe /\ stored = NoDocument
          /\ OwnGoes("failed")
          /\ UNCHANGED <<stored, amount, disturbed, answered>>
       \/ /\ type = SantanderPosDe /\ stored # NoDocument
          /\ Write(own.action.status, own.action.amount, Consumers)
          /\ answered' = TRUE
          /\ OwnGoes("stored")
       \/ /\ type # SantanderPosDe /\ own.action.status # own.read
          /\ Write(own.action.status, amount, Consumers)
          /\ answered' = TRUE
          /\ OwnGoes("stored")
       \/ /\ type # SantanderPosDe /\ own.action.status = own.read
          /\ OwnGoes("stored")
          /\ UNCHANGED <<stored, amount, disturbed, answered>>
    /\ UNCHANGED <<queueVars, step, localVars, type, history, processed, mailVars, examples,
                   published, deadLetters, crashes, overtaking, expected, migrated>>

\* The listeners of payment-action.after throw for a removed transaction.
RecordOwnAction ==
    /\ own.step = "stored"
    /\ \/ /\ stored = NoDocument
          /\ OwnGoes("failed")
          /\ UNCHANGED history
       \/ /\ stored # NoDocument
          /\ history' = Append(history, own.action.entry)
          /\ own' = [own EXCEPT !.step = "pushed", !.at = Len(log), !.safe = HistoryIsSafe]
    /\ UNCHANGED <<queueVars, consumerVars, type, stored, amount, processed, mailVars,
                   examples, published, deadLetters, crashes, observerVars>>

\* processRefundedTransaction, which does nothing for a removed transaction.
SubtractOwnRefund ==
    /\ own.step = "pushed"
    /\ published' = IF stored # NoDocument THEN SubtractedFor(own.action.entry) ELSE published
    /\ OwnGoes("recorded")
    /\ UNCHANGED <<queueVars, consumerVars, documentVars, mailVars, examples, deadLetters,
                   crashes, observerVars>>

OwnStep == BeginOwnAction \/ StoreAnswer \/ RecordOwnAction \/ SubtractOwnRefund

-----------------------------------------------------------------------------
(* PAYMENT.SUBMIT, the processed shipping order, and the mails for them.   *)

\* An invoice goes to the customers of the channels shop and mail (others are not
\* sent in the scripts) unless the payment did not succeed.
OnTransactionSubmitted(c) ==
    /\ step[c] = "submitted"
    /\ mails' = IF Status(c) \in {Declined, Cancelled, Failed, Refunded, New}
                THEN mails ELSE [mails EXCEPT !["invoice"] = @ + 1]
    /\ Proceeds(c, "ack")
    /\ UNCHANGED <<queueVars, documentVars, own, mailed, examples, published, deadLetters,
                   crashes, observerVars>>

\* Mutant of OnShippingOrderProcessed: an order processed already needs nothing.
MutantProcessesOnce(c) ==
    /\ step[c] = "shipped"
    /\ IF stored = NoDocument
       THEN DeadLetter(c)
       ELSE Proceeds(c, IF processed THEN "ack" ELSE "mark") /\ UNCHANGED deadLetters
    /\ UNCHANGED <<queueVars, documentVars, own, mailVars, examples, published, crashes,
                   observerVars>>

\* The mail cannot be written for an unknown transaction: the converter throws.
OnShippingOrderProcessed(c) ==
    /\ step[c] = "shipped"
    /\ IF stored = NoDocument
       THEN DeadLetter(c)
       ELSE Proceeds(c, "mark") /\ UNCHANGED deadLetters
    /\ UNCHANGED <<queueVars, documentVars, own, mailVars, examples, published, crashes,
                   observerVars>>

\* Without upsert: nothing happens to a transaction that was removed meanwhile.
SetShippingOrderProcessed(c) ==
    /\ step[c] = "mark"
    /\ processed' = (stored # NoDocument)
    /\ Proceeds(c, "mail")
    /\ UNCHANGED <<queueVars, type, stored, amount, history, own, mailVars, examples,
                   published, deadLetters, crashes, observerVars>>

\* The event is sent, or it is not and the handler throws.
ProduceShippingEvent(c) ==
    /\ step[c] = "mail"
    /\ \/ /\ mails' = [mails EXCEPT !["shipping"] = @ + 1]
          /\ Proceeds(c, "ack")
          /\ UNCHANGED deadLetters
       \/ DeadLetter(c) /\ UNCHANGED mails
    /\ UNCHANGED <<queueVars, documentVars, own, mailed, examples, published, crashes,
                   observerVars>>

\* The mailer tells of each mail it sent, when it has.
MailSent ==
    /\ mailed < mails["invoice"] + mails["shipping"]
    /\ mailed' = mailed + 1
    /\ Enqueue([kind |-> "mailsent", status |-> New,
                entries |-> <<[action |-> "email_sent", amount |-> 0]>>])
    /\ UNCHANGED <<script, consumerVars, documentVars, own, mails, examples, published,
                   deadLetters, crashes, overtaking, answered, migrated>>

-----------------------------------------------------------------------------
(* The internal event of a refund.                                         *)

\* Is the refund, or the cancellation, in the history already?
RefundRecorded(status, entries) ==
    AmountOf(entries, IF status = Refunded THEN "refund" ELSE "cancel") > 0

\* Announced to the outside, or logged and dropped: every error is caught.
HandleInternalRefund(c) ==
    /\ step[c] = "internal"
    /\ published' = IF stored # NoDocument /\ RefundRecorded(stored, history)
                    THEN [published EXCEPT !["refunded"] = @ + 1] ELSE published
    /\ Proceeds(c, "ack")
    /\ UNCHANGED <<queueVars, documentVars, own, mailVars, examples, deadLetters, crashes,
                   observerVars>>

-----------------------------------------------------------------------------

Handle(c) ==
    \/ CreateTransaction(c) \/ RemoveBusinessExamples(c)
    \/ ReadExisting(c) \/ Announce(c)
    \/ UpdateByUuid(c) \/ RemoveByUuid(c) \/ Ack(c)
    \/ FindMigrated(c) \/ CreateOrUpdate(c) \/ UpdateHistoryByUuid(c) \/ ProcessMigrated(c)
    \/ OnActionCompleted(c) \/ OnHistoryAdd(c) \/ OnShippingDocumentDownloaded(c)
    \/ OnPaymentMailSent(c) \/ PushHistoryRecord(c) \/ HandleInternalRefund(c)
    \/ OnTransactionSubmitted(c) \/ OnShippingOrderProcessed(c)
    \/ SetShippingOrderProcessed(c) \/ ProduceShippingEvent(c)

Next ==
    \/ Publish
    \/ OwnStep
    \/ MailSent
    \/ \E c \in Consumers : Take(c) \/ Handle(c) \/ Crash(c)

Spec == Init /\ [][Next]_vars

\* A consumer takes what waits and goes on with what it handles; the others need
\* not send anything, the service's own action may stop anywhere, and nothing has
\* to crash.
Fairness == \A c \in Consumers : WF_vars(Take(c)) /\ WF_vars(Handle(c))

FairSpec == Spec /\ Fairness

-----------------------------------------------------------------------------
(* Properties.                                                             *)

\* A message is waiting, with one consumer or done.
HeldOnce ==
    /\ \A c \in Consumers : step[c] # "idle" => message[c] \in DOMAIN log \ queue
    /\ \A c, d \in Consumers :
          (step[c] # "idle" /\ step[d] # "idle" /\ message[c] = message[d]) => c = d

Document == [status: Statuses \cup {NoDocument}, amount: 0..Total]

\* Every variable has its type, and no message is in two places.
TypeOK ==
    /\ script \in Seq(Message)
    /\ log \in Seq(Message)
    /\ queue \subseteq DOMAIN log
    /\ step \in [Consumers -> Steps]
    /\ message \in [Consumers -> 0..Len(log)]
    /\ HeldOnce
    /\ event \in [Consumers -> StatusEvents]
    /\ existing \in [Consumers -> Document]
    /\ type \in Types
    /\ [status |-> stored, amount |-> amount] \in Document
    /\ history \in Seq(Entry)
    /\ processed \in BOOLEAN
    /\ own \in [step: OwnSteps, action: OwnActions, read: Statuses \cup {NoDocument},
                at: 0..Len(log), safe: BOOLEAN]
    /\ mails \in [MailKinds -> Nat]
    /\ mailed \in 0..(mails["invoice"] + mails["shipping"])
    /\ examples \in BOOLEAN
    /\ published \in [RefundEvents -> Nat]
    /\ deadLetters \subseteq DOMAIN log
    /\ crashes \in 0..MaxCrashes
    /\ told \in [Consumers -> [StatusEvents -> Nat]]
    /\ disturbed \subseteq Consumers
    /\ overtaking \subseteq DOMAIN log
    /\ answered \in BOOLEAN
    /\ expected \subseteq DOMAIN log
    /\ migrated \subseteq [place: DOMAIN log, amount: Int, alone: BOOLEAN]

\* No message is waiting or being handled.
Quiet == Pending = {}

LastPlace == Max(Places(WriteKinds))

\* What the last message about the status asks to be stored.
Asked == IF log[LastPlace].kind = "remove" THEN NoDocument ELSE log[LastPlace].status

\* Once everything that was sent is handled, redeliveries included, the status stored
\* is that of the last message about it, or of a provider's answer after it.  Only a
\* last message that is refused, or that was taken by one consumer while another was
\* handling an earlier one, may be without effect.
LastMessageWins ==
    (Quiet /\ Places(WriteKinds) # {}) =>
        \/ LastPlace \in overtaking \cup deadLetters
        \/ answered
        \/ stored = Asked

\* Does a write of `new` over `old` change the status the way `event` tells?
Changes(kind, old, new) ==
    /\ old \notin {NoDocument, new}
    /\ \/ kind = "add" /\ new = Accepted
       \/ kind = "paid" /\ new = Paid
       \/ kind = "refund" /\ old = Paid /\ new \in {Refunded, Cancelled}

\* A change to accepted or paid is told of once and nothing else is told of as such;
\* a change from paid to refunded or cancelled is told of.
ToldOf(c, old, new) ==
    /\ \A e \in {"add", "paid"} : told[c][e] = IF Changes(e, old, new) THEN 1 ELSE 0
    /\ Changes("refund", old, new) => told[c]["refund"] = 1

\* What a handling of PAYMENT.UPDATE announces is what its write changes, however many
\* consumers and actions write meanwhile and however often it is delivered, provided
\* that nobody else changes the transaction during this handling.
UpdatesAreAnnounced ==
    [][\A c \in Consumers :
          (step[c] = "update" /\ step'[c] = "ack" /\ c \notin disturbed)
              => ToldOf(c, stored, stored')]_vars

\* The comment on StatisticsService: it is called right before the transaction is
\* updated, so that it can handle changes of the status.  Each PAYMENT.UPDATE that
\* changes it to accepted or to paid has told the statistics.
UpdatesTellOfTheirChanges ==
    [][\A c \in Consumers : step[c] = "update" /\ step'[c] = "ack" =>
          \A e \in {"add", "paid"} : Changes(e, stored, stored') => told[c][e] = 1]_vars

\* And so has whoever else updates the transaction, the service's own actions included.
StatusChangesAreAnnounced ==
    [][\A e \in {"add", "paid"} :
          Changes(e, stored, stored') =>
              \E c \in Consumers : step[c] = "update" /\ step'[c] = "ack" /\ told[c][e] = 1]_vars

\* The consumers always get through the queue: no redelivered message blocks it.
QueueDrains == []<>(queue = {})

\* No entry is lost to a redelivery, to other consumers, to a provider's answer or to an
\* update of the status, whose message holds a history too: an entry told of while the
\* transaction was there stays until something removes it or replaces its history.
HistoryKept ==
    /\ \A p \in expected \ Pending :
          \/ \E r \in Places(ResetKinds) : r > p
          \/ p \in deadLetters /\ log[p].kind = "migrate"
          \/ Range(log[p].entries) \subseteq Range(history)
    /\ own.step \in {"pushed", "recorded"} /\ own.safe =>
          \/ \E r \in Places(ResetKinds) : r > own.at
          \/ own.action.entry \in Range(history)

OwnRefunds == IF own.step \in {"pushed", "recorded"} THEN 1 ELSE 0

\* A refund by an action of the service is one entry and one event for the
\* statistics, although ACTION.COMPLETED and HISTORY.ADD tell of it again.
NoRefundCountedTwice ==
    /\ published["subtract"] <= OwnRefunds
    /\ Places({"migrate"}) = {} =>
           Cardinality({i \in DOMAIN history : history[i].action = "refund"}) <= OwnRefunds

Subtracted == IF published["subtract"] > 0 THEN own.action.entry.amount ELSE 0

\* What the statistics are told of a refunded payment that is migrated, less what the
\* service's own refund subtracts, is what the refunds of its history leave of its
\* amount: a refund recorded while the migration is handled counts once.  Nobody
\* else writes the transaction meanwhile, and the own refund is not one of those that
\* the migration takes from the history.
MigratedAmountsAreNet ==
    \A m \in migrated :
        (/\ m.alone /\ log[m.place].status = Refunded
         /\ Places(ResetKinds) = {m.place} /\ m.place \notin Pending
         /\ \/ own.step \notin {"pushed", "recorded"}
            \/ own.step = "recorded" /\ own.action.entry \in Range(history))
        => m.amount - Subtracted = Total - AmountOf(history, "refund")

\* The customer whose order is processed gets the mail about it, however the handler
\* is interrupted between the mark and the mail, unless the mail could not be sent.
ProcessedIsMailed ==
    (Quiet /\ processed) =>
        mails["shipping"] > 0 \/ Places({"shipped"}) \cap deadLetters # {}
=============================================================================
