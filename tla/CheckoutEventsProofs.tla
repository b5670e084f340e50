------------------------ MODULE CheckoutEventsProofs ------------------------
(***************************************************************************)
(* Proofs about CheckoutEvents: for any number of consumers, any messages  *)
(* in any order, any actions of the service and any number of crashes.     *)
(***************************************************************************)
EXTENDS CheckoutEvents, Sums, SequenceTheorems, TLAPS

(* The log.                                                                *)

\* A message that goes into the queue is the last of the log, which keeps the others.
LEMMA GrownLog ==
    ASSUME log \in Seq(Message), NEW m \in Message, Enqueue(m)
    PROVE  /\ log' \in Seq(Message) /\ Len(log) \in Nat /\ Len(log') = Len(log) + 1
           /\ DOMAIN log = 1..Len(log) /\ DOMAIN log' = DOMAIN log \cup {Len(log')}
           /\ Len(log') \notin DOMAIN log
           /\ \A p \in DOMAIN log : log'[p] = log[p]
           /\ log'[Len(log')] = m
           /\ queue' = queue \cup {Len(log')}
  <1>1. /\ log' \in Seq(Message) /\ Len(log') = Len(log) + 1
        /\ \A p \in 1..Len(log) : log'[p] = log[p]
        /\ log'[Len(log) + 1] = m
    BY AppendProperties DEF Enqueue
  <1>2. /\ Len(log) \in Nat /\ DOMAIN log = 1..Len(log)
        /\ DOMAIN log' = 1..(Len(log) + 1)
    BY <1>1, LenProperties
  <1>. QED
    BY <1>1, <1>2 DEF Enqueue

\* What the service itself puts into the queue.
LEMMA OwnMessages ==
    /\ \A status \in Statuses :
          [kind |-> "internal", status |-> status, entries |-> <<>>] \in Message
    /\ [kind |-> "mailsent", status |-> New,
        entries |-> <<[action |-> "email_sent", amount |-> 0]>>] \in Message
  <1>1. <<>> \in Seq(Entry)
    BY EmptySeq
  <1>2. [action |-> "email_sent", amount |-> 0] \in Entry
    BY ScriptsAssumption DEF Entry, HistoryActions
  <1>3. <<[action |-> "email_sent", amount |-> 0]>> \in Seq(Entry)
    BY <1>2
  <1>. QED
    BY <1>1, <1>3, ScriptsAssumption DEF Message, Kinds

\* What the fields of a message are.
LEMMA MessageFields ==
    ASSUME TypeOK, NEW p \in DOMAIN log
    PROVE  /\ log[p] \in Message /\ log[p].kind \in Kinds /\ log[p].status \in Statuses
           /\ log[p].entries \in Seq(Entry)
  <1>1. log[p] \in Message
    BY LenProperties, ElementOfSeq DEF TypeOK
  <1>. QED
    BY <1>1 DEF Message

\* The message a consumer handles.
LEMMA HandledMessage ==
    ASSUME TypeOK, NEW c \in Consumers, step[c] # "idle"
    PROVE  /\ message[c] \in DOMAIN log /\ message[c] \notin queue
           /\ log[message[c]] \in Message /\ log[message[c]].kind \in Kinds
           /\ Status(c) \in Statuses /\ Entries(c) \in Seq(Entry)
  BY MessageFields DEF TypeOK, HeldOnce, Status, Entries

\* Amounts add up to a number.
LEMMA AmountsAddUp ==
    ASSUME NEW entries \in Seq(Entry), NEW action
    PROVE  AmountOf(entries, action) \in Int
  <1>. DEFINE f == [i \in DOMAIN entries |->
                      IF entries[i].action = action THEN entries[i].amount ELSE 0]
  <1>1. \A i \in DOMAIN entries : entries[i] \in Entry
    BY ElementOfSeq, LenProperties
  <1>2. \A i \in DOMAIN entries : f[i] \in Int
    BY <1>1, ScriptsAssumption DEF Entry
  <1>3. IsFiniteSet(DOMAIN entries)
    BY LenProperties, FS_Interval
  <1>4. DOMAIN f = DOMAIN entries
    OBVIOUS
  <1>. HIDE DEF f
  <1>5. SumFunction(f) \in Int
    BY <1>2, <1>3, <1>4, SumsAreNumbers DEF SumFunction
  <1>. QED
    BY <1>5 DEF AmountOf, f

-----------------------------------------------------------------------------
(* Types.                                                                  *)

-----------------------------------------------------------------------------
(* What a step of a handler may do.                                        *)

\* Internal refunds, as Announce puts them into the queue, and what the mailer tells.
InternalRefund(status) == [kind |-> "internal", status |-> status, entries |-> <<>>]
ToldMail == [kind |-> "mailsent", status |-> New,
             entries |-> <<[action |-> "email_sent", amount |-> 0]>>]

\* What every step of a handler leaves alone.  At its end nothing is left of it.
LEMMA HandlerSteps ==
    ASSUME TypeOK, NEW c \in Consumers, Handle(c)
    PROVE  /\ step[c] # "idle" /\ step'[c] \in Steps
           /\ step' = [step EXCEPT ![c] = step'[c]]
           /\ UNCHANGED <<script, own, type, crashes, mailed, overtaking>>
           /\ \/ step'[c] = "idle" /\ Rests(c) /\ UNCHANGED <<log, queue, expected>>
              \/ step'[c] # "idle" /\ UNCHANGED message
           /\ \/ UNCHANGED <<log, queue, expected>>
              \/ Announce(c) /\ Enqueue(InternalRefund(Status(c)))
  <1>. USE DEF queueVars, localVars, documentVars, mailVars, observerVars, Steps, Goes,
               Proceeds, Read, Store, DeadLetter
  <1>0. step \in [Consumers -> Steps]
    BY DEF TypeOK
  <1>1. CASE CreateTransaction(c) \/ RemoveBusinessExamples(c) \/ ReadExisting(c)
    BY <1>0, <1>1 DEF CreateTransaction, RemoveBusinessExamples, ReadExisting, Rests
  <1>2. CASE UpdateByUuid(c) \/ RemoveByUuid(c) \/ Ack(c) \/ FindMigrated(c)
    BY <1>0, <1>2 DEF UpdateByUuid, RemoveByUuid, Ack, FindMigrated, Rests
  <1>3. CASE CreateOrUpdate(c) \/ UpdateHistoryByUuid(c) \/ ProcessMigrated(c)
    BY <1>0, <1>3 DEF CreateOrUpdate, UpdateHistoryByUuid, ProcessMigrated, Rests
  <1>4. CASE PushHistoryRecord(c) \/ HandleInternalRefund(c) \/ OnTransactionSubmitted(c)
    BY <1>0, <1>4 DEF PushHistoryRecord, HandleInternalRefund, OnTransactionSubmitted, Rests
  <1>5. CASE \/ OnShippingOrderProcessed(c) \/ SetShippingOrderProcessed(c)
             \/ ProduceShippingEvent(c)
    BY <1>0, <1>5 DEF OnShippingOrderProcessed, SetShippingOrderProcessed,
                      ProduceShippingEvent, Rests
  <1>6. CASE \/ OnActionCompleted(c) \/ OnHistoryAdd(c) \/ OnShippingDocumentDownloaded(c)
             \/ OnPaymentMailSent(c)
    BY <1>0, <1>6 DEF OnActionCompleted, OnHistoryAdd, OnShippingDocumentDownloaded,
                      OnPaymentMailSent, FindForHistory
  <1>7. CASE Announce(c)
    BY <1>0, <1>7 DEF Announce, InternalRefund
  <1>. QED
    BY <1>1, <1>2, <1>3, <1>4, <1>5, <1>6, <1>7 DEF Handle

-----------------------------------------------------------------------------
(* Types.                                                                  *)

\* At first every variable has its type.
LEMMA InitTypeOK == Init => TypeOK
  <1>. SUFFICES ASSUME Init
                PROVE  TypeOK
    OBVIOUS
  <1>1. script \in Seq(Message)
    BY ScriptsAssumption, SeqMonotonic DEF Init
  <1>2. <<>> \in Seq(Message) /\ <<>> \in Seq(Entry) /\ Len(<<>>) = 0
    BY EmptySeq
  <1>3. /\ message \in [Consumers -> 0..Len(log)] /\ step \in [Consumers -> Steps]
        /\ event \in [Consumers -> StatusEvents]
        /\ told \in [Consumers -> [StatusEvents -> Nat]]
    BY <1>2 DEF Init, Steps, StatusEvents
  <1>4. /\ Nothing \in Document /\ existing \in [Consumers -> Document]
        /\ [status |-> stored, amount |-> amount] \in Document
    BY ScriptsAssumption DEF Init, Document, Nothing
  <1>5. /\ mails \in [MailKinds -> Nat] /\ mails["invoice"] = 0 /\ mails["shipping"] = 0
        /\ published \in [RefundEvents -> Nat]
    BY DEF Init, MailKinds
  <1>6. mailed \in 0..(mails["invoice"] + mails["shipping"]) /\ crashes \in 0..MaxCrashes
    BY <1>5, ScriptsAssumption DEF Init
  <1>7. own \in [step: OwnSteps, action: OwnActions, read: Statuses \cup {NoDocument},
                 at: 0..Len(log), safe: BOOLEAN]
    BY <1>2 DEF Init, OwnSteps
  <1>8. HeldOnce
    BY DEF Init, HeldOnce
  <1>. QED
    BY <1>1, <1>2, <1>3, <1>4, <1>5, <1>6, <1>7, <1>8 DEF Init, TypeOK

\* A message comes into the queue, and nothing else changes its type.
LEMMA EnqueueTypeOK ==
    ASSUME TypeOK, NEW m \in Message, Enqueue(m),
           UNCHANGED <<message, existing, disturbed, documentVars, own, examples, mails,
                       published, deadLetters, crashes, overtaking, answered, migrated>>,
           step' \in [Consumers -> Steps], event' \in [Consumers -> StatusEvents],
           \A c \in Consumers : step[c] = "idle" => step'[c] = "idle",
           told' \in [Consumers -> [StatusEvents -> Nat]],
           mailed' \in 0..(mails["invoice"] + mails["shipping"]),
           script' \in Seq(Message)
    PROVE  TypeOK'
  <1>. USE DEF documentVars
  <1>1. /\ log' \in Seq(Message) /\ Len(log) \in Nat /\ Len(log') = Len(log) + 1
        /\ DOMAIN log = 1..Len(log) /\ DOMAIN log' = DOMAIN log \cup {Len(log')}
        /\ Len(log') \notin DOMAIN log /\ queue' = queue \cup {Len(log')}
    BY GrownLog DEF TypeOK
  <1>2. 0..Len(log) \subseteq 0..Len(log')
    BY <1>1
  <1>3. message' \in [Consumers -> 0..Len(log')]
    BY <1>2 DEF TypeOK
  <1>4. own' \in [step: OwnSteps, action: OwnActions, read: Statuses \cup {NoDocument},
                  at: 0..Len(log'), safe: BOOLEAN]
    BY <1>2 DEF TypeOK
  <1>5. /\ deadLetters' \subseteq DOMAIN log' /\ overtaking' \subseteq DOMAIN log'
        /\ expected' \subseteq DOMAIN log'
    BY <1>1 DEF TypeOK, Enqueue
  <1>6. HeldOnce'
    <2>1. HeldOnce /\ queue \subseteq DOMAIN log /\ \A c \in Consumers : message'[c] = message[c]
      BY DEF TypeOK
    <2>2. \A c \in Consumers : step'[c] # "idle" => message'[c] \in DOMAIN log' \ queue'
      BY <1>1, <2>1 DEF HeldOnce
    <2>. QED
      BY <2>1, <2>2 DEF HeldOnce
  <1>7. migrated' \subseteq [place: DOMAIN log', amount: Int, alone: BOOLEAN]
    BY <1>1 DEF TypeOK
  <1>. QED
    BY <1>1, <1>3, <1>4, <1>5, <1>6, <1>7 DEF TypeOK

\* A step of a handler that puts nothing into the queue leaves every message in one
\* place, and the memory of the consumer as it may be.
LEMMA HandleHeldOnce ==
    ASSUME TypeOK, NEW c \in Consumers, Handle(c), UNCHANGED <<log, queue, expected>>
    PROVE  /\ HeldOnce' /\ step' \in [Consumers -> Steps]
           /\ message' \in [Consumers -> 0..Len(log)]
  <1>1. /\ step \in [Consumers -> Steps] /\ step'[c] \in Steps /\ step[c] # "idle"
        /\ step' = [step EXCEPT ![c] = step'[c]]
        /\ message \in [Consumers -> 0..Len(log)] /\ Len(log) \in Nat
    BY HandlerSteps, LenProperties DEF TypeOK
  <1>2. CASE step'[c] = "idle" /\ Rests(c)
    <2>1. message' \in [Consumers -> 0..Len(log)]
      BY <1>1, <1>2 DEF Rests
    <2>. QED
      BY <1>1, <1>2, <2>1 DEF TypeOK, HeldOnce, Rests
  <1>3. CASE message' = message
    <2>1. HeldOnce /\ \A d \in Consumers : step'[d] # "idle" => step[d] # "idle"
      BY <1>1 DEF TypeOK
    <2>. QED
      BY <1>1, <1>3, <2>1 DEF HeldOnce
  <1>. QED
    BY <1>2, <1>3, HandlerSteps

\* The memory of a consumer that rests.
LEMMA RestsTypeOK ==
    ASSUME TypeOK, NEW c \in Consumers, Rests(c)
    PROVE  /\ event' \in [Consumers -> StatusEvents] /\ existing' \in [Consumers -> Document]
           /\ told' \in [Consumers -> [StatusEvents -> Nat]] /\ disturbed' \subseteq Consumers
  <1>1. Nothing \in Document
    BY ScriptsAssumption DEF Nothing, Document
  <1>2. ToldNothing \in [StatusEvents -> Nat] /\ "add" \in StatusEvents
    BY DEF ToldNothing, StatusEvents
  <1>. QED
    BY <1>1, <1>2 DEF Rests, TypeOK

\* An announcement may put a message into the queue.
LEMMA AnnounceTypeOK ==
    ASSUME TypeOK, NEW c \in Consumers, Announce(c)
    PROVE  TypeOK'
  <1>. USE DEF documentVars, mailVars, Goes
  <1>1. /\ step[c] = "announce" /\ Status(c) \in Statuses /\ event[c] \in StatusEvents
        /\ told \in [Consumers -> [StatusEvents -> Nat]] /\ Handle(c)
    BY HandledMessage DEF Announce, TypeOK, Handle
  <1>2. \E s \in {"read", "update"} : step' = [step EXCEPT ![c] = s]
    BY DEF Announce
  <1>3. told' \in [Consumers -> [StatusEvents -> Nat]]
    <2>1. told[c] \in [StatusEvents -> Nat] /\ told[c][event[c]] + 1 \in Nat
      BY <1>1
    <2>2. [told[c] EXCEPT ![event[c]] = @ + 1] \in [StatusEvents -> Nat]
      BY <1>1, <2>1
    <2>3. told' \in {told, [told EXCEPT ![c] = [told[c] EXCEPT ![event[c]] = @ + 1]]}
      BY <1>1 DEF Announce
    <2>. QED
      BY <1>1, <2>2, <2>3
  <1>4. step' \in [Consumers -> Steps] /\ event' \in [Consumers -> StatusEvents]
    <2>1. \A next \in Following(event[c], Status(c)) : next \in StatusEvents
      BY DEF Following, StatusEvents
    <2>2. event' = event \/ \E next \in StatusEvents : event' = [event EXCEPT ![c] = next]
      BY <2>1 DEF Announce
    <2>3. step' \in [Consumers -> Steps]
      BY <1>2 DEF TypeOK, Steps
    <2>4. event \in [Consumers -> StatusEvents]
      BY DEF TypeOK
    <2>. QED
      BY <2>2, <2>3, <2>4
  <1>5. CASE UNCHANGED <<log, queue, expected>>
    <2>1. HeldOnce'
      BY <1>1, <1>5, HandleHeldOnce
    <2>. QED
      BY <1>3, <1>4, <1>5, <2>1 DEF Announce, TypeOK
  <1>6. CASE Enqueue([kind |-> "internal", status |-> Status(c), entries |-> <<>>])
    <2>1. [kind |-> "internal", status |-> Status(c), entries |-> <<>>] \in Message
      BY <1>1, OwnMessages
    <2>2. \A d \in Consumers : step[d] = "idle" => step'[d] = "idle"
      BY <1>1, <1>2 DEF TypeOK
    <2>. QED
      BY <1>1, <1>3, <1>4, <1>6, <2>1, <2>2, EnqueueTypeOK DEF Announce, TypeOK
  <1>. QED
    BY <1>5, <1>6 DEF Announce

\* Status and amount are written.
LEMMA WriteTypeOK ==
    ASSUME TypeOK, NEW status \in Statuses \cup {NoDocument}, NEW value \in 0..Total,
           NEW others \in SUBSET Consumers, Write(status, value, others)
    PROVE  /\ [status |-> stored, amount |-> amount]' \in Document
           /\ disturbed' \subseteq Consumers
  BY DEF Write, Document, TypeOK

\* What is stored, and the amounts there may be.
LEMMA StoredFields ==
    ASSUME TypeOK
    PROVE  /\ stored \in Statuses \cup {NoDocument} /\ amount \in 0..Total
           /\ Total \in 0..Total /\ 0 \in 0..Total /\ NoDocument \notin Statuses
           /\ own.action \in OwnActions /\ own.action.entry \in Entry
           /\ own.action.status \in Statuses /\ own.action.amount \in 0..Total
  <1>1. [status |-> stored, amount |-> amount].status \in Statuses \cup {NoDocument}
    BY DEF TypeOK, Document
  <1>2. [status |-> stored, amount |-> amount].amount \in 0..Total
    BY DEF TypeOK, Document
  <1>3. own.action \in OwnActions
    BY DEF TypeOK
  <1>. QED
    BY <1>1, <1>2, <1>3, ScriptsAssumption DEF OwnAction

\* The steps of the handlers keep the types.
LEMMA HandleTypeOK ==
    ASSUME TypeOK, NEW c \in Consumers, Handle(c)
    PROVE  TypeOK'
  <1>. USE DEF documentVars, mailVars, observerVars, localVars
  <1>1. /\ message[c] \in DOMAIN log /\ step[c] # "idle"
        /\ Status(c) \in Statuses /\ Entries(c) \in Seq(Entry)
        /\ <<>> \in Seq(Entry)
    BY HandlerSteps, HandledMessage, EmptySeq
  <1>2. CASE Announce(c)
    BY <1>2, AnnounceTypeOK
  <1>3. SUFFICES ASSUME ~Announce(c)
                 PROVE  TypeOK'
    BY <1>2
  <1>4. /\ HeldOnce' /\ step' \in [Consumers -> Steps]
        /\ message' \in [Consumers -> 0..Len(log)]
        /\ UNCHANGED <<script, log, queue, expected, own, type, crashes, mailed, overtaking>>
    BY <1>3, HandlerSteps, HandleHeldOnce
  <1>5. ASSUME Rests(c), UNCHANGED <<documentVars, mails, examples, published, answered, migrated>>,
               deadLetters' \in {deadLetters, deadLetters \cup {message[c]}}
        PROVE  TypeOK'
    BY <1>1, <1>4, <1>5, RestsTypeOK DEF TypeOK
  <1>6. ASSUME UNCHANGED <<localVars, disturbed, stored, amount, answered, deadLetters>>,
               history' \in Seq(Entry), processed' \in BOOLEAN, examples' \in BOOLEAN,
               mails' \in [MailKinds -> Nat],
               mailed \in 0..(mails'["invoice"] + mails'["shipping"]),
               published' \in [RefundEvents -> Nat],
               migrated' \subseteq [place: DOMAIN log, amount: Int, alone: BOOLEAN]
        PROVE  TypeOK'
    BY <1>4, <1>6 DEF TypeOK
  <1>7. ASSUME NEW status \in Statuses \cup {NoDocument}, NEW value \in 0..Total, NEW to,
               Store(c, status, value, to),
               UNCHANGED <<deadLetters, examples, mails, published, migrated>>,
               history' \in Seq(Entry), processed' \in BOOLEAN
        PROVE  TypeOK'
    <2>1. /\ [status |-> stored, amount |-> amount]' \in Document
          /\ disturbed' \subseteq Consumers
      BY <1>7, WriteTypeOK DEF Store
    <2>. QED
      BY <1>4, <1>7, <2>1 DEF Store, TypeOK
  <1>8. CASE CreateTransaction(c) \/ CreateOrUpdate(c) \/ UpdateByUuid(c) \/ RemoveByUuid(c)
    <2>1. history \in Seq(Entry) /\ processed \in BOOLEAN
      BY DEF TypeOK
    <2>2. CASE CreateTransaction(c)
      BY <1>1, <1>5, <1>7, <2>1, <2>2, StoredFields DEF CreateTransaction, DeadLetter
    <2>3. CASE CreateOrUpdate(c)
      BY <1>1, <1>5, <1>7, <2>1, <2>3, StoredFields DEF CreateOrUpdate, DeadLetter
    <2>4. CASE UpdateByUuid(c)
      BY <1>1, <1>7, <2>1, <2>4, StoredFields DEF UpdateByUuid
    <2>5. CASE RemoveByUuid(c)
      BY <1>1, <1>7, <2>1, <2>5, StoredFields DEF RemoveByUuid
    <2>. QED
      BY <1>8, <2>2, <2>3, <2>4, <2>5
  <1>9. CASE ReadExisting(c) \/ FindMigrated(c)
    BY <1>4, <1>9 DEF ReadExisting, FindMigrated, Read, TypeOK
  <1>10. CASE UpdateHistoryByUuid(c)
    <2>1. CASE stored = NoDocument
      BY <1>5, <1>10, <2>1 DEF UpdateHistoryByUuid, DeadLetter
    <2>2. CASE stored # NoDocument
      BY <1>1, <1>4, <1>10, <2>2 DEF UpdateHistoryByUuid, Read, TypeOK
    <2>. QED
      BY <2>1, <2>2
  <1>11. CASE ProcessMigrated(c)
    <2>1. existing[c].status \in Statuses \cup {NoDocument} /\ existing[c].amount \in Int
      BY ScriptsAssumption DEF TypeOK, Document
    <2>2. \A a \in NetAmount(existing[c].status, existing[c].amount, Entries(c)) : a \in Int
      BY <1>1, <2>1, AmountsAddUp DEF NetAmount
    <2>3. Announced(c, NetAmount(existing[c].status, existing[c].amount, Entries(c)))
              \subseteq [place: DOMAIN log, amount: Int, alone: BOOLEAN]
      <3>1. (c \notin disturbed) \in BOOLEAN
        OBVIOUS
      <3>2. \A a \in Int : [place |-> message[c], amount |-> a, alone |-> c \notin disturbed]
                               \in [place: DOMAIN log, amount: Int, alone: BOOLEAN]
        BY <1>1, <3>1, Zenon
      <3>. QED
        BY <2>2, <3>2, Zenon DEF Announced
    <2>4. migrated' \subseteq [place: DOMAIN log, amount: Int, alone: BOOLEAN]
      BY <1>11, <2>3 DEF ProcessMigrated, TypeOK
    <2>. QED
      BY <1>4, <1>11, <2>4 DEF ProcessMigrated, Proceeds, TypeOK
  <1>12. CASE \/ OnActionCompleted(c) \/ OnHistoryAdd(c) \/ OnShippingDocumentDownloaded(c)
              \/ OnPaymentMailSent(c) \/ RemoveBusinessExamples(c)
    BY <1>4, <1>12 DEF OnActionCompleted, OnHistoryAdd, OnShippingDocumentDownloaded,
                       OnPaymentMailSent, FindForHistory, RemoveBusinessExamples, Proceeds, TypeOK
  <1>13. CASE PushHistoryRecord(c)
    <2>1. CASE stored = NoDocument
      BY <1>5, <1>13, <2>1 DEF PushHistoryRecord, DeadLetter
    <2>2. CASE stored # NoDocument
      <3>1. history' \in Seq(Entry)
        <4>1. history \in Seq(Entry) /\ history' = history \o Entries(c)
          BY <1>13, <2>2 DEF PushHistoryRecord, TypeOK
        <4>. QED
          BY <1>1, <4>1, ConcatProperties
      <3>2. published' \in [RefundEvents -> Nat]
        BY <1>13, <2>2 DEF PushHistoryRecord, SubtractedFor, RefundEvents, TypeOK
      <3>. QED
        BY <1>4, <1>13, <2>2, <3>1, <3>2 DEF PushHistoryRecord, Proceeds, TypeOK
    <2>. QED
      BY <2>1, <2>2
  <1>14. CASE HandleInternalRefund(c)
    <2>1. published' \in [RefundEvents -> Nat]
      BY <1>14 DEF HandleInternalRefund, RefundEvents, TypeOK
    <2>. QED
      BY <1>4, <1>14, <2>1 DEF HandleInternalRefund, Proceeds, TypeOK
  <1>15. CASE OnTransactionSubmitted(c) \/ ProduceShippingEvent(c)
    <2>1. CASE Rests(c)
      BY <1>5, <1>15, <2>1, HandlerSteps
      DEF OnTransactionSubmitted, ProduceShippingEvent, DeadLetter, Proceeds, Goes, Rests, TypeOK
    <2>2. CASE ~Rests(c)
      <3>1. /\ mails' \in [MailKinds -> Nat]
            /\ mails'["invoice"] + mails'["shipping"] >= mails["invoice"] + mails["shipping"]
        BY <1>15, <2>2 DEF OnTransactionSubmitted, ProduceShippingEvent, DeadLetter, MailKinds, TypeOK
      <3>2. mailed \in 0..(mails'["invoice"] + mails'["shipping"])
        <4>1. /\ mails["invoice"] + mails["shipping"] \in Nat
              /\ mails'["invoice"] + mails'["shipping"] \in Nat
              /\ mailed \in 0..(mails["invoice"] + mails["shipping"])
          BY <3>1 DEF TypeOK, MailKinds
        <4>. QED
          BY <3>1, <4>1
      <3>. QED
        BY <1>4, <1>15, <2>2, <3>1, <3>2
        DEF OnTransactionSubmitted, ProduceShippingEvent, DeadLetter, Proceeds, TypeOK
    <2>. QED
      BY <2>1, <2>2
  <1>16. CASE OnShippingOrderProcessed(c)
    <2>1. CASE stored = NoDocument
      BY <1>5, <1>16, <2>1 DEF OnShippingOrderProcessed, DeadLetter
    <2>2. CASE stored # NoDocument
      BY <1>4, <1>16, <2>2 DEF OnShippingOrderProcessed, Proceeds, TypeOK
    <2>. QED
      BY <2>1, <2>2
  <1>17. CASE SetShippingOrderProcessed(c)
    BY <1>4, <1>17 DEF SetShippingOrderProcessed, Proceeds, TypeOK
  <1>18. CASE Ack(c)
    BY <1>5, <1>18 DEF Ack
  <1>. QED
    BY <1>3, <1>8, <1>9, <1>10, <1>11, <1>12, <1>13, <1>14, <1>15, <1>16, <1>17, <1>18 DEF Handle

\* The first of the messages that wait.
LEMMA FirstWaiting ==
    ASSUME TypeOK, queue # {}
    PROVE  /\ Min(queue) \in queue /\ Min(queue) \in DOMAIN log
           /\ log[Min(queue)].kind \in Kinds
           /\ FirstStep(log[Min(queue)].kind) \in Steps \ {"idle", "push", "ack", "net"}
           /\ \A p \in queue : Min(queue) <= p
  <1>1. queue \in SUBSET Nat
    BY LenProperties DEF TypeOK
  <1>2. Min(queue) \in queue /\ \A p \in queue : Min(queue) <= p
    BY <1>1, LeastNumber DEF Min
  <1>3. log[Min(queue)].kind \in Kinds /\ Min(queue) \in DOMAIN log
    BY <1>2, MessageFields DEF TypeOK
  <1>. QED
    BY <1>2, <1>3 DEF FirstStep, Kinds, Steps

\* The message a consumer takes does not wait any more.
LEMMA TakeTypeOK ==
    ASSUME TypeOK, NEW c \in Consumers, Take(c)
    PROVE  TypeOK'
  <1>. USE DEF documentVars, mailVars, Goes
  <1>1. /\ Min(queue) \in queue /\ Min(queue) \in DOMAIN log
        /\ FirstStep(log[Min(queue)].kind) \in Steps
    BY FirstWaiting DEF Take
  <1>2. /\ step' \in [Consumers -> Steps] /\ message' \in [Consumers -> 0..Len(log)]
    <2>1. DOMAIN log \subseteq 0..Len(log)
      BY LenProperties DEF TypeOK
    <2>. QED
      BY <1>1, <2>1 DEF Take, TypeOK
  <1>3. HeldOnce'
    <2>1. /\ HeldOnce /\ step[c] = "idle" /\ log' = log /\ queue' = queue \ {Min(queue)}
          /\ message'[c] = Min(queue)
          /\ \A d \in Consumers \ {c} : step'[d] = step[d] /\ message'[d] = message[d]
      BY DEF Take, TypeOK
    <2>2. \A d \in Consumers \ {c} : step'[d] # "idle" => message'[d] # Min(queue)
      BY <1>1, <2>1 DEF HeldOnce
    <2>. QED
      BY <1>1, <2>1, <2>2 DEF HeldOnce
  <1>. QED
    BY <1>1, <1>2, <1>3 DEF Take, TypeOK

\* So does the service's own action.
LEMMA OwnTypeOK ==
    ASSUME TypeOK, OwnStep
    PROVE  TypeOK'
  <1>. USE DEF queueVars, consumerVars, localVars, documentVars, mailVars, observerVars, OwnGoes
  <1>1. /\ own \in [step: OwnSteps, action: OwnActions, read: Statuses \cup {NoDocument},
                    at: 0..Len(log), safe: BOOLEAN]
        /\ Len(log) \in 0..Len(log) /\ HeldOnce
    BY LenProperties DEF TypeOK
  <1>2. CASE BeginOwnAction
    <2>1. own' \in [step: OwnSteps, action: OwnActions, read: Statuses \cup {NoDocument},
                    at: 0..Len(log), safe: BOOLEAN]
      BY <1>1, <1>2, StoredFields DEF BeginOwnAction, OwnSteps
    <2>. QED
      BY <1>2, <2>1 DEF BeginOwnAction, TypeOK, HeldOnce
  <1>3. CASE StoreAnswer
    <2>1. own' \in [step: OwnSteps, action: OwnActions, read: Statuses \cup {NoDocument},
                    at: 0..Len(log), safe: BOOLEAN]
      BY <1>1, <1>3 DEF StoreAnswer, OwnSteps
    <2>2. /\ [status |-> stored, amount |-> amount]' \in Document
          /\ disturbed' \subseteq Consumers
      <3>1. CASE UNCHANGED <<stored, amount, disturbed>>
        BY <3>1 DEF TypeOK
      <3>2. CASE \E value \in {amount, own.action.amount} :
                    Write(own.action.status, value, Consumers)
        BY <3>2, StoredFields, WriteTypeOK
      <3>. QED
        BY <1>3, <3>1, <3>2 DEF StoreAnswer
    <2>3. answered' \in BOOLEAN
      BY <1>3 DEF StoreAnswer, TypeOK
    <2>. QED
      BY <1>3, <2>1, <2>2, <2>3 DEF StoreAnswer, TypeOK, HeldOnce
  <1>4. CASE RecordOwnAction
    <2>1. own' \in [step: OwnSteps, action: OwnActions, read: Statuses \cup {NoDocument},
                    at: 0..Len(log), safe: BOOLEAN]
      BY <1>1, <1>4 DEF RecordOwnAction, OwnSteps, HistoryIsSafe
    <2>2. history' \in Seq(Entry)
      <3>1. history \in Seq(Entry) /\ history' \in {history, Append(history, own.action.entry)}
        BY <1>4 DEF RecordOwnAction, TypeOK
      <3>2. own.action.entry \in Entry
        BY StoredFields
      <3>. QED
        BY <3>1, <3>2, AppendProperties
    <2>. QED
      BY <1>4, <2>1, <2>2 DEF RecordOwnAction, TypeOK, HeldOnce
  <1>5. CASE SubtractOwnRefund
    <2>1. own' \in [step: OwnSteps, action: OwnActions, read: Statuses \cup {NoDocument},
                    at: 0..Len(log), safe: BOOLEAN]
      BY <1>1, <1>5 DEF SubtractOwnRefund, OwnSteps
    <2>2. published' \in [RefundEvents -> Nat]
      BY <1>5 DEF SubtractOwnRefund, SubtractedFor, RefundEvents, TypeOK
    <2>. QED
      BY <1>5, <2>1, <2>2 DEF SubtractOwnRefund, TypeOK, HeldOnce
  <1>. QED
    BY <1>2, <1>3, <1>4, <1>5 DEF OwnStep

\* Every step keeps the types.
LEMMA NextTypeOK == TypeOK /\ [Next]_vars => TypeOK'
  <1>. SUFFICES ASSUME TypeOK, [Next]_vars
                PROVE  TypeOK'
    OBVIOUS
  <1>. USE DEF consumerVars, localVars, queueVars, documentVars, mailVars, observerVars
  <1>1. CASE Publish
    <2>1. Head(script) \in Message /\ Tail(script) \in Seq(Message)
      BY <1>1, HeadTailProperties DEF Publish, TypeOK
    <2>. QED
      BY <1>1, <2>1, EnqueueTypeOK DEF Publish, TypeOK
  <1>2. CASE OwnStep
    BY <1>2, OwnTypeOK
  <1>3. CASE MailSent
    <2>1. mailed' \in 0..(mails["invoice"] + mails["shipping"])
      <3>1. mails["invoice"] \in Nat /\ mails["shipping"] \in Nat
        BY DEF TypeOK, MailKinds
      <3>. QED
        BY <1>3, <3>1 DEF MailSent, TypeOK
    <2>. QED
      BY <1>3, <2>1, OwnMessages, EnqueueTypeOK DEF MailSent, TypeOK
  <1>4. ASSUME NEW c \in Consumers, Take(c)
        PROVE  TypeOK'
    BY <1>4, TakeTypeOK
  <1>5. ASSUME NEW c \in Consumers, Handle(c)
        PROVE  TypeOK'
    BY <1>5, HandleTypeOK
  <1>6. ASSUME NEW c \in Consumers, Crash(c)
        PROVE  TypeOK'
    <2>1. message[c] \in DOMAIN log
      BY <1>6, HandledMessage DEF Crash
    <2>2. crashes' \in 0..MaxCrashes /\ step' \in [Consumers -> Steps]
      BY <1>6, ScriptsAssumption DEF Crash, Rests, Goes, TypeOK, Steps
    <2>3. message' \in [Consumers -> 0..Len(log)]
      <3>1. 0 \in 0..Len(log)
        BY LenProperties DEF TypeOK
      <3>. QED
        BY <1>6, <3>1 DEF Crash, Rests, TypeOK
    <2>4. HeldOnce'
      BY <1>6, <2>1 DEF Crash, Rests, Goes, TypeOK, HeldOnce
    <2>5. /\ event' \in [Consumers -> StatusEvents] /\ existing' \in [Consumers -> Document]
          /\ told' \in [Consumers -> [StatusEvents -> Nat]] /\ disturbed' \subseteq Consumers
      BY <1>6, RestsTypeOK DEF Crash
    <2>. QED
      BY <1>6, <2>1, <2>2, <2>3, <2>4, <2>5 DEF Crash, TypeOK
  <1>7. CASE UNCHANGED vars
    BY <1>7 DEF vars, TypeOK, HeldOnce
  <1>. QED
    BY <1>1, <1>2, <1>3, <1>4, <1>5, <1>6, <1>7 DEF Next

\* For any number of consumers, crashes and messages every variable keeps its
\* type, and no message is delivered to a consumer while it is still waiting.
THEOREM TypeCorrect == Spec => []TypeOK
  BY InitTypeOK, NextTypeOK, PTL DEF Spec

-----------------------------------------------------------------------------
(* The messages in the log and in the queue, and where their handlers are. *)

\* What the others send, and what the log may hold: messages about one action have
\* one entry, those about a mail are the service's.
SentMessages == {m \in Message : m.kind \notin {"internal", "mailsent"} /\ OneEntry(m)}

LogInv ==
    /\ script \in Seq(SentMessages)
    /\ \A p \in DOMAIN log :
          /\ OneEntry(log[p])
          /\ log[p].kind = "mailsent" => log[p] = ToldMail

\* What comes into the log when it grows.
LEMMA LogGrows ==
    ASSUME TypeOK, LogInv, [Next]_vars
    PROVE  /\ script' \in Seq(SentMessages)
           /\ \/ UNCHANGED <<log, expected>>
              \/ \E m \in Message :
                    /\ Enqueue(m)
                    /\ \/ m \in SentMessages
                       \/ \E status \in Statuses : m = InternalRefund(status)
                       \/ m = ToldMail
                    /\ UNCHANGED <<stored, type>>
  <1>. USE DEF queueVars, documentVars, observerVars
  <1>1. CASE Publish
    <2>1. Head(script) \in SentMessages /\ Tail(script) \in Seq(SentMessages)
      BY <1>1, HeadTailProperties DEF Publish, LogInv
    <2>2. Head(script) \in Message
      BY <2>1 DEF SentMessages
    <2>. QED
      BY <1>1, <2>1, <2>2 DEF Publish
  <1>2. CASE OwnStep \/ \E c \in Consumers : Take(c) \/ Crash(c)
    BY <1>2 DEF OwnStep, BeginOwnAction, StoreAnswer, RecordOwnAction, SubtractOwnRefund, Take,
                Crash, LogInv
  <1>3. CASE MailSent
    <2>1. Enqueue(ToldMail) /\ ToldMail \in Message /\ UNCHANGED <<script, stored, type>>
      BY <1>3, OwnMessages DEF MailSent, ToldMail
    <2>. QED
      BY <2>1 DEF LogInv
  <1>4. ASSUME NEW c \in Consumers, Handle(c)
        PROVE  /\ script' = script
               /\ \/ UNCHANGED <<log, expected>>
                  \/ \E m \in Message : /\ Enqueue(m)
                                        /\ \E status \in Statuses : m = InternalRefund(status)
                                        /\ UNCHANGED <<stored, type>>
    <2>1. Status(c) \in Statuses /\ InternalRefund(Status(c)) \in Message
      BY <1>4, HandlerSteps, HandledMessage, OwnMessages DEF InternalRefund
    <2>2. /\ script' = script
          /\ \/ UNCHANGED <<log, expected>>
             \/ Enqueue(InternalRefund(Status(c))) /\ UNCHANGED <<stored, type>>
      BY <1>4, HandlerSteps DEF Announce
    <2>. QED
      BY <2>1, <2>2
  <1>5. CASE UNCHANGED vars
    BY <1>5 DEF vars, LogInv
  <1>6. script \in Seq(SentMessages)
    BY DEF LogInv
  <1>. QED
    BY <1>1, <1>2, <1>3, <1>4, <1>5, <1>6 DEF Next

\* What the log holds it keeps, and it grows by one message at most.
LEMMA LogKept ==
    ASSUME TypeOK, LogInv, [Next]_vars
    PROVE  /\ Len(log) \in Nat /\ DOMAIN log = 1..Len(log)
           /\ DOMAIN log \subseteq DOMAIN log' /\ \A p \in DOMAIN log : log'[p] = log[p]
           /\ \A p \in DOMAIN log' \ DOMAIN log : p = Len(log) + 1 /\ p \in queue'
  <1>1. Len(log) \in Nat /\ DOMAIN log = 1..Len(log)
    BY LenProperties DEF TypeOK
  <1>2. CASE log' = log
    BY <1>1, <1>2
  <1>3. ASSUME NEW m \in Message, Enqueue(m)
        PROVE  /\ DOMAIN log \subseteq DOMAIN log' /\ \A p \in DOMAIN log : log'[p] = log[p]
               /\ \A p \in DOMAIN log' \ DOMAIN log : p = Len(log) + 1 /\ p \in queue'
    BY <1>1, <1>3, GrownLog DEF TypeOK
  <1>. QED
    BY <1>1, <1>2, <1>3, LogGrows

\* Every step keeps the log as it should be.
LEMMA NextLog ==
    ASSUME TypeOK, LogInv, [Next]_vars
    PROVE  LogInv'
  <1>1. ASSUME NEW p \in DOMAIN log'
        PROVE  OneEntry(log'[p]) /\ (log'[p].kind = "mailsent" => log'[p] = ToldMail)
    <2>1. CASE p \in DOMAIN log
      BY <2>1, LogKept DEF LogInv
    <2>2. CASE p \notin DOMAIN log
      <3>1. PICK m \in Message :
                    /\ Enqueue(m)
                    /\ \/ m \in SentMessages
                       \/ \E status \in Statuses : m = InternalRefund(status)
                       \/ m = ToldMail
        BY <1>1, <2>2, LogGrows
      <3>2. log'[p] = m
        BY <1>1, <2>2, <3>1, GrownLog DEF TypeOK
      <3>. QED
        BY <3>1, <3>2 DEF SentMessages, InternalRefund, ToldMail, OneEntry
    <2>. QED
      BY <2>1, <2>2
  <1>. QED
    BY <1>1, LogGrows DEF LogInv, ToldMail

\* The places of messages of some kinds only become more.
LEMMA PlacesGrow ==
    ASSUME TypeOK, LogInv, [Next]_vars, NEW kinds
    PROVE  /\ Places(kinds) \subseteq Places(kinds)'
           /\ \A p \in Places(kinds)' : p \in DOMAIN log => p \in Places(kinds)
           /\ \A p \in Places(kinds)' \ Places(kinds) : p = Len(log) + 1 /\ p \in queue'
  BY LogKept DEF Places

\* The steps of the handlers of each kind of message.
IsStepOf(s, kind) ==
    /\ s \in {"create", "examples"} => kind = "create"
    /\ s \in {"read", "announce", "update"} => kind = "update"
    /\ s = "remove" => kind = "remove"
    /\ s \in {"migrate", "write", "history", "net"} => kind = "migrate"
    /\ s = "completed" => kind = "completed"
    /\ s = "added" => kind = "added"
    /\ s = "downloaded" => kind = "downloaded"
    /\ s = "mailsent" => kind = "mailsent"
    /\ s = "push" => kind \in {"completed", "added", "downloaded", "mailsent"}
    /\ s = "submitted" => kind = "submitted"
    /\ s \in {"shipped", "mark", "mail"} => kind = "shipped"
    /\ s = "internal" => kind = "internal"

StepInv == \A c \in Busy : IsStepOf(step[c], log[message[c]].kind)

\* A handler goes on with a step for the same kind of message.
LEMMA HandlerGoesOn ==
    ASSUME TypeOK, NEW c \in Consumers, Handle(c), NEW kind, IsStepOf(step[c], kind)
    PROVE  IsStepOf(step'[c], kind)
  <1>. USE DEF Goes, Proceeds, Read, Store, DeadLetter, Rests
  <1>1. step \in [Consumers -> Steps]
    BY DEF TypeOK
  <1>2. CASE CreateTransaction(c) \/ RemoveBusinessExamples(c) \/ ReadExisting(c)
    BY <1>1, <1>2 DEF CreateTransaction, RemoveBusinessExamples, ReadExisting, IsStepOf
  <1>3. CASE UpdateByUuid(c) \/ RemoveByUuid(c) \/ Ack(c) \/ FindMigrated(c)
    BY <1>1, <1>3 DEF UpdateByUuid, RemoveByUuid, Ack, FindMigrated, IsStepOf
  <1>4. CASE CreateOrUpdate(c) \/ UpdateHistoryByUuid(c) \/ ProcessMigrated(c)
    BY <1>1, <1>4 DEF CreateOrUpdate, UpdateHistoryByUuid, ProcessMigrated, IsStepOf
  <1>5. CASE PushHistoryRecord(c) \/ HandleInternalRefund(c) \/ OnTransactionSubmitted(c)
    BY <1>1, <1>5 DEF PushHistoryRecord, HandleInternalRefund, OnTransactionSubmitted, IsStepOf
  <1>6. CASE \/ OnShippingOrderProcessed(c) \/ SetShippingOrderProcessed(c)
             \/ ProduceShippingEvent(c)
    BY <1>1, <1>6 DEF OnShippingOrderProcessed, SetShippingOrderProcessed,
                      ProduceShippingEvent, IsStepOf
  <1>7. CASE \/ OnActionCompleted(c) \/ OnHistoryAdd(c) \/ OnShippingDocumentDownloaded(c)
             \/ OnPaymentMailSent(c)
    BY <1>1, <1>7 DEF OnActionCompleted, OnHistoryAdd, OnShippingDocumentDownloaded,
                      OnPaymentMailSent, FindForHistory, IsStepOf
  <1>8. CASE Announce(c)
    <2>1. step'[c] \in {"read", "update"} /\ step[c] = "announce"
      BY <1>1, <1>8 DEF Announce
    <2>. QED
      BY <2>1 DEF IsStepOf
  <1>. QED
    BY <1>2, <1>3, <1>4, <1>5, <1>6, <1>7, <1>8 DEF Handle

\* What the others do while a consumer handles its message.
LEMMA OthersStay ==
    ASSUME TypeOK, NEW c \in Consumers, Handle(c)
    PROVE  /\ \A d \in Consumers \ {c} :
                  step'[d] = step[d] /\ message'[d] = message[d]
                  /\ (d \in Busy' <=> d \in Busy)
           /\ c \in Busy /\ (c \in Busy' <=> step'[c] # "idle")
           /\ step'[c] # "idle" => message'[c] = message[c]
  BY HandlerSteps DEF TypeOK, Busy, Rests

\* Where messages and consumers are after a step.
Moved ==
    /\ \A p \in DOMAIN log : p \in Pending' => p \in Pending
    /\ \A p \in Pending \ Pending' :
          \E c \in Busy : message[c] = p /\ Handle(c) /\ step'[c] = "idle"
    /\ \A p \in queue \ queue' :
          \E c \in Busy' : /\ c \notin Busy /\ Take(c) /\ p = Min(queue) /\ message'[c] = p
                           /\ step'[c] = FirstStep(log[p].kind)
    /\ \A c \in Busy :
          \/ Handle(c)
          \/ c \in Busy' /\ message'[c] = message[c] /\ step'[c] = step[c]
          \/ message[c] \in queue'
    /\ \A c \in Busy' :
          \/ c \in Busy /\ message'[c] = message[c] /\ (step'[c] = step[c] \/ Handle(c))
          \/ Take(c)

\* With an entry more in the queue the consumers stay where they are.
LEMMA MovedByEnqueue ==
    ASSUME TypeOK, NEW m \in Message, Enqueue(m), UNCHANGED <<step, message>>
    PROVE  Moved
  <1>1. queue' = queue \cup {Len(log')} /\ Len(log') \notin DOMAIN log
    BY GrownLog DEF TypeOK
  <1>2. Busy' = Busy
    BY DEF Busy
  <1>. QED
    BY <1>1, <1>2 DEF Moved, Pending

\* Every step moves messages and consumers so.
LEMMA NextMoves ==
    ASSUME TypeOK, [Next]_vars
    PROVE  Moved
  <1>. USE DEF consumerVars, queueVars
  <1>0. step \in [Consumers -> Steps] /\ DOMAIN message = Consumers
    BY DEF TypeOK
  <1>1. CASE Publish
    <2>1. Head(script) \in Message /\ Enqueue(Head(script)) /\ UNCHANGED <<step, message>>
      BY <1>1, HeadTailProperties DEF Publish, TypeOK, localVars
    <2>. QED
      BY <2>1, MovedByEnqueue
  <1>2. CASE MailSent
    BY <1>2, OwnMessages, MovedByEnqueue DEF MailSent, localVars
  <1>3. CASE OwnStep \/ UNCHANGED vars
    <2>1. UNCHANGED <<log, queue, step, message>>
      BY <1>3 DEF OwnStep, BeginOwnAction, StoreAnswer, RecordOwnAction, SubtractOwnRefund,
                  vars, localVars
    <2>2. Busy' = Busy /\ Pending' = Pending
      BY <2>1 DEF Busy, Pending
    <2>. QED
      BY <2>1, <2>2 DEF Moved
  <1>4. ASSUME NEW c \in Consumers, Take(c)
        PROVE  Moved
    <2>1. /\ Min(queue) \in queue /\ FirstStep(log[Min(queue)].kind) # "idle"
          /\ queue' = queue \ {Min(queue)} /\ step[c] = "idle"
          /\ message'[c] = Min(queue) /\ step'[c] = FirstStep(log[Min(queue)].kind)
          /\ \A d \in Consumers \ {c} : step'[d] = step[d] /\ message'[d] = message[d]
      BY <1>0, <1>4, FirstWaiting DEF Take, Goes
    <2>2. c \in Busy' /\ c \notin Busy /\ Busy' = Busy \cup {c} /\ Busy \subseteq Consumers \ {c}
      BY <2>1 DEF Busy
    <2>3. \A d \in Busy : message'[d] = message[d] /\ step'[d] = step[d]
      BY <2>1, <2>2
    <2>4. Pending' = Pending
      <3>1. \A p : p \in Pending' <=> p \in queue' \/ p = message'[c] \/ \E d \in Busy : p = message'[d]
        BY <2>2 DEF Pending
      <3>2. \A p : p \in Pending <=> p \in queue \/ \E d \in Busy : p = message[d]
        BY DEF Pending
      <3>3. \A p : p \in Pending' <=> p \in Pending
        BY <2>1, <2>3, <3>1, <3>2
      <3>. QED
        BY <3>3
    <2>. QED
      BY <1>4, <2>1, <2>2, <2>3, <2>4 DEF Moved
  <1>5. ASSUME NEW c \in Consumers, Crash(c)
        PROVE  Moved
    <2>1. /\ step[c] # "idle" /\ step'[c] = "idle" /\ queue' = queue \cup {message[c]}
          /\ \A d \in Consumers \ {c} : step'[d] = step[d] /\ message'[d] = message[d]
      BY <1>0, <1>5 DEF Crash, Rests, Goes
    <2>2. c \in Busy /\ Busy' = Busy \ {c} /\ Busy' \subseteq Consumers \ {c}
      BY <2>1 DEF Busy
    <2>3. \A d \in Busy' : message'[d] = message[d] /\ step'[d] = step[d]
      BY <2>1, <2>2
    <2>4. Pending' = Pending
      <3>1. \A p : p \in Pending' <=> p \in queue' \/ \E d \in Busy' : p = message'[d]
        BY DEF Pending
      <3>2. \A p : p \in Pending <=> p \in queue \/ p = message[c] \/ \E d \in Busy' : p = message[d]
        BY <2>2 DEF Pending
      <3>3. \A p : p \in Pending' <=> p \in Pending
        BY <2>1, <2>3, <3>1, <3>2
      <3>. QED
        BY <3>3
    <2>. QED
      BY <2>1, <2>2, <2>3, <2>4 DEF Moved
  <1>6. ASSUME NEW c \in Consumers, Handle(c)
        PROVE  Moved
    <2>1. /\ \A d \in Consumers \ {c} :
                  step'[d] = step[d] /\ message'[d] = message[d] /\ (d \in Busy' <=> d \in Busy)
          /\ c \in Busy /\ (c \in Busy' <=> step'[c] # "idle")
          /\ step'[c] # "idle" => message'[c] = message[c]
          /\ Busy \subseteq Consumers
      BY <1>6, OthersStay DEF Busy
    <2>2. /\ queue \subseteq queue'
          /\ \A p \in DOMAIN log : p \in queue' => p \in queue
      <3>1. Status(c) \in Statuses /\ InternalRefund(Status(c)) \in Message
        BY <1>6, HandlerSteps, HandledMessage, OwnMessages DEF InternalRefund
      <3>. QED
        BY <1>6, <3>1, HandlerSteps, GrownLog DEF TypeOK
    <2>3. \A p \in Pending \ Pending' : p = message[c] /\ step'[c] = "idle"
      BY <2>1, <2>2 DEF Pending
    <2>4. \A p \in DOMAIN log : p \in Pending' => p \in Pending
      <3>1. Busy' \subseteq Consumers
        BY DEF Busy
      <3>. QED
        BY <2>1, <2>2, <3>1 DEF Pending
    <2>5. \A d \in Busy' : d \in Busy /\ message'[d] = message[d] /\ (step'[d] = step[d] \/ d = c)
      <3>1. Busy' \subseteq Consumers
        BY DEF Busy
      <3>. QED
        BY <2>1, <3>1
    <2>. QED
      BY <1>6, <2>1, <2>2, <2>3, <2>4, <2>5 DEF Moved
  <1>. QED
    BY <1>1, <1>2, <1>3, <1>4, <1>5, <1>6 DEF Next

\* Every step leaves the handlers where handlers of their messages may be.
LEMMA NextSteps ==
    ASSUME TypeOK, LogInv, StepInv, [Next]_vars
    PROVE  StepInv'
  <1>. SUFFICES ASSUME NEW c \in Busy'
                PROVE  IsStepOf(step'[c], log'[message'[c]].kind)
    BY DEF StepInv
  <1>0. c \in Consumers
    BY DEF Busy
  <1>1. CASE c \in Busy /\ message'[c] = message[c]
    <2>1. step[c] # "idle" /\ message[c] \in DOMAIN log /\ log'[message[c]] = log[message[c]]
      BY <1>1, HandledMessage, LogKept DEF Busy
    <2>2. IsStepOf(step[c], log[message[c]].kind)
      BY <1>1 DEF StepInv
    <2>3. CASE step'[c] = step[c]
      BY <1>1, <2>1, <2>2, <2>3
    <2>4. CASE Handle(c)
      BY <1>0, <1>1, <2>1, <2>2, <2>4, HandlerGoesOn
    <2>5. CASE Take(c)
      BY <2>1, <2>5 DEF Take
    <2>. QED
      BY <1>1, <2>3, <2>4, <2>5, NextMoves DEF Moved
  <1>2. CASE Take(c)
    <2>1. /\ step'[c] = FirstStep(log[Min(queue)].kind) /\ log' = log
          /\ message'[c] = Min(queue)
      BY <1>0, <1>2 DEF Take, Goes, TypeOK
    <2>2. log[Min(queue)].kind \in Kinds
      BY <1>2, FirstWaiting DEF Take
    <2>3. IsStepOf(FirstStep(log[Min(queue)].kind), log[Min(queue)].kind)
      BY <2>2 DEF FirstStep, IsStepOf, Kinds
    <2>. QED
      BY <2>1, <2>3
  <1>. QED
    BY <1>1, <1>2, NextMoves DEF Moved

\* Types, the log and the steps of the handlers.
BaseInv == TypeOK /\ LogInv /\ StepInv

\* At first the log is as it should be, and so it stays.
LEMMA InitBase == Init => BaseInv
  <1>. SUFFICES ASSUME Init
                PROVE  LogInv /\ StepInv
    BY InitTypeOK DEF BaseInv
  <1>1. script \in Seq(SentMessages)
    BY ScriptsAssumption DEF Init, SentMessages
  <1>2. DOMAIN log = {} /\ Busy = {}
    BY EmptySeq DEF Init, Busy
  <1>. QED
    BY <1>1, <1>2 DEF LogInv, StepInv

LEMMA NextBase == BaseInv /\ [Next]_vars => BaseInv'
  BY NextTypeOK, NextLog, NextSteps DEF BaseInv

-----------------------------------------------------------------------------
(* What only handlers and the service's own action change.                 *)

LEMMA QuietSteps ==
    ASSUME [Next]_vars, ~OwnStep, \A c \in Consumers : ~Handle(c)
    PROVE  UNCHANGED <<type, stored, amount, history, processed, own, mails, published,
                       deadLetters, answered>>
  BY DEF Next, Publish, MailSent, Take, Crash, vars, documentVars, mailVars, observerVars

\* The payment method stays, and the own action leaves consumers and queue alone.
LEMMA OwnStepsAlone ==
    ASSUME OwnStep
    PROVE  /\ UNCHANGED <<script, log, queue, step, message, event, existing, told, type,
                          processed, mails, deadLetters, overtaking, expected>>
           /\ (stored' # stored => answered')
           /\ Busy' = Busy /\ Pending' = Pending
  BY DEF OwnStep, BeginOwnAction, StoreAnswer, RecordOwnAction, SubtractOwnRefund, Write,
         queueVars, consumerVars, localVars, documentVars, mailVars, observerVars, Busy, Pending

LEMMA TypeStays ==
    ASSUME TypeOK, [Next]_vars
    PROVE  type' = type
  BY QuietSteps, OwnStepsAlone, HandlerSteps

\* A handler ends with its acknowledgement, or its message goes to the dead letters.
LEMMA HandlerEnds ==
    ASSUME TypeOK, NEW c \in Consumers, Handle(c)
    PROVE  /\ step'[c] = "idle" => step[c] = "ack" \/ message[c] \in deadLetters'
           /\ deadLetters \subseteq deadLetters'
  <1>. USE DEF Goes, Proceeds, Read, Store, DeadLetter
  <1>1. step \in [Consumers -> Steps]
    BY DEF TypeOK
  <1>2. CASE CreateTransaction(c) \/ RemoveBusinessExamples(c) \/ ReadExisting(c)
    BY <1>1, <1>2 DEF CreateTransaction, RemoveBusinessExamples, ReadExisting
  <1>3. CASE UpdateByUuid(c) \/ RemoveByUuid(c) \/ Ack(c) \/ FindMigrated(c)
    BY <1>1, <1>3 DEF UpdateByUuid, RemoveByUuid, Ack, FindMigrated
  <1>4. CASE CreateOrUpdate(c) \/ UpdateHistoryByUuid(c) \/ ProcessMigrated(c)
    BY <1>1, <1>4 DEF CreateOrUpdate, UpdateHistoryByUuid, ProcessMigrated
  <1>5. CASE PushHistoryRecord(c) \/ HandleInternalRefund(c) \/ OnTransactionSubmitted(c)
    BY <1>1, <1>5 DEF PushHistoryRecord, HandleInternalRefund, OnTransactionSubmitted
  <1>6. CASE \/ OnShippingOrderProcessed(c) \/ SetShippingOrderProcessed(c)
             \/ ProduceShippingEvent(c)
    BY <1>1, <1>6 DEF OnShippingOrderProcessed, SetShippingOrderProcessed, ProduceShippingEvent
  <1>7. CASE \/ OnActionCompleted(c) \/ OnHistoryAdd(c) \/ OnShippingDocumentDownloaded(c)
             \/ OnPaymentMailSent(c)
    BY <1>1, <1>7 DEF OnActionCompleted, OnHistoryAdd, OnShippingDocumentDownloaded,
                      OnPaymentMailSent, FindForHistory
  <1>8. CASE Announce(c)
    <2>1. step'[c] \in {"read", "update"} /\ deadLetters' = deadLetters
      BY <1>1, <1>8 DEF Announce
    <2>. QED
      BY <2>1
  <1>. QED
    BY <1>2, <1>3, <1>4, <1>5, <1>6, <1>7, <1>8 DEF Handle, queueVars, observerVars

\* The greatest of some of the first numbers is one of them.
LEMMA GreatestNumber ==
    ASSUME NEW p \in Nat, NEW S \in SUBSET (1..p), S # {}
    PROVE  Max(S) \in S /\ \A x \in S : x <= Max(S)
  <1>. DEFINE T == {p - x : x \in S}
  <1>1. T \in SUBSET Nat /\ T # {}
    <2>1. \A x \in S : p - x \in Nat /\ p - x \in T
      OBVIOUS
    <2>. QED
      BY <2>1
  <1>2. PICK n \in T : \A m \in T : n <= m
    BY <1>1, LeastNumber
  <1>3. PICK x \in S : n = p - x
    BY <1>2
  <1>4. \A y \in S : x >= y
    <2>. SUFFICES ASSUME NEW y \in S
                  PROVE  x >= y
      OBVIOUS
    <2>1. n <= p - y
      BY <1>2
    <2>. QED
      BY <1>3, <2>1
  <1>5. Max(S) \in S /\ \A y \in S : Max(S) >= y
    BY <1>4 DEF Max
  <1>6. \A y \in S : y <= Max(S)
    BY <1>5
  <1>. QED
    BY <1>5, <1>6

-----------------------------------------------------------------------------
(* The last message about the status.                                      *)

\* The steps of a handler after it wrote the status.
AfterWrite == {"examples", "history", "net", "ack"}

\* What the message at p asks to be stored.
AskedAt(p) == IF log[p].kind = "remove" THEN NoDocument ELSE log[p].status

\* What a handler does about the status: it writes it, gives its message up, or leaves
\* the status alone and has its write still before it.
LEMMA HandleWrites ==
    ASSUME TypeOK, StepInv, NEW c \in Consumers, Handle(c)
    PROVE  \/ /\ log[message[c]].kind \in WriteKinds
              /\ stored' = AskedAt(message[c]) /\ step[c] \notin AfterWrite
           \/ message[c] \in deadLetters' /\ UNCHANGED <<stored, answered>>
           \/ /\ UNCHANGED <<stored, answered>>
              /\ log[message[c]].kind \in WriteKinds /\ step[c] \notin AfterWrite =>
                     step'[c] \notin AfterWrite \cup {"idle"}
  <1>. USE DEF Goes, Proceeds, Read, Store, DeadLetter, Write, documentVars, observerVars
  <1>1. /\ step \in [Consumers -> Steps]
        /\ IsStepOf(step[c], log[message[c]].kind)
    BY HandlerSteps DEF TypeOK, StepInv, Busy
  <1>2. CASE CreateTransaction(c) \/ UpdateByUuid(c) \/ RemoveByUuid(c)
    BY <1>1, <1>2 DEF CreateTransaction, UpdateByUuid, RemoveByUuid, IsStepOf, WriteKinds,
                      AskedAt, Status, AfterWrite
  <1>3. CASE CreateOrUpdate(c) \/ UpdateHistoryByUuid(c)
    BY <1>1, <1>3 DEF CreateOrUpdate, UpdateHistoryByUuid, IsStepOf, WriteKinds,
                      AskedAt, Status, AfterWrite
  <1>4. CASE RemoveBusinessExamples(c) \/ ReadExisting(c) \/ Ack(c) \/ FindMigrated(c)
             \/ ProcessMigrated(c)
    BY <1>1, <1>4 DEF RemoveBusinessExamples, ReadExisting, Ack, FindMigrated, ProcessMigrated,
                      AfterWrite
  <1>5. CASE PushHistoryRecord(c) \/ HandleInternalRefund(c) \/ OnTransactionSubmitted(c)
    BY <1>1, <1>5 DEF PushHistoryRecord, HandleInternalRefund, OnTransactionSubmitted,
                      IsStepOf, WriteKinds
  <1>6. CASE \/ OnShippingOrderProcessed(c) \/ SetShippingOrderProcessed(c)
             \/ ProduceShippingEvent(c)
    BY <1>1, <1>6 DEF OnShippingOrderProcessed, SetShippingOrderProcessed,
                      ProduceShippingEvent, IsStepOf, WriteKinds
  <1>7. CASE \/ OnActionCompleted(c) \/ OnHistoryAdd(c) \/ OnShippingDocumentDownloaded(c)
             \/ OnPaymentMailSent(c)
    BY <1>1, <1>7 DEF OnActionCompleted, OnHistoryAdd, OnShippingDocumentDownloaded,
                      OnPaymentMailSent, FindForHistory, IsStepOf, WriteKinds
  <1>8. CASE Announce(c)
    <2>1. step'[c] \in {"read", "update"} /\ UNCHANGED <<stored, answered>>
      BY <1>1, <1>8 DEF Announce
    <2>. QED
      BY <2>1 DEF AfterWrite
  <1>. QED
    BY <1>2, <1>3, <1>4, <1>5, <1>6, <1>7, <1>8 DEF Handle

\* A message about the status that did not overtake one has none before it left, and
\* the last one is stored once its handler has written, unless something stood in its way.
LastInv ==
    \A p \in Places(WriteKinds) \ (queue \cup overtaking) :
        /\ \A q \in Places(WriteKinds) \cap Pending : p <= q
        /\ (\A q \in Places(WriteKinds) : q <= p) =>
               \/ p \in deadLetters \/ answered \/ stored = AskedAt(p)
               \/ \E c \in Busy : message[c] = p /\ step[c] \notin AfterWrite

\* A message that is taken overtakes another or has none before it.
LEMMA TakenInOrder ==
    ASSUME TypeOK, NEW c \in Consumers, Take(c), Min(queue) \in Places(WriteKinds)
    PROVE  \/ Min(queue) \in overtaking'
           \/ \A q \in Places(WriteKinds) \cap Pending : Min(queue) <= q
  <1>1. Min(queue) \in DOMAIN log /\ \A p \in queue : Min(queue) <= p
    BY FirstWaiting DEF Take
  <1>2. CASE Overtakes(Min(queue))
    BY <1>2 DEF Take
  <1>3. CASE ~Overtakes(Min(queue))
    <2>1. DOMAIN log \subseteq Nat
      BY LenProperties DEF TypeOK
    <2>2. \A d \in Busy : message[d] \in Places(WriteKinds) => ~(message[d] < Min(queue))
      BY <1>3 DEF Overtakes
    <2>3. \A d \in Busy : message[d] \in Nat
      BY <2>1, HandledMessage DEF Busy
    <2>4. \A d \in Busy : message[d] \in Places(WriteKinds) => Min(queue) <= message[d]
      BY <1>1, <2>1, <2>2, <2>3
    <2>. QED
      BY <1>1, <2>4 DEF Pending
  <1>. QED
    BY <1>2, <1>3

\* Every step keeps this.
LEMMA NextLast ==
    ASSUME BaseInv, LastInv, [Next]_vars
    PROVE  LastInv'
  <1>. USE DEF BaseInv
  <1>1. /\ Moved /\ \A p \in DOMAIN log : log'[p] = log[p]
        /\ Places(WriteKinds) \subseteq Places(WriteKinds)' /\ Places(WriteKinds) \subseteq DOMAIN log
        /\ \A p \in Places(WriteKinds)' : p \in DOMAIN log => p \in Places(WriteKinds)
        /\ \A p \in Places(WriteKinds)' \ Places(WriteKinds) : p = Len(log) + 1 /\ p \in queue'
        /\ DOMAIN log \subseteq Nat /\ DOMAIN log = 1..Len(log) /\ Len(log) \in Nat
    BY NextMoves, LogKept, PlacesGrow DEF Places
  <1>2. overtaking \subseteq overtaking'
    BY HandlerSteps, OwnStepsAlone
    DEF Next, Publish, MailSent, Take, Crash, vars, observerVars
  <1>3. SUFFICES ASSUME NEW p \in Places(WriteKinds)', p \notin queue' \cup overtaking'
                 PROVE  /\ \A q \in Places(WriteKinds)' \cap Pending' : p <= q
                        /\ (\A q \in Places(WriteKinds)' : q <= p) =>
                               \/ p \in deadLetters' \/ answered' \/ stored' = AskedAt(p)'
                               \/ \E c \in Busy' : message'[c] = p /\ step'[c] \notin AfterWrite
    BY DEF LastInv
  <1>4. p \in Places(WriteKinds) /\ p \in DOMAIN log /\ p \notin overtaking /\ AskedAt(p)' = AskedAt(p)
    BY <1>1, <1>2, <1>3 DEF AskedAt
  <1>5. CASE p \in queue
    <2>1. PICK c \in Busy' : /\ Take(c) /\ p = Min(queue) /\ message'[c] = p
                             /\ step'[c] = FirstStep(log[p].kind)
      BY <1>1, <1>3, <1>5 DEF Moved
    <2>2. c \in Consumers /\ log' = log
      BY <2>1 DEF Busy, Take
    <2>3. \A q \in Places(WriteKinds) \cap Pending : p <= q
      BY <1>3, <1>4, <2>1, <2>2, TakenInOrder
    <2>4. \A q \in Places(WriteKinds)' \cap Pending' : p <= q
      BY <1>1, <2>2, <2>3 DEF Moved, Places
    <2>5. step'[c] \notin AfterWrite
      BY <1>4, <2>1 DEF Places, WriteKinds, FirstStep, AfterWrite
    <2>. QED
      BY <2>1, <2>4, <2>5
  <1>6. CASE p \notin queue
    <2>1. /\ \A q \in Places(WriteKinds) \cap Pending : p <= q
          /\ (\A q \in Places(WriteKinds) : q <= p) =>
                 \/ p \in deadLetters \/ answered \/ stored = AskedAt(p)
                 \/ \E c \in Busy : message[c] = p /\ step[c] \notin AfterWrite
      BY <1>4, <1>6 DEF LastInv
    <2>2. \A q \in Places(WriteKinds)' \cap Pending' : p <= q
      <3>. SUFFICES ASSUME NEW q \in Places(WriteKinds)' \cap Pending'
                    PROVE  p <= q
        OBVIOUS
      <3>1. CASE q \in DOMAIN log
        BY <1>1, <2>1, <3>1 DEF Moved
      <3>2. CASE q \notin DOMAIN log
        <4>1. q = Len(log) + 1
          BY <1>1, <3>2
        <4>2. p \in 1..Len(log) /\ Len(log) \in Nat
          BY <1>1, <1>4
        <4>. QED
          BY <4>1, <4>2
      <3>. QED
        BY <3>1, <3>2
    <2>3. SUFFICES ASSUME \A q \in Places(WriteKinds)' : q <= p
                   PROVE  \/ p \in deadLetters' \/ answered' \/ stored' = AskedAt(p)
                          \/ \E c \in Busy' : message'[c] = p /\ step'[c] \notin AfterWrite
      BY <1>4, <2>2
    <2>4. \/ p \in deadLetters \/ answered \/ stored = AskedAt(p)
          \/ \E c \in Busy : message[c] = p /\ step[c] \notin AfterWrite
      BY <1>1, <2>1, <2>3
    <2>5. CASE \A c \in Consumers : ~Handle(c)
      <3>1. deadLetters' = deadLetters /\ (UNCHANGED <<stored, answered>> \/ answered')
        BY <2>5, QuietSteps, OwnStepsAlone DEF OwnStep, BeginOwnAction, StoreAnswer,
           RecordOwnAction, SubtractOwnRefund, documentVars, observerVars
      <3>2. ASSUME NEW c \in Busy, message[c] = p, step[c] \notin AfterWrite
            PROVE  c \in Busy' /\ message'[c] = p /\ step'[c] \notin AfterWrite
        BY <1>1, <1>3, <2>5, <3>2 DEF Moved, Busy
      <3>. QED
        BY <2>4, <3>1, <3>2
    <2>6. ASSUME NEW c \in Consumers, Handle(c)
          PROVE  \/ p \in deadLetters' \/ answered' \/ stored' = AskedAt(p)
                 \/ \E d \in Busy' : message'[d] = p /\ step'[d] \notin AfterWrite
      <3>1. /\ deadLetters \subseteq deadLetters' /\ c \in Busy
            /\ message[c] \in DOMAIN log /\ message[c] \in Pending
            /\ \A d \in Busy : d = c \/ (d \in Busy' /\ message'[d] = message[d] /\ step'[d] = step[d])
            /\ step'[c] # "idle" => c \in Busy' /\ message'[c] = message[c]
            /\ \A d \in Busy : message[d] = message[c] => d = c
        BY <2>6, HandlerEnds, HandlerSteps, HandledMessage, OthersStay
        DEF Pending, Busy, TypeOK, HeldOnce
      <3>2. CASE message[c] = p
        BY <1>4, <2>4, <2>6, <3>1, <3>2, HandleWrites DEF Places
      <3>3. CASE message[c] # p
        <4>1. log[message[c]].kind \notin WriteKinds
          <5>. SUFFICES ASSUME message[c] \in Places(WriteKinds)
                        PROVE  FALSE
            BY <3>1 DEF Places
          <5>1. message[c] <= p /\ p <= message[c] /\ message[c] \in Nat /\ p \in Nat
            BY <1>1, <1>4, <2>1, <2>3, <3>1
          <5>. QED
            BY <3>3, <5>1
        <4>2. UNCHANGED <<stored, answered>>
          BY <2>6, <4>1, HandleWrites
        <4>. QED
          BY <2>4, <3>1, <3>3, <4>2
      <3>. QED
        BY <3>2, <3>3
    <2>. QED
      BY <2>5, <2>6
  <1>. QED
    BY <1>5, <1>6

\* However many consumers there are and whatever is delivered again, the last message
\* about the status is stored once all are handled, unless it was refused, overtook an
\* earlier one or met the answer of a provider.
THEOREM LastMessageStands == Spec => []LastMessageWins
  <1>1. Init => LastInv
    <2>. SUFFICES ASSUME Init
                  PROVE  LastInv
      OBVIOUS
    <2>1. Places(WriteKinds) = {}
      BY EmptySeq DEF Init, Places
    <2>. QED
      BY <2>1 DEF LastInv
  <1>2. BaseInv /\ LastInv => LastMessageWins
    <2>. SUFFICES ASSUME BaseInv, LastInv, Pending = {}, Places(WriteKinds) # {}
                  PROVE  LastPlace \in overtaking \cup deadLetters \/ answered \/ stored = Asked
      BY DEF LastMessageWins, Quiet
    <2>1. Len(log) \in Nat /\ Places(WriteKinds) \subseteq 1..Len(log)
      BY LenProperties DEF BaseInv, TypeOK, Places
    <2>2. LastPlace \in Places(WriteKinds) /\ \A q \in Places(WriteKinds) : q <= LastPlace
      BY <2>1, GreatestNumber DEF LastPlace
    <2>3. queue = {} /\ Busy = {}
      BY DEF Pending
    <2>. QED
      BY <2>2, <2>3 DEF LastInv, Asked, AskedAt
  <1>. QED
    BY <1>1, <1>2, InitBase, NextBase, NextLast, PTL DEF Spec

-----------------------------------------------------------------------------
(* What the statistics are told while an update is handled.                *)

\* A consumer that rests remembers nothing.  One that handles an update has told
\* nothing before its last method; and while nobody else changes the transaction it
\* knows what is stored, and has told of the change when it writes.
ToldRight(c) ==
    /\ step[c] = "idle" => told[c] = ToldNothing /\ event[c] = "add" /\ c \notin disturbed
    /\ step[c] \in {"read", "announce"} =>
           /\ told[c] = ToldNothing
           /\ event[c] = "paid" => Status(c) = Paid
           /\ event[c] = "refund" => Status(c) \in {Refunded, Cancelled}
    /\ step[c] = "announce" /\ c \notin disturbed => existing[c].status = stored
    /\ step[c] = "update" /\ c \notin disturbed => ToldOf(c, stored, Status(c))

ToldInv == \A c \in Consumers : ToldRight(c)

\* Whoever writes status or amount disturbs the others that are busy.
Disturbs(c) == c \in disturbed' \/ (stored' = stored /\ (c \in disturbed <=> c \in disturbed'))

\* What a consumer keeps in mind while others move.
LEMMA ToldKept ==
    ASSUME TypeOK, LogInv, [Next]_vars, NEW c \in Consumers, ToldRight(c), Disturbs(c),
           step'[c] = step[c], message'[c] = message[c], event'[c] = event[c],
           existing'[c] = existing[c], told'[c] = told[c],
           c \in disturbed' => c \in Busy
    PROVE  ToldRight(c)'
  <1>1. CASE step[c] = "idle"
    BY <1>1 DEF ToldRight, Busy, Disturbs
  <1>2. CASE step[c] # "idle"
    <2>1. Status(c)' = Status(c)
      BY <1>2, HandledMessage, LogKept DEF Status
    <2>2. ToldOf(c, stored, Status(c)) /\ stored' = stored => ToldOf(c, stored, Status(c))'
      BY <2>1 DEF ToldOf, Changes
    <2>. QED
      BY <1>2, <2>1, <2>2 DEF ToldRight, Disturbs
  <1>. QED
    BY <1>1, <1>2

\* A consumer that rests.
LEMMA ToldResting ==
    ASSUME TypeOK, NEW c \in Consumers, Rests(c)
    PROVE  ToldRight(c)'
  BY DEF TypeOK, Rests, Goes, ToldRight

\* The next method of the statistics, or the write.
LEMMA ToldAnnouncing ==
    ASSUME TypeOK, LogInv, NEW c \in Consumers, ToldRight(c), Announce(c), [Next]_vars
    PROVE  ToldRight(c)'
  <1>. USE DEF Goes, documentVars
  <1>1. /\ step[c] = "announce" /\ event[c] \in StatusEvents /\ message' = message
        /\ told \in [Consumers -> [StatusEvents -> Nat]] /\ told[c] = ToldNothing
        /\ event[c] = "paid" => Status(c) = Paid
        /\ event[c] = "refund" => Status(c) \in {Refunded, Cancelled}
        /\ c \notin disturbed => existing[c].status = stored
        /\ UNCHANGED <<existing, disturbed, stored>>
        /\ step \in [Consumers -> Steps] /\ event \in [Consumers -> StatusEvents]
    BY DEF TypeOK, Announce, ToldRight
  <1>2. Status(c)' = Status(c)
    BY <1>1, HandledMessage, LogKept DEF Status
  <1>3. /\ Accepted # Paid /\ Accepted # Refunded /\ Accepted # Cancelled
        /\ Paid # Refunded /\ Paid # Cancelled
    BY DEF Accepted, Paid, Refunded, Cancelled
  <1>4. CASE Following(event[c], Status(c)) # {}
    <2>1. PICK next \in Following(event[c], Status(c)) : event'[c] = next /\ step'[c] = "read"
      BY <1>1, <1>4 DEF Announce
    <2>2. /\ event[c] = "add" /\ Status(c) \in {Paid, Refunded, Cancelled}
          /\ next = "paid" => Status(c) = Paid
          /\ next = "refund" => Status(c) \in {Refunded, Cancelled}
      BY <2>1 DEF Following
    <2>3. ~IsAnnounced(event[c], existing[c].status, Status(c))
      BY <1>3, <2>2 DEF IsAnnounced
    <2>4. told' = told
      BY <2>3 DEF Announce
    <2>. QED
      BY <1>1, <1>2, <2>1, <2>2, <2>4 DEF ToldRight
  <1>5. CASE Following(event[c], Status(c)) = {}
    <2>1. step'[c] = "update"
      BY <1>1, <1>5 DEF Announce
    <2>2. event[c] = "add" => Status(c) \notin {Paid, Refunded, Cancelled}
      BY <1>5 DEF Following
    <2>3. \A e \in StatusEvents :
              told'[c][e] = IF e = event[c] /\ IsAnnounced(e, existing[c].status, Status(c))
                            THEN 1 ELSE 0
      <3>1. CASE IsAnnounced(event[c], existing[c].status, Status(c))
        <4>1. told' = [told EXCEPT ![c] = [told[c] EXCEPT ![event[c]] = @ + 1]]
          BY <3>1 DEF Announce
        <4>2. told'[c] = [ToldNothing EXCEPT ![event[c]] = @ + 1]
          BY <1>1, <4>1
        <4>. QED
          BY <1>1, <3>1, <4>2 DEF ToldNothing
      <3>2. CASE ~IsAnnounced(event[c], existing[c].status, Status(c))
        BY <1>1, <3>2 DEF Announce, ToldNothing
      <3>. QED
        BY <3>1, <3>2
    <2>4. ASSUME c \notin disturbed
          PROVE  ToldOf(c, stored, Status(c))'
      <3>1. existing[c].status = stored
        BY <1>1, <2>4
      <3>2. \A e \in {"add", "paid"} :
                told'[c][e] = IF Changes(e, stored, Status(c)) THEN 1 ELSE 0
        BY <1>1, <1>3, <2>2, <2>3, <3>1 DEF Changes, IsAnnounced, StatusEvents
      <3>3. Changes("refund", stored, Status(c)) => told'[c]["refund"] = 1
        BY <1>1, <1>3, <2>2, <2>3, <3>1 DEF Changes, IsAnnounced, StatusEvents
      <3>. QED
        BY <1>1, <1>2, <3>2, <3>3 DEF ToldOf, Changes
    <2>. QED
      BY <1>1, <1>2, <2>1, <2>4 DEF ToldRight
  <1>. QED
    BY <1>4, <1>5

\* The other steps of its own handler.
LEMMA ToldHandling ==
    ASSUME TypeOK, StepInv, NEW c \in Consumers, ToldRight(c), Handle(c), ~Announce(c),
           step'[c] # "idle"
    PROVE  ToldRight(c)'
  <1>. USE DEF Goes, Proceeds, Read, Store, DeadLetter, Rests, localVars
  <1>1. step \in [Consumers -> Steps]
    BY DEF TypeOK
  <1>2. CASE ReadExisting(c)
    <2>1. /\ step[c] = "read" /\ step'[c] = "announce" /\ existing'[c].status = stored
          /\ UNCHANGED <<message, event, told, stored, disturbed, log>>
      BY <1>1, <1>2 DEF ReadExisting, documentVars, queueVars, TypeOK
    <2>. QED
      BY <2>1 DEF ToldRight, Status
  <1>3. SUFFICES ASSUME ~ReadExisting(c)
                 PROVE  step'[c] \notin {"read", "announce", "update", "idle"}
    BY <1>2, <1>3 DEF ToldRight
  <1>4. CASE CreateTransaction(c) \/ RemoveBusinessExamples(c)
    BY <1>1, <1>4 DEF CreateTransaction, RemoveBusinessExamples
  <1>5. CASE UpdateByUuid(c) \/ RemoveByUuid(c) \/ Ack(c) \/ FindMigrated(c)
    BY <1>1, <1>5 DEF UpdateByUuid, RemoveByUuid, Ack, FindMigrated
  <1>6. CASE CreateOrUpdate(c) \/ UpdateHistoryByUuid(c) \/ ProcessMigrated(c)
    BY <1>1, <1>6 DEF CreateOrUpdate, UpdateHistoryByUuid, ProcessMigrated
  <1>7. CASE PushHistoryRecord(c) \/ HandleInternalRefund(c) \/ OnTransactionSubmitted(c)
    BY <1>1, <1>7 DEF PushHistoryRecord, HandleInternalRefund, OnTransactionSubmitted
  <1>8. CASE \/ OnShippingOrderProcessed(c) \/ SetShippingOrderProcessed(c)
             \/ ProduceShippingEvent(c)
    BY <1>1, <1>8 DEF OnShippingOrderProcessed, SetShippingOrderProcessed, ProduceShippingEvent
  <1>9. CASE \/ OnActionCompleted(c) \/ OnHistoryAdd(c) \/ OnShippingDocumentDownloaded(c)
             \/ OnPaymentMailSent(c)
    BY <1>1, <1>9 DEF OnActionCompleted, OnHistoryAdd, OnShippingDocumentDownloaded,
                      OnPaymentMailSent, FindForHistory
  <1>. QED
    BY <1>3, <1>4, <1>5, <1>6, <1>7, <1>8, <1>9 DEF Handle

\* A handler leaves the memory of the other consumers alone, but tells them when it
\* changes the transaction.
LEMMA HandleDisturbs ==
    ASSUME TypeOK, NEW c \in Consumers, Handle(c), NEW d \in Consumers \ {c}
    PROVE  /\ event'[d] = event[d] /\ existing'[d] = existing[d] /\ told'[d] = told[d]
           /\ d \in disturbed' => d \in disturbed \/ d \in Busy
           /\ d \in Busy => Disturbs(d)
  <1>. USE DEF Goes, Proceeds, Read, Store, DeadLetter, Rests, Write, localVars, documentVars,
               Disturbs
  <1>1. /\ event \in [Consumers -> StatusEvents] /\ DOMAIN existing = Consumers
        /\ DOMAIN told = Consumers
    BY DEF TypeOK
  <1>2. CASE CreateTransaction(c) \/ RemoveBusinessExamples(c) \/ ReadExisting(c)
    BY <1>1, <1>2 DEF CreateTransaction, RemoveBusinessExamples, ReadExisting
  <1>3. CASE UpdateByUuid(c) \/ RemoveByUuid(c) \/ Ack(c) \/ FindMigrated(c)
    BY <1>1, <1>3 DEF UpdateByUuid, RemoveByUuid, Ack, FindMigrated
  <1>4. CASE CreateOrUpdate(c) \/ UpdateHistoryByUuid(c) \/ ProcessMigrated(c)
    BY <1>1, <1>4 DEF CreateOrUpdate, UpdateHistoryByUuid, ProcessMigrated
  <1>5. CASE PushHistoryRecord(c) \/ HandleInternalRefund(c) \/ OnTransactionSubmitted(c)
    BY <1>1, <1>5 DEF PushHistoryRecord, HandleInternalRefund, OnTransactionSubmitted
  <1>6. CASE \/ OnShippingOrderProcessed(c) \/ SetShippingOrderProcessed(c)
             \/ ProduceShippingEvent(c)
    BY <1>1, <1>6 DEF OnShippingOrderProcessed, SetShippingOrderProcessed, ProduceShippingEvent
  <1>7. CASE \/ OnActionCompleted(c) \/ OnHistoryAdd(c) \/ OnShippingDocumentDownloaded(c)
             \/ OnPaymentMailSent(c)
    BY <1>1, <1>7 DEF OnActionCompleted, OnHistoryAdd, OnShippingDocumentDownloaded,
                      OnPaymentMailSent, FindForHistory
  <1>8. CASE Announce(c)
    <2>1. told' = told \/ \E f : told' = [told EXCEPT ![c] = f]
      BY <1>8 DEF Announce
    <2>2. event' = event \/ \E e : event' = [event EXCEPT ![c] = e]
      BY <1>8 DEF Announce
    <2>3. UNCHANGED <<existing, disturbed, stored>>
      BY <1>8 DEF Announce
    <2>. QED
      BY <1>1, <2>1, <2>2, <2>3
  <1>. QED
    BY <1>2, <1>3, <1>4, <1>5, <1>6, <1>7, <1>8 DEF Handle

\* Every step keeps the memory of every consumer right, and nobody is disturbed who rests.
LEMMA NextTold ==
    ASSUME BaseInv, ToldInv, [Next]_vars
    PROVE  ToldInv'
  <1>. USE DEF BaseInv
  <1>. SUFFICES ASSUME NEW c \in Consumers
                PROVE  ToldRight(c)'
    BY DEF ToldInv
  <1>1. ToldRight(c) /\ (c \in disturbed => c \in Busy) /\ step \in [Consumers -> Steps]
    BY DEF ToldInv, ToldRight, Busy, TypeOK
  <1>2. CASE Publish \/ MailSent \/ UNCHANGED vars
    <2>1. UNCHANGED <<step, message, event, existing, told, stored, disturbed>>
      BY <1>2 DEF Publish, MailSent, vars, consumerVars, localVars, documentVars
    <2>. QED
      BY <1>1, <2>1, ToldKept DEF Disturbs
  <1>3. CASE OwnStep
    <2>1. /\ UNCHANGED <<step, message, event, existing, told>>
          /\ \/ UNCHANGED <<stored, disturbed>>
             \/ disturbed' = disturbed \cup (Consumers \cap Busy)
      BY <1>3 DEF OwnStep, BeginOwnAction, StoreAnswer, RecordOwnAction, SubtractOwnRefund,
                  Write, consumerVars, localVars, documentVars
    <2>2. c \in disturbed' => c \in Busy
      BY <1>1, <2>1
    <2>3. CASE c \in Busy
      BY <1>1, <2>1, <2>2, <2>3, ToldKept DEF Disturbs
    <2>4. CASE c \notin Busy
      BY <1>1, <2>1, <2>2, <2>4 DEF ToldRight, Busy
    <2>. QED
      BY <2>3, <2>4
  <1>4. ASSUME NEW d \in Consumers, Take(d)
        PROVE  ToldRight(c)'
    <2>1. CASE c = d
      <3>1. /\ step[c] = "idle" /\ UNCHANGED <<event, existing, told, disturbed>>
            /\ step'[c] = FirstStep(log[Min(queue)].kind)
        BY <1>1, <1>4, <2>1 DEF Take, Goes
      <3>2. step'[c] \notin {"idle", "announce"}
        <4>1. log[Min(queue)].kind \in Kinds
          BY <1>4, FirstWaiting DEF Take
        <4>. QED
          BY <3>1, <4>1 DEF FirstStep, Kinds
      <3>3. step'[c] # "update"
        BY <3>1 DEF FirstStep
      <3>. QED
        BY <1>1, <3>1, <3>2, <3>3 DEF ToldRight
    <2>2. CASE c # d
      <3>1. /\ step'[c] = step[c] /\ message'[c] = message[c]
            /\ UNCHANGED <<event, existing, told, disturbed, stored>>
        BY <1>4, <2>2 DEF Take, Goes, TypeOK, documentVars
      <3>. QED
        BY <1>1, <3>1, ToldKept DEF Disturbs
    <2>. QED
      BY <2>1, <2>2
  <1>5. ASSUME NEW d \in Consumers, Crash(d)
        PROVE  ToldRight(c)'
    <2>1. CASE c = d
      BY <1>5, <2>1, ToldResting DEF Crash
    <2>2. CASE c # d
      <3>1. /\ step'[c] = step[c] /\ message'[c] = message[c] /\ event'[c] = event[c]
            /\ existing'[c] = existing[c] /\ told'[c] = told[c] /\ stored' = stored
            /\ (c \in disturbed <=> c \in disturbed')
        BY <1>5, <2>2 DEF Crash, Rests, Goes, TypeOK, documentVars
      <3>. QED
        BY <1>1, <3>1, ToldKept DEF Disturbs
    <2>. QED
      BY <2>1, <2>2
  <1>6. ASSUME NEW d \in Consumers, Handle(d)
        PROVE  ToldRight(c)'
    <2>1. CASE c = d
      <3>1. CASE step'[c] = "idle"
        BY <1>6, <2>1, <3>1, HandlerSteps, ToldResting
      <3>2. CASE Announce(c)
        BY <1>1, <3>2, ToldAnnouncing
      <3>3. CASE ~Announce(c) /\ step'[c] # "idle"
        BY <1>1, <1>6, <2>1, <3>3, ToldHandling
      <3>. QED
        BY <3>1, <3>2, <3>3
    <2>2. CASE c # d
      <3>1. /\ event'[c] = event[c] /\ existing'[c] = existing[c] /\ told'[c] = told[c]
            /\ c \in disturbed' => c \in disturbed \/ c \in Busy
            /\ c \in Busy => Disturbs(c)
            /\ step'[c] = step[c] /\ message'[c] = message[c]
        BY <1>6, <2>2, HandleDisturbs, OthersStay
      <3>2. CASE c \in Busy
        BY <1>1, <3>1, <3>2, ToldKept
      <3>3. CASE c \notin Busy
        BY <1>1, <3>1, <3>3 DEF ToldRight, Busy
      <3>. QED
        BY <3>2, <3>3
    <2>. QED
      BY <2>1, <2>2
  <1>. QED
    BY <1>2, <1>3, <1>4, <1>5, <1>6 DEF Next

\* However many consumers and actions write meanwhile and however often it is delivered,
\* the handling of an update tells the statistics of what its write changes, unless
\* another changes the transaction during this handling.
THEOREM UpdatesTellStatistics == Spec => UpdatesAreAnnounced
  <1>1. Init => ToldInv
    BY DEF Init, ToldInv, ToldRight, ToldNothing
  <1>2. ASSUME BaseInv, ToldInv, [Next]_vars
        PROVE  [\A c \in Consumers :
                   (step[c] = "update" /\ step'[c] = "ack" /\ c \notin disturbed)
                       => ToldOf(c, stored, stored')]_vars
    <2>. SUFFICES ASSUME NEW c \in Consumers, step[c] = "update", step'[c] = "ack",
                         c \notin disturbed
                  PROVE  ToldOf(c, stored, stored')
      OBVIOUS
    <2>1. ToldOf(c, stored, Status(c))
      BY <1>2 DEF ToldInv, ToldRight
    <2>2. Handle(c)
      <3>1. c \in Busy'
        BY DEF Busy
      <3>. QED
        BY <1>2, <3>1, NextMoves DEF BaseInv, Moved, Take, Goes, TypeOK, FirstStep
    <2>3. UpdateByUuid(c)
      BY <2>2
      DEF Handle, CreateTransaction, RemoveBusinessExamples, ReadExisting, Announce, RemoveByUuid,
          Ack, FindMigrated, CreateOrUpdate, UpdateHistoryByUuid, ProcessMigrated,
          OnActionCompleted, OnHistoryAdd, OnShippingDocumentDownloaded, OnPaymentMailSent,
          PushHistoryRecord, HandleInternalRefund, OnTransactionSubmitted,
          OnShippingOrderProcessed, SetShippingOrderProcessed, ProduceShippingEvent
    <2>4. stored' = Status(c)
      BY <2>3 DEF UpdateByUuid, Store, Write
    <2>. QED
      BY <2>1, <2>4
  <1>. QED
    BY <1>1, <1>2, InitBase, NextBase, NextTold, PTL DEF Spec, UpdatesAreAnnounced

-----------------------------------------------------------------------------
(* What the history keeps.                                                 *)

Resets == Places(ResetKinds)

\* The messages that bring entries, and the one that takes others away with them.
BringKinds == {"migrate", "completed", "added", "downloaded", "mailsent"}

Brought(p) == Range(log[p].entries) \subseteq Range(history)

\* The entries of p are there or will be: nothing takes entries away but p itself, as
\* often as it is handled, and its handler finds the transaction.
Keeps(p) ==
    \/ \E r \in Resets : r > p
    \/ /\ log[p].kind \in BringKinds
       /\ Resets \cap Pending \subseteq {p}
       /\ log[p].kind # "migrate" => stored # NoDocument
       /\ log[p].kind \in {"completed", "added"} => IsTaken(log[p].kind, log[p].entries[1])
       /\ p \notin Pending => Brought(p) \/ (p \in deadLetters /\ log[p].kind = "migrate")
       /\ \A c \in Busy : message[c] = p /\ step[c] \in {"net", "ack"} => Brought(p)

\* So is the entry of the service's own action.
KeepsOwn ==
    own.step \in {"pushed", "recorded"} /\ own.safe =>
        \/ \E r \in Resets : r > own.at
        \/ Resets \cap Pending = {} /\ own.action.entry \in Range(history)

KeptInv == (\A p \in expected : Keeps(p)) /\ KeepsOwn

\* What comes to the end of a history is in it, and what was in it stays.
LEMMA RangeOfMore ==
    ASSUME NEW s \in Seq(Entry), NEW t \in Seq(Entry)
    PROVE  Range(s \o t) = Range(s) \cup Range(t)
  <1>1. /\ s \o t \in Seq(Entry) /\ Len(s) \in Nat /\ Len(t) \in Nat
        /\ DOMAIN s = 1..Len(s) /\ DOMAIN t = 1..Len(t)
        /\ DOMAIN (s \o t) = 1..(Len(s) + Len(t))
        /\ \A i \in 1..(Len(s) + Len(t)) :
              (s \o t)[i] = IF i <= Len(s) THEN s[i] ELSE t[i - Len(s)]
    BY ConcatProperties, LenProperties
  <1>2. ASSUME NEW x \in Range(s) \cup Range(t)
        PROVE  x \in Range(s \o t)
    <2>1. CASE x \in Range(s)
      <3>1. PICK i \in 1..Len(s) : x = s[i]
        BY <1>1, <2>1 DEF Range
      <3>2. i \in 1..(Len(s) + Len(t)) /\ (s \o t)[i] = x
        BY <1>1, <3>1
      <3>. QED
        BY <1>1, <3>2 DEF Range
    <2>2. CASE x \in Range(t)
      <3>1. PICK i \in 1..Len(t) : x = t[i]
        BY <1>1, <2>2 DEF Range
      <3>2. /\ i + Len(s) \in 1..(Len(s) + Len(t)) /\ ~(i + Len(s) <= Len(s))
            /\ (i + Len(s)) - Len(s) = i
        BY <1>1, <3>1
      <3>3. (s \o t)[i + Len(s)] = x
        BY <1>1, <3>1, <3>2
      <3>. QED
        BY <1>1, <3>2, <3>3 DEF Range
    <2>. QED
      BY <2>1, <2>2
  <1>3. ASSUME NEW x \in Range(s \o t)
        PROVE  x \in Range(s) \cup Range(t)
    <2>1. PICK i \in 1..(Len(s) + Len(t)) : x = (s \o t)[i]
      BY <1>1, <1>3 DEF Range
    <2>2. CASE i <= Len(s)
      BY <1>1, <2>1, <2>2 DEF Range
    <2>3. CASE ~(i <= Len(s))
      <3>1. i - Len(s) \in 1..Len(t) /\ x = t[i - Len(s)]
        BY <1>1, <2>1, <2>3
      <3>. QED
        BY <1>1, <3>1 DEF Range
    <2>. QED
      BY <2>2, <2>3
  <1>. QED
    BY <1>2, <1>3

LEMMA RangeOfOneMore ==
    ASSUME NEW s \in Seq(Entry), NEW e \in Entry
    PROVE  Range(Append(s, e)) = Range(s) \cup {e}
  <1>1. /\ DOMAIN s = 1..Len(s) /\ Len(s) \in Nat
        /\ DOMAIN Append(s, e) = 1..(Len(s) + 1)
        /\ \A i \in 1..Len(s) : Append(s, e)[i] = s[i]
        /\ Append(s, e)[Len(s) + 1] = e
    BY AppendProperties, LenProperties
  <1>2. \A x : x \in Range(Append(s, e)) <=> x \in Range(s) \/ x = e
    BY <1>1 DEF Range
  <1>. QED
    BY <1>2

\* What handlers do about the history.  Only those of removals and migrations take from
\* it.  The one of a message about an action that finds the transaction pushes the entry
\* before it acknowledges, and that of a migration writes the history it came with.
LEMMA HandleHistory ==
    ASSUME TypeOK, LogInv, StepInv, NEW c \in Consumers, Handle(c)
    PROVE  /\ log[message[c]].kind \notin ResetKinds =>
                  /\ Range(history) \subseteq Range(history')
                  /\ stored # NoDocument => stored' # NoDocument
           /\ (/\ log[message[c]].kind \in BringKinds
               /\ log[message[c]].kind # "migrate" => stored # NoDocument
               /\ log[message[c]].kind \in {"completed", "added"} =>
                      IsTaken(log[message[c]].kind, log[message[c]].entries[1])) =>
                  \/ step'[c] \in {"net", "ack"} /\ Range(Entries(c)) \subseteq Range(history')
                  \/ step'[c] \in {"net", "ack", "idle"} /\ step[c] \in {"net", "ack"}
                     /\ history' = history
                  \/ step'[c] = "idle" /\ log[message[c]].kind = "migrate"
                     /\ message[c] \in deadLetters'
                  \/ step'[c] \notin {"net", "ack", "idle"}
  <1>. USE DEF Goes, Proceeds, Read, Store, DeadLetter, Rests, Write, documentVars
  <1>1. /\ step \in [Consumers -> Steps] /\ history \in Seq(Entry) /\ Entries(c) \in Seq(Entry)
        /\ IsStepOf(step[c], log[message[c]].kind) /\ c \in Busy
        /\ Status(c) \in Statuses /\ NoDocument \notin Statuses
    BY HandlerSteps, HandledMessage, ScriptsAssumption DEF TypeOK, StepInv, Busy
  <1>. USE DEF IsStepOf, ResetKinds, BringKinds
  <1>2. CASE CreateTransaction(c) \/ RemoveBusinessExamples(c) \/ ReadExisting(c)
    BY <1>1, <1>2 DEF CreateTransaction, RemoveBusinessExamples, ReadExisting
  <1>3. CASE UpdateByUuid(c)
    BY <1>1, <1>3 DEF UpdateByUuid
  <1>4. CASE RemoveByUuid(c) \/ Ack(c) \/ FindMigrated(c)
    BY <1>1, <1>4 DEF RemoveByUuid, Ack, FindMigrated
  <1>5. CASE CreateOrUpdate(c) \/ UpdateHistoryByUuid(c) \/ ProcessMigrated(c)
    BY <1>1, <1>5 DEF CreateOrUpdate, UpdateHistoryByUuid, ProcessMigrated
  <1>6. CASE PushHistoryRecord(c)
    <2>1. log[message[c]].kind \in {"completed", "added", "downloaded", "mailsent"}
          /\ step[c] = "push" /\ stored' = stored
      BY <1>1, <1>6 DEF PushHistoryRecord
    <2>2. CASE stored = NoDocument
      BY <1>1, <1>6, <2>1, <2>2 DEF PushHistoryRecord
    <2>3. CASE stored # NoDocument
      <3>1. history' = history \o Entries(c) /\ step'[c] = "ack"
        BY <1>1, <1>6, <2>3 DEF PushHistoryRecord
      <3>2. Range(history') = Range(history) \cup Range(Entries(c))
        BY <1>1, <3>1, RangeOfMore
      <3>. QED
        BY <2>1, <3>1, <3>2
    <2>. QED
      BY <2>2, <2>3
  <1>7. CASE HandleInternalRefund(c) \/ OnTransactionSubmitted(c)
    BY <1>1, <1>7 DEF HandleInternalRefund, OnTransactionSubmitted
  <1>8. CASE \/ OnShippingOrderProcessed(c) \/ SetShippingOrderProcessed(c)
             \/ ProduceShippingEvent(c)
    BY <1>1, <1>8 DEF OnShippingOrderProcessed, SetShippingOrderProcessed, ProduceShippingEvent
  <1>9. CASE \/ OnActionCompleted(c) \/ OnHistoryAdd(c) \/ OnShippingDocumentDownloaded(c)
             \/ OnPaymentMailSent(c)
    BY <1>1, <1>9 DEF OnActionCompleted, OnHistoryAdd, OnShippingDocumentDownloaded,
                      OnPaymentMailSent, FindForHistory, Entries
  <1>10. CASE Announce(c)
    <2>1. step'[c] \in {"read", "update"} /\ UNCHANGED <<history, stored>>
      BY <1>1, <1>10 DEF Announce
    <2>. QED
      BY <2>1
  <1>. QED
    BY <1>2, <1>3, <1>4, <1>5, <1>6, <1>7, <1>8, <1>9, <1>10 DEF Handle

\* The service's own action takes nothing from the history and removes nothing.
LEMMA OwnKeeps ==
    ASSUME TypeOK, OwnStep
    PROVE  /\ Range(history) \subseteq Range(history')
           /\ stored # NoDocument => stored' # NoDocument
           /\ \/ own'.step \notin {"pushed", "recorded"}
              \/ own'.safe = own.safe /\ own'.at = own.at /\ own'.action = own.action
                 /\ own.step \in {"pushed", "recorded"}
              \/ /\ own'.safe = HistoryIsSafe /\ own'.action = own.action
                 /\ own.action.entry \in Range(history')
  <1>. USE DEF documentVars, OwnGoes
  <1>1. /\ own \in [step: OwnSteps, action: OwnActions, read: Statuses \cup {NoDocument},
                    at: 0..Len(log), safe: BOOLEAN]
        /\ history \in Seq(Entry) /\ own.action.entry \in Entry
        /\ own.action.status \in Statuses /\ NoDocument \notin Statuses
    BY StoredFields DEF TypeOK
  <1>2. CASE BeginOwnAction
    BY <1>1, <1>2 DEF BeginOwnAction
  <1>3. CASE StoreAnswer
    BY <1>1, <1>3 DEF StoreAnswer, Write
  <1>4. CASE RecordOwnAction
    <2>1. CASE stored = NoDocument
      BY <1>1, <1>4, <2>1 DEF RecordOwnAction
    <2>2. CASE stored # NoDocument
      <3>1. history' = Append(history, own.action.entry)
        BY <1>4, <2>2 DEF RecordOwnAction
      <3>2. Range(history') = Range(history) \cup {own.action.entry}
        BY <1>1, <3>1, RangeOfOneMore
      <3>3. own'.safe = HistoryIsSafe /\ own'.action = own.action /\ stored' = stored
        BY <1>1, <1>4, <2>2 DEF RecordOwnAction
      <3>. QED
        BY <3>2, <3>3
    <2>. QED
      BY <2>1, <2>2
  <1>5. CASE SubtractOwnRefund
    BY <1>1, <1>5 DEF SubtractOwnRefund
  <1>. QED
    BY <1>2, <1>3, <1>4, <1>5 DEF OwnStep

\* A message that is expected from now on.
LEMMA NewExpected ==
    ASSUME TypeOK, LogInv, [Next]_vars, NEW p \in expected', p \notin expected
    PROVE  /\ p = Len(log) + 1 /\ p \in queue' /\ p \in DOMAIN log' /\ HistoryIsSafe
           /\ log'[p].kind \in BringKinds /\ UNCHANGED <<stored, type>>
           /\ log'[p].kind # "migrate" => stored # NoDocument
           /\ log'[p].kind \in {"completed", "added"} => IsTaken(log'[p].kind, log'[p].entries[1])
  <1>1. PICK m \in Message : Enqueue(m) /\ UNCHANGED <<stored, type>>
    BY LogGrows
  <1>2. p = Len(log) + 1 /\ IsExpected(m)
    BY <1>1 DEF Enqueue
  <1>3. log'[p] = m /\ p \in queue' /\ p \in DOMAIN log'
    BY <1>1, <1>2, GrownLog DEF TypeOK
  <1>. QED
    BY <1>1, <1>2, <1>3 DEF IsExpected, BringKinds

\* What every step does to the messages that take entries away.
LEMMA ResetsMove ==
    ASSUME TypeOK, LogInv, [Next]_vars
    PROVE  /\ Resets \subseteq Resets' /\ Len(log) \in Nat /\ DOMAIN log = 1..Len(log)
           /\ \A r \in Resets' \cap Pending' : r \in Resets \cap Pending \/ r = Len(log) + 1
           /\ \A r \in Resets' : r \in Resets \/ r = Len(log) + 1
           /\ Len(log) + 1 \notin DOMAIN log
  <1>1. /\ Resets \subseteq Resets' /\ Resets \subseteq DOMAIN log
        /\ \A r \in Resets' : r \in Resets \/ r = Len(log) + 1
        /\ Len(log) \in Nat /\ DOMAIN log = 1..Len(log)
    BY PlacesGrow, LogKept DEF Resets, Places
  <1>2. \A r \in Resets' \cap Pending' : r \in Resets \cap Pending \/ r = Len(log) + 1
    BY <1>1, NextMoves DEF Moved
  <1>. QED
    BY <1>1, <1>2

\* Every step keeps what the history should keep of a message.
LEMMA NextKeeps ==
    ASSUME BaseInv, KeptInv, [Next]_vars, NEW p \in expected'
    PROVE  Keeps(p)'
  <1>. USE DEF BaseInv
  <1>1. /\ Resets \subseteq Resets' /\ Len(log) \in Nat /\ DOMAIN log = 1..Len(log)
        /\ \A r \in Resets' \cap Pending' : r \in Resets \cap Pending \/ r = Len(log) + 1
        /\ \A r \in Resets' : r \in Resets \/ r = Len(log) + 1
        /\ \A q \in DOMAIN log : log'[q] = log[q]
        /\ type' = type /\ Moved /\ Len(log) + 1 \notin DOMAIN log
    BY ResetsMove, LogKept, TypeStays, NextMoves
  <1>2. CASE p \notin expected
    <2>1. /\ p = Len(log) + 1 /\ p \in queue' /\ p \in DOMAIN log' /\ HistoryIsSafe
          /\ log'[p].kind \in BringKinds /\ UNCHANGED <<stored, type>>
          /\ log'[p].kind # "migrate" => stored # NoDocument
          /\ log'[p].kind \in {"completed", "added"} => IsTaken(log'[p].kind, log'[p].entries[1])
      BY <1>2, NewExpected
    <2>2. Resets' \cap Pending' \subseteq {p}
      BY <1>1, <2>1 DEF HistoryIsSafe, Resets
    <2>3. p \in Pending' /\ \A c \in Busy' : message'[c] # p
      BY <2>1, HandledMessage, NextTypeOK DEF Pending, TypeOK, HeldOnce, Busy
    <2>4. log'[p].kind \in {"completed", "added"} => IsTaken(log[p].kind, log[p].entries[1])'
      BY <2>1 DEF IsTaken
    <2>. QED
      BY <2>1, <2>2, <2>3, <2>4 DEF Keeps
  <1>3. CASE p \in expected
    <2>0. Keeps(p) /\ p \in DOMAIN log /\ log'[p] = log[p] /\ p <= Len(log)
      BY <1>1, <1>3 DEF KeptInv, TypeOK
    <2>1. CASE \E r \in Resets' : r > p
      BY <2>1 DEF Keeps
    <2>2. CASE ~(\E r \in Resets' : r > p)
      <3>1. /\ log[p].kind \in BringKinds
            /\ Resets \cap Pending \subseteq {p}
            /\ log[p].kind # "migrate" => stored # NoDocument
            /\ log[p].kind \in {"completed", "added"} => IsTaken(log[p].kind, log[p].entries[1])
            /\ p \notin Pending => Brought(p) \/ (p \in deadLetters /\ log[p].kind = "migrate")
            /\ \A c \in Busy : message[c] = p /\ step[c] \in {"net", "ack"} => Brought(p)
        BY <1>1, <2>0, <2>2 DEF Keeps
      <3>2. Resets' \cap Pending' \subseteq {p}
        <4>1. Len(log) + 1 > p
          BY <1>1, <2>0
        <4>. QED
          BY <1>1, <2>2, <3>1, <4>1
      <3>3. log'[p].kind \in {"completed", "added"} => IsTaken(log[p].kind, log[p].entries[1])'
        BY <1>1, <2>0, <3>1 DEF IsTaken
      <3>4. SUFFICES /\ log[p].kind # "migrate" => stored' # NoDocument
                     /\ p \notin Pending' =>
                            Brought(p)' \/ (p \in deadLetters' /\ log[p].kind = "migrate")
                     /\ \A c \in Busy' :
                            message'[c] = p /\ step'[c] \in {"net", "ack"} => Brought(p)'
        BY <2>0, <3>1, <3>2, <3>3 DEF Keeps
      <3>5. Range(history) \subseteq Range(history') /\ Brought(p) => Brought(p)'
        BY <2>0 DEF Brought
      <3>6. CASE \A c \in Consumers : ~Handle(c)
        <4>1. /\ Range(history) \subseteq Range(history') /\ deadLetters' = deadLetters
              /\ stored # NoDocument => stored' # NoDocument
          BY <3>6, QuietSteps, OwnStepsAlone, OwnKeeps
        <4>2. p \notin Pending' => p \notin Pending
          BY <3>6 , <1>1 DEF Moved, Busy
        <4>3. ASSUME NEW c \in Busy', message'[c] = p, step'[c] \in {"net", "ack"}
              PROVE  c \in Busy /\ message[c] = p /\ step[c] \in {"net", "ack"}
          <5>1. ~Take(c)
            BY <4>3, FirstWaiting DEF Take, Goes, TypeOK, Busy
          <5>. QED
            BY <1>1, <3>6, <4>3, <5>1 DEF Moved, Busy
        <4>. QED
          BY <3>1, <3>5, <4>1, <4>2, <4>3
      <3>7. ASSUME NEW c \in Consumers, Handle(c)
            PROVE  /\ log[p].kind # "migrate" => stored' # NoDocument
                   /\ p \notin Pending' =>
                          Brought(p)' \/ (p \in deadLetters' /\ log[p].kind = "migrate")
                   /\ \A d \in Busy' :
                          message'[d] = p /\ step'[d] \in {"net", "ack"} => Brought(p)'
        <4>1. /\ c \in Busy /\ message[c] \in DOMAIN log /\ message[c] \in Pending
              /\ \A d \in Consumers \ {c} :
                     step'[d] = step[d] /\ message'[d] = message[d] /\ (d \in Busy' <=> d \in Busy)
              /\ c \in Busy' <=> step'[c] # "idle"
              /\ step'[c] # "idle" => message'[c] = message[c]
              /\ deadLetters \subseteq deadLetters' /\ Busy' \subseteq Consumers
              /\ \A d \in Busy : message[d] = message[c] => d = c
          BY <3>7, HandledMessage, OthersStay, HandlerEnds DEF Pending, Busy, TypeOK, HeldOnce
        <4>2. p \in Pending \ Pending' => message[c] = p /\ step'[c] = "idle"
          <5>. SUFFICES ASSUME p \in Pending \ Pending'
                        PROVE  message[c] = p /\ step'[c] = "idle"
            OBVIOUS
          <5>1. PICK d \in Busy : message[d] = p /\ Handle(d) /\ step'[d] = "idle"
            BY <1>1 DEF Moved
          <5>2. d = c
            BY <4>1, <5>1 DEF Busy
          <5>. QED
            BY <5>1, <5>2
        <4>3. CASE message[c] # p
          <5>1. log[message[c]].kind \notin ResetKinds
            BY <3>1, <4>1, <4>3 DEF Resets, Places
          <5>2. /\ Range(history) \subseteq Range(history')
                /\ stored # NoDocument => stored' # NoDocument
            BY <3>7, <5>1, HandleHistory
          <5>. QED
            BY <3>1, <3>5, <4>1, <4>2, <4>3, <5>2
        <4>4. CASE message[c] = p
          <5>1. /\ log[p].kind # "migrate" => stored' # NoDocument
                /\ \/ step'[c] \in {"net", "ack"} /\ Range(Entries(c)) \subseteq Range(history')
                   \/ step'[c] \in {"net", "ack", "idle"} /\ step[c] \in {"net", "ack"}
                      /\ history' = history
                   \/ step'[c] = "idle" /\ log[message[c]].kind = "migrate"
                      /\ message[c] \in deadLetters'
                   \/ step'[c] \notin {"net", "ack", "idle"}
            BY <3>1, <3>7, <4>4, HandleHistory DEF BringKinds, ResetKinds
          <5>2. Range(Entries(c)) \subseteq Range(history') => Brought(p)'
            BY <2>0, <4>4 DEF Brought, Entries
          <5>3. step'[c] \in {"net", "ack"} => Brought(p)'
            BY <3>1, <3>5, <4>1, <4>4, <5>1, <5>2
          <5>4. step'[c] = "idle" => Brought(p)' \/ (p \in deadLetters' /\ log[p].kind = "migrate")
            BY <3>1, <3>5, <4>1, <4>4, <5>1, <5>2
          <5>5. p \notin Pending' => step'[c] = "idle"
            BY <4>1, <4>2, <4>4
          <5>6. \A d \in Busy' : message'[d] = p => d = c
            BY <4>1, <4>4
          <5>. QED
            BY <5>1, <5>3, <5>4, <5>5, <5>6
        <4>. QED
          BY <4>3, <4>4
      <3>. QED
        BY <3>6, <3>7
    <2>. QED
      BY <2>1, <2>2
  <1>. QED
    BY <1>2, <1>3

\* Every step keeps the entry of the service's own action.
LEMMA NextKeepsOwn ==
    ASSUME BaseInv, KeptInv, [Next]_vars
    PROVE  KeepsOwn'
  <1>. USE DEF BaseInv
  <1>1. /\ Resets \subseteq Resets' /\ Len(log) \in Nat
        /\ \A r \in Resets' \cap Pending' : r \in Resets \cap Pending \/ r = Len(log) + 1
        /\ own.at \in 0..Len(log) /\ own.action.entry \in Entry /\ history \in Seq(Entry)
        /\ KeepsOwn
    BY ResetsMove, StoredFields DEF KeptInv, TypeOK
  <1>2. CASE OwnStep
    <2>1. /\ Range(history) \subseteq Range(history') /\ Resets' = Resets /\ Pending' = Pending
          /\ \/ own'.step \notin {"pushed", "recorded"}
             \/ own'.safe = own.safe /\ own'.at = own.at /\ own'.action = own.action
                /\ own.step \in {"pushed", "recorded"}
             \/ /\ own'.safe = HistoryIsSafe /\ own'.action = own.action
                /\ own.action.entry \in Range(history')
      BY <1>2, OwnKeeps, OwnStepsAlone DEF Resets, Places
    <2>. QED
      BY <1>1, <2>1 DEF KeepsOwn, HistoryIsSafe, Resets
  <1>3. CASE ~OwnStep
    <2>1. own' = own
      BY <1>3, QuietSteps, HandlerSteps
    <2>. SUFFICES ASSUME own.step \in {"pushed", "recorded"}, own.safe,
                         ~(\E r \in Resets' : r > own.at)
                  PROVE  Resets' \cap Pending' = {} /\ own.action.entry \in Range(history')
      BY <2>1 DEF KeepsOwn
    <2>2. Resets \cap Pending = {} /\ own.action.entry \in Range(history)
      BY <1>1 DEF KeepsOwn
    <2>3. Resets' \cap Pending' = {}
      <3>1. Len(log) + 1 > own.at
        BY <1>1
      <3>. QED
        BY <1>1, <2>2, <3>1
    <2>4. ASSUME NEW c \in Consumers, Handle(c)
          PROVE  Range(history) \subseteq Range(history')
      <3>1. log[message[c]].kind \notin ResetKinds
        BY <2>2, <2>4, HandlerSteps, HandledMessage DEF Resets, Places, Pending, Busy
      <3>. QED
        BY <2>4, <3>1, HandleHistory
    <2>. QED
      BY <1>3, <2>2, <2>3, <2>4, QuietSteps
  <1>. QED
    BY <1>2, <1>3

\* However consumers go down, messages are delivered again and others write meanwhile,
\* no entry that the history should have is lost before something takes entries away.
THEOREM HistoryIsKept == Spec => []HistoryKept
  <1>1. Init => KeptInv
    BY DEF Init, KeptInv, KeepsOwn
  <1>2. BaseInv /\ KeptInv /\ [Next]_vars => KeptInv'
    BY NextKeeps, NextKeepsOwn DEF KeptInv
  <1>3. BaseInv /\ KeptInv => HistoryKept
    <2>. SUFFICES ASSUME BaseInv, KeptInv
                  PROVE  HistoryKept
      OBVIOUS
    <2>1. ASSUME NEW p \in expected \ Pending
          PROVE  \/ \E r \in Places(ResetKinds) : r > p
                 \/ p \in deadLetters /\ log[p].kind = "migrate"
                 \/ Range(log[p].entries) \subseteq Range(history)
      BY <2>1 DEF KeptInv, Keeps, Resets, Brought
    <2>. QED
      BY <2>1 DEF HistoryKept, KeptInv, KeepsOwn, Resets
  <1>. QED
    BY <1>1, <1>2, <1>3, InitBase, NextBase, PTL DEF Spec

-----------------------------------------------------------------------------
(* Refunds in the history.                                                 *)

RefundPlaces == {i \in DOMAIN history : history[i].action = "refund"}

\* What is going to be pushed is no refund, and one at most was recorded, by the
\* service itself.
RefundInv ==
    /\ \A c \in Busy :
          step[c] = "push" /\ log[message[c]].kind \in {"completed", "added"} =>
              IsTaken(log[message[c]].kind, log[message[c]].entries[1])
    /\ published["subtract"] <= (IF own.step = "recorded" THEN 1 ELSE 0)
    /\ Places({"migrate"}) = {} => /\ OwnRefunds = 0 => RefundPlaces = {}
                                   /\ \E x : RefundPlaces \subseteq {x}

\* One entry more at the end of the history.
LEMMA OneMore ==
    ASSUME history \in Seq(Entry), NEW e \in Entry, history' = Append(history, e)
    PROVE  RefundPlaces' = RefundPlaces \cup (IF e.action = "refund" THEN {Len(history) + 1} ELSE {})
  <1>1. /\ DOMAIN history = 1..Len(history) /\ Len(history) \in Nat
        /\ DOMAIN history' = 1..(Len(history) + 1)
        /\ \A i \in 1..Len(history) : history'[i] = history[i]
        /\ history'[Len(history) + 1] = e
    BY AppendProperties, LenProperties
  <1>2. \A i : i \in RefundPlaces' <=>
               \/ i \in RefundPlaces
               \/ i = Len(history) + 1 /\ e.action = "refund"
    BY <1>1 DEF RefundPlaces
  <1>. QED
    BY <1>2

\* What a push adds is one entry, of a message about one action.
LEMMA PushedEntry ==
    ASSUME TypeOK, StepInv, LogInv, NEW c \in Consumers, PushHistoryRecord(c)
    PROVE  /\ Entries(c) = <<Entries(c)[1]>> /\ Entries(c)[1] \in Entry
           /\ log[message[c]].kind \in {"completed", "added", "downloaded", "mailsent"}
           /\ log[message[c]].kind \in {"downloaded", "mailsent"} =>
                  Entries(c)[1].action \in {"shipping-label-downloaded", "email_sent"}
  <1>1. c \in Busy /\ step[c] = "push" /\ message[c] \in DOMAIN log /\ Entries(c) \in Seq(Entry)
    BY HandledMessage DEF PushHistoryRecord, Busy
  <1>2. log[message[c]].kind \in {"completed", "added", "downloaded", "mailsent"}
    BY <1>1 DEF StepInv, IsStepOf
  <1>3. log[message[c]].kind # "mailsent" => Len(Entries(c)) = 1
    BY <1>1, <1>2 DEF LogInv, OneEntry, Entries
  <1>4. log[message[c]].kind = "mailsent" =>
            Entries(c) = <<[action |-> "email_sent", amount |-> 0]>>
    BY <1>1 DEF LogInv, ToldMail, Entries
  <1>5. Len(Entries(c)) = 1
    BY <1>3, <1>4
  <1>6. Entries(c) = <<Entries(c)[1]>> /\ Entries(c)[1] \in Entry
    <2>. DEFINE entries == Entries(c)
    <2>. HIDE DEF entries
    <2>1. PICK e \in Entry : entries[1] = e
      <3>1. entries \in Seq(Entry) /\ 1 \in 1..Len(entries)
        BY <1>1, <1>5 DEF entries
      <3>. QED
        BY <3>1, ElementOfSeq
    <2>2. <<e>> \in Seq(Entry) /\ Len(<<e>>) = 1 /\ <<e>>[1] = e
      OBVIOUS
    <2>3. entries = <<e>>
      <3>1. entries \in Seq(Entry) /\ Len(entries) = 1
        BY <1>1, <1>5 DEF entries
      <3>. QED
        BY <2>1, <2>2, <3>1, SeqEqual
    <2>. QED
      BY <2>1, <2>3 DEF entries
  <1>7. log[message[c]].kind = "downloaded" => Entries(c)[1].action = "shipping-label-downloaded"
    BY <1>1 DEF LogInv, OneEntry, Entries
  <1>8. log[message[c]].kind = "mailsent" => Entries(c)[1].action = "email_sent"
    BY <1>4
  <1>. QED
    BY <1>2, <1>6, <1>7, <1>8

\* The refund events and places, step by step.
LEMMA HandleRefunds ==
    ASSUME TypeOK, StepInv, LogInv, RefundInv, NEW c \in Consumers, Handle(c)
    PROVE  /\ published'["subtract"] = published["subtract"]
           /\ \/ RefundPlaces' \in {RefundPlaces, {}}
              \/ log[message[c]].kind = "migrate"
           /\ step'[c] = "push" /\ log[message[c]].kind \in {"completed", "added"} =>
                  IsTaken(log[message[c]].kind, log[message[c]].entries[1])
  <1>. USE DEF Goes, Proceeds, Read, Store, DeadLetter, Rests, documentVars, mailVars, observerVars
  <1>1. /\ step \in [Consumers -> Steps] /\ history \in Seq(Entry)
        /\ published \in [RefundEvents -> Nat] /\ c \in Busy /\ message[c] \in DOMAIN log
        /\ IsStepOf(step[c], log[message[c]].kind)
    BY HandlerSteps, HandledMessage DEF TypeOK, Busy, StepInv
  <1>2. RefundPlaces' = RefundPlaces \/ history' # history
    BY DEF RefundPlaces
  <1>3. history' = <<>> => RefundPlaces' = {}
    BY EmptySeq DEF RefundPlaces
  <1>4. CASE RemoveByUuid(c)
    BY <1>1, <1>3, <1>4 DEF RemoveByUuid
  <1>5. CASE UpdateHistoryByUuid(c)
    BY <1>1, <1>5 DEF UpdateHistoryByUuid, IsStepOf
  <1>6. CASE PushHistoryRecord(c)
    <2>1. /\ Entries(c) = <<Entries(c)[1]>> /\ Entries(c)[1] \in Entry
          /\ Entries(c)[1].action # "refund"
      <3>1. log[message[c]].kind \in {"completed", "added"} =>
                Entries(c)[1].action \in AllowedHistoryActions
        BY <1>1, <1>6 DEF RefundInv, IsTaken, PushHistoryRecord, Entries
      <3>. QED
        BY <1>6, <3>1, PushedEntry DEF AllowedHistoryActions
    <2>2. \/ history' = history
          \/ history' = history \o Entries(c)
      BY <1>6 DEF PushHistoryRecord
    <2>3. history \o Entries(c) = Append(history, Entries(c)[1])
      BY <1>1, <2>1, AppendIsConcat
    <2>4. RefundPlaces' = RefundPlaces
      BY <1>1, <1>2, <2>1, <2>2, <2>3, OneMore
    <2>5. published' = published /\ step'[c] # "push"
      BY <1>1, <1>6, <2>1 DEF PushHistoryRecord, SubtractedFor
    <2>. QED
      BY <2>4, <2>5
  <1>7. CASE OnActionCompleted(c) \/ OnHistoryAdd(c)
    BY <1>1, <1>2, <1>7 DEF OnActionCompleted, OnHistoryAdd, FindForHistory, IsStepOf, Entries
  <1>8. CASE OnShippingDocumentDownloaded(c) \/ OnPaymentMailSent(c)
    BY <1>1, <1>2, <1>8
    DEF OnShippingDocumentDownloaded, OnPaymentMailSent, FindForHistory, IsStepOf
  <1>9. CASE HandleInternalRefund(c)
    BY <1>1, <1>2, <1>9 DEF HandleInternalRefund, RefundEvents
  <1>10. CASE Announce(c)
    <2>1. step'[c] \in {"read", "update"} /\ UNCHANGED <<history, published>>
      BY <1>1, <1>10 DEF Announce
    <2>. QED
      BY <1>2, <2>1
  <1>11. CASE \/ RemoveBusinessExamples(c) \/ ReadExisting(c) \/ UpdateByUuid(c) \/ Ack(c)
              \/ FindMigrated(c) \/ ProcessMigrated(c) \/ SetShippingOrderProcessed(c)
    BY <1>1, <1>2, <1>11
    DEF RemoveBusinessExamples, ReadExisting, UpdateByUuid, Ack, FindMigrated,
        ProcessMigrated, SetShippingOrderProcessed
  <1>12. CASE \/ CreateTransaction(c) \/ CreateOrUpdate(c) \/ OnTransactionSubmitted(c)
              \/ OnShippingOrderProcessed(c) \/ ProduceShippingEvent(c)
    BY <1>1, <1>2, <1>12
    DEF CreateTransaction, CreateOrUpdate, OnTransactionSubmitted, OnShippingOrderProcessed,
        ProduceShippingEvent
  <1>. QED
    BY <1>4, <1>5, <1>6, <1>7, <1>8, <1>9, <1>10, <1>11, <1>12 DEF Handle

\* The service's own action records a refund once.
LEMMA OwnRefundsOnce ==
    ASSUME TypeOK, RefundInv, OwnStep
    PROVE  /\ published'["subtract"] <= (IF own'.step = "recorded" THEN 1 ELSE 0)
           /\ Places({"migrate"}) = {} => /\ OwnRefunds' = 0 => RefundPlaces' = {}
                                          /\ \E x : RefundPlaces' \subseteq {x}
  <1>. USE DEF documentVars, mailVars
  <1>1. /\ published \in [RefundEvents -> Nat] /\ published["subtract"] \in Nat
        /\ own \in [step: OwnSteps, action: OwnActions, read: Statuses \cup {NoDocument},
                    at: 0..Len(log), safe: BOOLEAN]
        /\ published["subtract"] <= (IF own.step = "recorded" THEN 1 ELSE 0)
        /\ Places({"migrate"}) = {} => /\ OwnRefunds = 0 => RefundPlaces = {}
                                       /\ \E x : RefundPlaces \subseteq {x}
    BY DEF TypeOK, RefundEvents, RefundInv
  <1>2. history' = history => RefundPlaces' = RefundPlaces
    BY DEF RefundPlaces
  <1>3. CASE BeginOwnAction \/ StoreAnswer
    <2>1. /\ own.step \in {"none", "begun"} /\ own'.step \in {"begun", "stored", "failed"}
          /\ UNCHANGED <<history, published>>
      BY <1>1, <1>3 DEF BeginOwnAction, StoreAnswer, OwnGoes
    <2>. QED
      BY <1>1, <1>2, <2>1 DEF OwnRefunds
  <1>4. CASE RecordOwnAction
    <2>1. own.step = "stored" /\ own'.step \in {"failed", "pushed"} /\ published' = published
      BY <1>1, <1>4 DEF RecordOwnAction, OwnGoes
    <2>2. CASE stored = NoDocument
      <3>1. own'.step = "failed" /\ history' = history
        BY <1>1, <1>4, <2>2 DEF RecordOwnAction, OwnGoes
      <3>. QED
        BY <1>1, <1>2, <2>1, <3>1 DEF OwnRefunds
    <2>3. CASE stored # NoDocument
      <3>1. own'.step = "pushed" /\ history' = Append(history, own.action.entry)
        BY <1>1, <1>4, <2>3 DEF RecordOwnAction
      <3>2. RefundPlaces' \subseteq RefundPlaces \cup {Len(history) + 1}
        BY <3>1, OneMore, StoredFields DEF TypeOK
      <3>3. OwnRefunds = 0 /\ OwnRefunds' = 1 /\ own'.step # "recorded"
        BY <2>1, <3>1 DEF OwnRefunds
      <3>4. Places({"migrate"}) = {} => RefundPlaces' \subseteq {Len(history) + 1}
        BY <1>1, <3>2, <3>3
      <3>5. published'["subtract"] <= 0
        BY <1>1, <2>1
      <3>6. Places({"migrate"}) = {} => \E x : RefundPlaces' \subseteq {x}
        BY <3>4, Zenon
      <3>7. ~(OwnRefunds' = 0)
        BY <3>3
      <3>. QED
        BY <3>3, <3>5, <3>6, <3>7
    <2>. QED
      BY <2>2, <2>3
  <1>5. CASE SubtractOwnRefund
    <2>1. own.step = "pushed" /\ own'.step = "recorded" /\ history' = history
      BY <1>1, <1>5 DEF SubtractOwnRefund, OwnGoes
    <2>2. published' \in {published, [published EXCEPT !["subtract"] = @ + 1]}
      BY <1>5 DEF SubtractOwnRefund, SubtractedFor
    <2>3. published'["subtract"] <= 1
      BY <1>1, <2>1, <2>2 DEF RefundEvents
    <2>. QED
      BY <1>1, <1>2, <2>1, <2>3 DEF OwnRefunds
  <1>. QED
    BY <1>3, <1>4, <1>5 DEF OwnStep

\* Every step keeps the refunds of the history as they should be.
LEMMA NextRefunds ==
    ASSUME BaseInv, RefundInv, [Next]_vars
    PROVE  RefundInv'
  <1>. USE DEF BaseInv
  <1>1. /\ \A p \in DOMAIN log : log'[p] = log[p]
        /\ \A c \in Busy : c \in Consumers /\ message[c] \in DOMAIN log
        /\ type' = type /\ Moved
        /\ Places({"migrate"})' = {} => Places({"migrate"}) = {}
    BY LogKept, HandledMessage, TypeStays, NextMoves, PlacesGrow DEF Busy
  <1>2. ASSUME NEW c \in Busy', step'[c] = "push", log'[message'[c]].kind \in {"completed", "added"}
        PROVE  IsTaken(log[message[c]].kind, log[message[c]].entries[1])'
    <2>1. CASE Take(c)
      BY <1>2, <2>1, FirstWaiting DEF Take, Goes, TypeOK, Busy
    <2>2. CASE c \in Busy /\ message'[c] = message[c]
      <3>0. log'[message'[c]] = log[message[c]] /\ c \in Consumers
        BY <1>1, <2>2
      <3>1. CASE step'[c] = step[c]
        <4>1. IsTaken(log[message[c]].kind, log[message[c]].entries[1])
          BY <1>2, <2>2, <3>0, <3>1 DEF RefundInv
        <4>. QED
          BY <1>1, <3>0, <4>1 DEF IsTaken
      <3>2. CASE Handle(c)
        <4>1. IsTaken(log[message[c]].kind, log[message[c]].entries[1])
          BY <1>2, <3>0, <3>2, HandleRefunds
        <4>. QED
          BY <1>1, <3>0, <4>1 DEF IsTaken
      <3>. QED
        BY <1>1, <2>1, <2>2, <3>1, <3>2 DEF Moved
    <2>. QED
      BY <1>1, <2>1, <2>2 DEF Moved
  <1>3. /\ published'["subtract"] <= (IF own'.step = "recorded" THEN 1 ELSE 0)
        /\ Places({"migrate"}) = {} => /\ OwnRefunds' = 0 => RefundPlaces' = {}
                                       /\ \E x : RefundPlaces' \subseteq {x}
    <2>1. CASE OwnStep
      BY <2>1, OwnRefundsOnce
    <2>2. ASSUME NEW c \in Consumers, Handle(c)
          PROVE  /\ published'["subtract"] <= (IF own'.step = "recorded" THEN 1 ELSE 0)
                 /\ Places({"migrate"}) = {} => /\ OwnRefunds' = 0 => RefundPlaces' = {}
                                                /\ \E x : RefundPlaces' \subseteq {x}
      <3>1. /\ own' = own /\ OwnRefunds' = OwnRefunds
            /\ log[message[c]].kind = "migrate" => Places({"migrate"}) # {}
        BY <1>1, <2>2, HandlerSteps, HandledMessage DEF OwnRefunds, Places
      <3>2. /\ published'["subtract"] = published["subtract"]
            /\ RefundPlaces' \in {RefundPlaces, {}} \/ log[message[c]].kind = "migrate"
        BY <2>2, HandleRefunds
      <3>. QED
        BY <3>1, <3>2 DEF RefundInv
    <2>3. CASE ~OwnStep /\ \A c \in Consumers : ~Handle(c)
      BY <2>3, QuietSteps DEF RefundInv, RefundPlaces, OwnRefunds
    <2>. QED
      BY <2>1, <2>2, <2>3
  <1>. QED
    BY <1>1, <1>2, <1>3 DEF RefundInv

\* Whatever the number of consumers and of crashes, a refund by the service is one
\* entry and one event, although the messages tell of it again.
THEOREM RefundsAreCountedOnce == Spec => []NoRefundCountedTwice
  <1>1. Init => RefundInv
    <2>. SUFFICES ASSUME Init
                  PROVE  RefundInv
      OBVIOUS
    <2>1. /\ Busy = {} /\ RefundPlaces = {} /\ OwnRefunds = 0 /\ published["subtract"] = 0
          /\ own.step = "none"
      BY EmptySeq DEF Init, Busy, RefundPlaces, RefundEvents, OwnRefunds
    <2>. QED
      BY <2>1 DEF RefundInv
  <1>2. BaseInv /\ RefundInv => NoRefundCountedTwice
    <2>. SUFFICES ASSUME BaseInv, RefundInv
                  PROVE  NoRefundCountedTwice
      OBVIOUS
    <2>1. OwnRefunds \in {0, 1} /\ (own.step = "recorded" => OwnRefunds = 1)
      BY DEF OwnRefunds
    <2>2. published["subtract"] <= OwnRefunds
      BY <2>1 DEF RefundInv, BaseInv, TypeOK, RefundEvents
    <2>3. ASSUME Places({"migrate"}) = {}
          PROVE  Cardinality(RefundPlaces) <= OwnRefunds
      <3>1. PICK x : RefundPlaces \subseteq {x}
        BY <2>3 DEF RefundInv
      <3>2. RefundPlaces = {} \/ (RefundPlaces = {x} /\ OwnRefunds = 1)
        BY <2>1, <2>3, <3>1 DEF RefundInv
      <3>3. Cardinality({}) = 0 /\ Cardinality({x}) = 1
        BY FS_EmptySet, FS_Singleton
      <3>. QED
        BY <2>1, <3>2, <3>3
    <2>. QED
      BY <2>2, <2>3 DEF NoRefundCountedTwice, RefundPlaces
  <1>. QED
    BY <1>1, <1>2, InitBase, NextBase, NextRefunds, PTL DEF Spec

-----------------------------------------------------------------------------
(* Processed orders.                                                       *)

\* The message about an order that is processed and not mailed about will be handled
\* again, or could not be.  Its handler acknowledges only after the mail.
MailInv ==
    /\ processed /\ mails["shipping"] = 0 =>
           Places({"shipped"}) \cap (Pending \cup deadLetters) # {}
    /\ \A c \in Busy :
          step[c] = "ack" /\ log[message[c]].kind = "shipped" => mails["shipping"] > 0

\* What handlers do about orders and mails.
LEMMA HandleMails ==
    ASSUME TypeOK, StepInv, NEW c \in Consumers, Handle(c)
    PROVE  /\ mails'["shipping"] \in Nat /\ mails'["shipping"] >= mails["shipping"]
           /\ processed' => processed \/ (log[message[c]].kind = "shipped" /\ step'[c] = "mail")
           /\ log[message[c]].kind = "shipped" /\ step'[c] = "ack" => mails'["shipping"] > 0
  <1>. USE DEF Goes, Proceeds, Read, Store, DeadLetter, documentVars, mailVars
  <1>1. /\ step \in [Consumers -> Steps] /\ IsStepOf(step[c], log[message[c]].kind)
        /\ mails \in [MailKinds -> Nat] /\ mails["shipping"] \in Nat
    BY HandlerSteps DEF TypeOK, StepInv, Busy, MailKinds
  <1>2. CASE CreateTransaction(c) \/ UpdateByUuid(c) \/ RemoveByUuid(c)
    BY <1>1, <1>2 DEF CreateTransaction, UpdateByUuid, RemoveByUuid, IsStepOf
  <1>3. CASE CreateOrUpdate(c) \/ UpdateHistoryByUuid(c)
    BY <1>1, <1>3 DEF CreateOrUpdate, UpdateHistoryByUuid, IsStepOf
  <1>4. CASE RemoveBusinessExamples(c) \/ ReadExisting(c) \/ Ack(c) \/ FindMigrated(c)
             \/ ProcessMigrated(c)
    BY <1>1, <1>4 DEF RemoveBusinessExamples, ReadExisting, Ack, FindMigrated, ProcessMigrated,
                      IsStepOf, Rests
  <1>5. CASE PushHistoryRecord(c) \/ HandleInternalRefund(c)
    BY <1>1, <1>5 DEF PushHistoryRecord, HandleInternalRefund, IsStepOf
  <1>6. CASE OnTransactionSubmitted(c) \/ ProduceShippingEvent(c)
    <2>1. mails' \in {mails, [mails EXCEPT !["invoice"] = @ + 1], [mails EXCEPT !["shipping"] = @ + 1]}
      BY <1>6 DEF OnTransactionSubmitted, ProduceShippingEvent
    <2>2. mails'["shipping"] \in Nat /\ mails'["shipping"] >= mails["shipping"]
      BY <1>1, <2>1 DEF MailKinds
    <2>3. CASE OnTransactionSubmitted(c)
      BY <1>1, <2>2, <2>3 DEF OnTransactionSubmitted, IsStepOf
    <2>4. CASE ProduceShippingEvent(c)
      BY <1>1, <2>2, <2>4 DEF ProduceShippingEvent, Rests, MailKinds
    <2>. QED
      BY <1>6, <2>3, <2>4
  <1>7. CASE OnShippingOrderProcessed(c) \/ SetShippingOrderProcessed(c)
    BY <1>1, <1>7 DEF OnShippingOrderProcessed, SetShippingOrderProcessed, IsStepOf, Rests
  <1>8. CASE \/ OnActionCompleted(c) \/ OnHistoryAdd(c) \/ OnShippingDocumentDownloaded(c)
             \/ OnPaymentMailSent(c)
    BY <1>1, <1>8 DEF OnActionCompleted, OnHistoryAdd, OnShippingDocumentDownloaded,
                      OnPaymentMailSent, FindForHistory, IsStepOf
  <1>9. CASE Announce(c)
    <2>1. step'[c] \in {"read", "update"} /\ UNCHANGED <<processed, mails>>
      BY <1>1, <1>9 DEF Announce
    <2>. QED
      BY <1>1, <2>1
  <1>. QED
    BY <1>2, <1>3, <1>4, <1>5, <1>6, <1>7, <1>8, <1>9 DEF Handle

\* Every step keeps this.
LEMMA NextMail ==
    ASSUME BaseInv, MailInv, [Next]_vars
    PROVE  MailInv'
  <1>. USE DEF BaseInv
  <1>1. /\ Moved /\ \A p \in DOMAIN log : log'[p] = log[p]
        /\ Places({"shipped"}) \subseteq Places({"shipped"})'
        /\ \A c \in Busy : message[c] \in DOMAIN log
        /\ Busy \subseteq Consumers /\ mails["shipping"] \in Nat
    BY NextMoves, LogKept, PlacesGrow, HandledMessage DEF Busy, TypeOK, MailKinds
  <1>2. ASSUME NEW c \in Busy', Take(c)
        PROVE  step'[c] # "ack"
    BY <1>2, FirstWaiting DEF Take, Goes, TypeOK, Busy
  <1>3. CASE \A c \in Consumers : ~Handle(c)
    <2>1. UNCHANGED <<mails, deadLetters, processed>>
      BY <1>3, QuietSteps, OwnStepsAlone
    <2>2. Pending \subseteq Pending'
      BY <1>1, <1>3 DEF Moved
    <2>3. ASSUME NEW c \in Busy', step'[c] = "ack", log'[message'[c]].kind = "shipped"
          PROVE  mails'["shipping"] > 0
      BY <1>1, <1>2, <1>3, <2>1, <2>3 DEF Moved, MailInv
    <2>. QED
      BY <1>1, <2>1, <2>2, <2>3 DEF MailInv
  <1>4. ASSUME NEW c \in Consumers, Handle(c)
        PROVE  MailInv'
    <2>1. /\ mails'["shipping"] \in Nat /\ mails'["shipping"] >= mails["shipping"]
          /\ processed' => processed \/ (log[message[c]].kind = "shipped" /\ step'[c] = "mail")
          /\ log[message[c]].kind = "shipped" /\ step'[c] = "ack" => mails'["shipping"] > 0
      BY <1>4, HandleMails
    <2>2. /\ \A d \in Consumers \ {c} :
                  step'[d] = step[d] /\ message'[d] = message[d] /\ (d \in Busy' <=> d \in Busy)
          /\ c \in Busy /\ (c \in Busy' <=> step'[c] # "idle")
          /\ step'[c] # "idle" => message'[c] = message[c]
          /\ Busy' \subseteq Consumers /\ deadLetters \subseteq deadLetters'
      BY <1>4, OthersStay, HandlerEnds DEF Busy
    <2>3. ASSUME NEW d \in Busy', step'[d] = "ack", log'[message'[d]].kind = "shipped"
          PROVE  mails'["shipping"] > 0
      <3>1. CASE d = c
        BY <1>1, <2>1, <2>2, <2>3, <3>1
      <3>2. CASE d # c
        <4>1. mails["shipping"] > 0
          BY <1>1, <2>2, <2>3, <3>2 DEF MailInv
        <4>. QED
          BY <1>1, <2>1, <4>1
      <3>. QED
        BY <3>1, <3>2
    <2>4. ASSUME processed', mails'["shipping"] = 0
          PROVE  Places({"shipped"})' \cap (Pending' \cup deadLetters') # {}
      <3>0. mails["shipping"] = 0
        BY <1>1, <2>1, <2>4
      <3>1. CASE log[message[c]].kind = "shipped" /\ step'[c] = "mail"
        <4>1. message[c] \in Places({"shipped"})' /\ message[c] \in Pending'
          BY <1>1, <2>2, <3>1 DEF Places, Pending
        <4>. QED
          BY <4>1
      <3>2. CASE processed
        <4>1. PICK p \in Places({"shipped"}) : p \in Pending \cup deadLetters
          BY <2>4, <3>0, <3>2 DEF MailInv
        <4>2. CASE p \in Pending \ Pending'
          <5>1. PICK d \in Busy : message[d] = p /\ Handle(d) /\ step'[d] = "idle"
            BY <1>1, <4>2 DEF Moved
          <5>2. step[d] # "ack"
            BY <1>1, <3>0, <4>1, <5>1 DEF MailInv, Places
          <5>3. p \in deadLetters'
            BY <1>1, <5>1, <5>2, HandlerEnds
          <5>. QED
            BY <1>1, <4>1, <5>3
        <4>. QED
          BY <1>1, <2>2, <4>1, <4>2
      <3>. QED
        BY <2>1, <2>4, <3>1, <3>2
    <2>. QED
      BY <2>3, <2>4 DEF MailInv
  <1>. QED
    BY <1>3, <1>4

\* However often consumers go down and however many there are, the customer of a
\* processed order is mailed about it, unless the message about it was given up.
THEOREM ProcessedOrdersAreMailed == Spec => []ProcessedIsMailed
  <1>1. Init => MailInv
    BY DEF Init, MailInv, Busy
  <1>2. BaseInv /\ MailInv => ProcessedIsMailed
    <2>. SUFFICES ASSUME BaseInv, MailInv, Pending = {}, processed
                  PROVE  mails["shipping"] > 0 \/ Places({"shipped"}) \cap deadLetters # {}
      BY DEF ProcessedIsMailed, Quiet
    <2>1. mails["shipping"] \in Nat
      BY DEF BaseInv, TypeOK, MailKinds
    <2>. QED
      BY <2>1 DEF MailInv
  <1>. QED
    BY <1>1, <1>2, InitBase, NextBase, NextMail, PTL DEF Spec

=============================================================================
