------------------------- MODULE BusinessLifecycle -------------------------
(***************************************************************************)
(* What happens around one business that is not about a single payment:    *)
(* its example transactions are created, played with and removed when the  *)
(* first payment comes, and the names of sellers are asked for and filled  *)
(* in (TransactionsExampleService, the fake actions of                     *)
(* TransactionActionService, PaymentFlowService, AuthEventsController and  *)
(* TransactionsService.create).                                            *)
(*                                                                         *)
(* Consumers handle messages of the bus in any order; requests come over   *)
(* http.  A handler takes one step per write or message it sends; between  *)
(* two of them it may fail, in what it calls, or its consumer may go down. *)
(***************************************************************************)
EXTENDS Integers, Sequences, FiniteSets, Functions, SequencesExt, FiniteSetsExt

CONSTANTS
    Consumers,      \* the replicas of the consumer
    Requests,       \* the http requests, each one at a time
    Payments,       \* the uuids of real transactions
    Flows,          \* the ids of payment flows
    FlowOf,         \* the flow of each payment
    Emails,         \* the sellers' addresses
    Names,          \* the names the auth service may tell
    Nothing,        \* no such flow, no seller, no name
    Catalog,        \* how many examples a business gets
    Inboxes,        \* sets of messages and http requests that may come
    MaxBroken       \* bound: how often a handler fails or its consumer goes down

Messages ==
    ({"products"} \X Nat) \cup ({"payment"} \X Payments) \cup ({"removed"} \X Nat)
    \cup ({"trigger", "fake"} \X Nat)
    \cup ({"flow"} \X (Flows \X (Emails \cup {Nothing}))) \cup ({"name"} \X (Emails \X Names))

ASSUME LifecycleAssumption ==
    /\ Catalog \in Nat \ {0}
    /\ IsFiniteSet(Consumers)
    /\ Consumers \cap Requests = {}
    /\ FlowOf \in [Payments -> Flows]
    /\ Nothing \notin Emails \cup Names
    /\ Payments \cap Nat = {}
    /\ \A inbox \in Inboxes : inbox \subseteq Messages
    /\ MaxBroken \in Nat

VARIABLES
    inbox,      \* the messages waiting, and the requests that may come
    task,       \* what each consumer and request is doing
    stored,     \* the stored transactions, by uuid
    drawn,      \* how many uuids were drawn for examples
    flows,      \* the seller's address of each stored flow
    asked,      \* the address each payment's seller name was asked with
    pending,    \* the questions the auth service has not answered
    log,        \* the events about each uuid for the statistics, and when it was found
    due,        \* the examples that were there when each payment was stored
    broken      \* the tasks that did not come to their end, and how that was

exampleVars == <<drawn, log, due>>
sellerVars == <<flows, asked, pending>>
vars == <<inbox, task, stored, exampleVars, sellerVars, broken>>

Workers == Consumers \cup Requests

Accepted == "STATUS_ACCEPTED"
Paid == "STATUS_PAID"
Refunded == "STATUS_REFUNDED"
Cancelled == "STATUS_CANCELLED"
Statuses == {Accepted, Paid, Refunded, Cancelled}

\* seller is the seller's name.
Document == [example : BOOLEAN, status : Statuses, seller : Names \cup {Nothing}]

\* Mutant of NewDocument: examples are not marked as such.
MutantUnmarked(isExample) == [example |-> FALSE, status |-> Accepted, seller |-> Nothing]

\* An example is accepted and has no flow.
NewDocument(isExample) == [example |-> isExample, status |-> Accepted, seller |-> Nothing]

Live == DOMAIN stored
Examples == {u \in Live : stored[u].example}

\* A task: the step it is at, the message or request, and the uuids it goes through.
Idle == [step |-> "idle", of |-> <<"none">>, ids |-> <<>>, left |-> 0]

Init ==
    /\ inbox \in Inboxes
    /\ task = [w \in Workers |-> Idle]
    /\ stored = <<>>
    /\ drawn = 0
    /\ flows = [f \in Flows |-> Nothing]
    /\ asked = [p \in Payments |-> Nothing]
    /\ pending = {}
    /\ log = [p \in Payments |-> <<>>]
    /\ due = [p \in Payments |-> {}]
    /\ broken = <<>>

Finish(w) == task' = [task EXCEPT ![w] = Idle]
Goto(w, step) == task' = [task EXCEPT ![w].step = step]

\* Something is noted in the log of some uuids.
Note(kind, uuids) ==
    log' = [u \in DOMAIN log |-> IF u \in uuids THEN Append(log[u], kind) ELSE log[u]]

-----------------------------------------------------------------------------
(* Messages and requests begin.                                            *)

RequestKinds == {"trigger", "fake"}

FirstStep == [products |-> "insert", payment |-> "create", removed |-> "list",
              flow |-> "flow", name |-> "match"]

Take(c) ==
    /\ task[c] = Idle
    /\ \E m \in inbox :
        /\ m[1] \notin RequestKinds
        /\ inbox' = inbox \ {m}
        /\ task' = [task EXCEPT ![c] =
                [step |-> FirstStep[m[1]], of |-> m, ids |-> <<>>, left |-> Catalog]]
    /\ UNCHANGED <<stored, exampleVars, sellerVars, broken>>

Break(w, how) ==
    /\ task[w] # Idle
    /\ Len(broken) < MaxBroken
    /\ broken' = Append(broken, [how |-> how, task |-> task[w]])
    /\ Finish(w)
    /\ UNCHANGED <<stored, exampleVars, sellerVars>>

\* The message is delivered again.
Crash(c) == Break(c, "crash") /\ inbox' = inbox \cup {task[c].of}

\* A listener, the database, the search index or the broker throws: the rest of the
\* handler is skipped, and its message is a dead letter.
Fail(w) == Break(w, "failure") /\ UNCHANGED inbox

TriggerExample(r) ==
    /\ task[r] = Idle
    /\ \E m \in inbox :
        /\ m[1] = "trigger"
        /\ inbox' = inbox \ {m}
        /\ task' = [task EXCEPT ![r] =
                [step |-> "insert", of |-> m, ids |-> <<>>, left |-> Catalog]]
    /\ UNCHANGED <<stored, exampleVars, sellerVars, broken>>

FakeActions == {"refund", "cancel", "shipping_goods"}

\* Someone acts on an example, whatever its status: which actions are shown for it
\* is not looked at.  An action with another name changes nothing.
RunFakeAction(r) ==
    /\ task[r] = Idle
    /\ \E m \in inbox, u \in Examples, action \in FakeActions :
        /\ m[1] = "fake"
        /\ inbox' = inbox \ {m}
        /\ task' = [task EXCEPT ![r] =
                [step |-> "act", of |-> <<action>>, ids |-> <<u>>, left |-> 0]]
    /\ UNCHANGED <<stored, exampleVars, sellerVars, broken>>

-----------------------------------------------------------------------------
(* Examples.                                                               *)

\* One example of the catalogue, under a new uuid.
CreateExample(w) ==
    /\ task[w].step = "insert"
    /\ drawn' = drawn + 1
    /\ stored' = [u \in Live \cup {drawn'} |-> IF u = drawn' THEN NewDocument(TRUE) ELSE stored[u]]
    /\ log' = [u \in DOMAIN log \cup {drawn'} |-> IF u = drawn' THEN <<>> ELSE log[u]]
    /\ task' = [task EXCEPT ![w].step = "add", ![w].ids = <<drawn'>>]
    /\ UNCHANGED <<inbox, due, sellerVars, broken>>

SendAddEvent(w) ==
    /\ task[w].step = "add"
    /\ Note("add", {task[w].ids[1]})
    /\ IF task[w].left > 1
       THEN task' = [task EXCEPT ![w].step = "insert", ![w].left = @ - 1]
       ELSE Finish(w)
    /\ UNCHANGED <<inbox, stored, drawn, due, sellerVars, broken>>

\* Mutant of ToRemove: the filter for examples is lost.
MutantAllTransactions == Live

\* What removeBusinessExamples finds.
ToRemove == Examples

ListExamples(c) ==
    /\ task[c].step = "list"
    /\ Note("found", ToRemove)
    /\ IF ToRemove = {}
       THEN Finish(c)
       ELSE task' = [task EXCEPT ![c].step = "delete", ![c].ids = SetToSeq(ToRemove)]
    /\ UNCHANGED <<inbox, stored, drawn, due, sellerVars, broken>>

\* Mutant of RemoveExample: the event is left out.
MutantRemovesSilently(c) ==
    /\ task[c].step = "delete"
    /\ stored' = Restrict(stored, Live \ {Head(task[c].ids)})
    /\ IF Len(task[c].ids) > 1
       THEN task' = [task EXCEPT ![c].ids = Tail(@)]
       ELSE Finish(c)
    /\ UNCHANGED <<inbox, exampleVars, sellerVars, broken>>

\* It may be gone by now; the event is sent all the same.
RemoveExample(c) ==
    /\ task[c].step = "delete"
    /\ stored' = Restrict(stored, Live \ {Head(task[c].ids)})
    /\ Goto(c, "event")
    /\ UNCHANGED <<inbox, exampleVars, sellerVars, broken>>

SendRemoveEvent(c) ==
    /\ task[c].step = "event"
    /\ Note("remove", {Head(task[c].ids)})
    /\ IF Len(task[c].ids) > 1
       THEN task' = [task EXCEPT ![c].step = "delete", ![c].ids = Tail(@)]
       ELSE Finish(c)
    /\ UNCHANGED <<inbox, stored, drawn, due, sellerVars, broken>>

\* doFakeAction on the document the request came with; its status is not looked
\* at again.
DoFakeAction(r) ==
    /\ task[r].step = "act"
    /\ IF task[r].of = <<"refund">> THEN Note("subtract", {task[r].ids[1]}) ELSE UNCHANGED log
    /\ Goto(r, "save")
    /\ UNCHANGED <<inbox, stored, drawn, due, sellerVars, broken>>

StatusBy == [shipping_goods |-> Paid, refund |-> Refunded, cancel |-> Cancelled]

\* Mutant of SaveExample: the example is written back as a whole, with upsert.
MutantSavesAnyway(r) ==
    /\ task[r].step = "save"
    /\ LET u == task[r].ids[1]
           done == [NewDocument(TRUE) EXCEPT !.status = StatusBy[task[r].of[1]]] IN
       stored' = [v \in Live \cup {u} |-> IF v = u THEN done ELSE stored[v]]
    /\ Finish(r)
    /\ UNCHANGED <<inbox, exampleVars, sellerVars, broken>>

\* transaction.save() fails when the example is gone.
SaveExample(r) ==
    /\ task[r].step = "save"
    /\ LET u == task[r].ids[1] IN
       stored' = IF u \in Live
                 THEN [stored EXCEPT ![u].status = StatusBy[task[r].of[1]]] ELSE stored
    /\ Finish(r)
    /\ UNCHANGED <<inbox, exampleVars, sellerVars, broken>>

-----------------------------------------------------------------------------
(* PAYMENT.CREATE, payment flows and seller names.                         *)

\* A second insert under the same uuid throws: the message is a dead letter.
CreatePayment(c) ==
    /\ task[c].step = "create"
    /\ LET p == task[c].of[2] IN
       IF p \in Live
       THEN Finish(c) /\ UNCHANGED <<stored, due>>
       ELSE /\ stored' = [u \in Live \cup {p} |-> IF u = p THEN NewDocument(FALSE) ELSE stored[u]]
            /\ due' = [due EXCEPT ![p] = Examples]
            /\ Goto(c, "ask")
    /\ UNCHANGED <<inbox, drawn, log, sellerVars, broken>>

\* Only if the flow is there already, and has a seller.
AskSellerName(c) ==
    /\ task[c].step = "ask"
    /\ LET p == task[c].of[2]
           email == flows[FlowOf[p]] IN
       /\ asked' = [asked EXCEPT ![p] = email]
       /\ pending' = IF email = Nothing THEN pending ELSE pending \cup {<<p, email>>}
    /\ Goto(c, "list")
    /\ UNCHANGED <<inbox, stored, exampleVars, flows, broken>>

\* FLOW.CREATE, .UPDATE and .MIGRATE store the flow, FLOW.REMOVE removes it.
HandleFlow(c) ==
    /\ task[c].step = "flow"
    /\ flows' = [flows EXCEPT ![task[c].of[2][1]] = task[c].of[2][2]]
    /\ Finish(c)
    /\ UNCHANGED <<inbox, stored, exampleVars, asked, pending, broken>>

\* The auth service answers with the name the user has then.
Answer ==
    /\ \E question \in pending, name \in Names :
        /\ pending' = pending \ {question}
        /\ inbox' = inbox \cup {<<"name", <<question[2], name>>>>}
    /\ UNCHANGED <<task, stored, exampleVars, flows, asked, broken>>

\* Mutant of Unnamed: $exists is the wrong way round.
MutantNamed(email) ==
    {p \in Payments \cap Live : flows[FlowOf[p]] = email /\ stored[p].seller # Nothing}

\* The transactions whose flow has this seller and that have no seller name yet.
Unnamed(email) ==
    {p \in Payments \cap Live : flows[FlowOf[p]] = email /\ stored[p].seller = Nothing}

FindUnnamed(c) ==
    /\ task[c].step = "match"
    /\ LET found == Unnamed(task[c].of[2][1]) IN
       IF found = {}
       THEN Finish(c)
       ELSE task' = [task EXCEPT ![c].step = "set", ![c].ids = SetToSeq(found)]
    /\ UNCHANGED <<inbox, stored, exampleVars, sellerVars, broken>>

\* Mutant of SetSellerName: updateMany takes all that were found.
MutantSetsAll(c) ==
    /\ task[c].step = "set"
    /\ stored' = [u \in Live |->
            IF u \in Range(task[c].ids)
            THEN [stored[u] EXCEPT !.seller = task[c].of[2][2]] ELSE stored[u]]
    /\ Finish(c)
    /\ UNCHANGED <<inbox, exampleVars, sellerVars, broken>>

\* updateMany looks again that there is no name.
SetSellerName(c) ==
    /\ task[c].step = "set"
    /\ stored' = [u \in Live |->
            IF u \in Range(task[c].ids) /\ stored[u].seller = Nothing
            THEN [stored[u] EXCEPT !.seller = task[c].of[2][2]] ELSE stored[u]]
    /\ Finish(c)
    /\ UNCHANGED <<inbox, exampleVars, sellerVars, broken>>

-----------------------------------------------------------------------------

Consume(c) ==
    \/ Take(c) \/ CreateExample(c) \/ SendAddEvent(c)
    \/ CreatePayment(c) \/ AskSellerName(c)
    \/ ListExamples(c) \/ RemoveExample(c) \/ SendRemoveEvent(c)
    \/ HandleFlow(c) \/ FindUnnamed(c) \/ SetSellerName(c)

Serve(r) == CreateExample(r) \/ SendAddEvent(r) \/ DoFakeAction(r) \/ SaveExample(r)

Next ==
    \/ \E c \in Consumers : Consume(c) \/ Crash(c)
    \/ \E r \in Requests : TriggerExample(r) \/ RunFakeAction(r) \/ Serve(r)
    \/ \E w \in Workers : Fail(w)
    \/ Answer

Spec == Init /\ [][Next]_vars

\* Consumers take what waits and go on, requests that began go on, and the auth
\* service answers; nobody has to send a request, and nothing has to crash or fail.
Fairness ==
    /\ \A c \in Consumers : WF_vars(Consume(c))
    /\ \A r \in Requests : WF_vars(Serve(r))
    /\ WF_vars(Answer)

FairSpec == Spec /\ Fairness

-----------------------------------------------------------------------------
(* Properties.                                                             *)

\* Every variable has its type, and uuids of examples are those drawn.
TypeOK ==
    /\ inbox \subseteq Messages
    /\ \A w \in Workers :
        /\ task[w].ids \in Seq(Payments \cup 1..drawn)
        /\ task[w].left \in 0..Catalog
    /\ Live \subseteq Payments \cup 1..drawn
    /\ \A u \in Live : stored[u] \in Document /\ (stored[u].example <=> u \notin Payments)
    /\ flows \in [Flows -> Emails \cup {Nothing}]
    /\ asked \in [Payments -> Emails \cup {Nothing}]
    /\ pending \subseteq Payments \X Emails
    /\ log \in [Payments \cup 1..drawn -> Seq({"add", "found", "remove", "subtract"})]
    /\ due \in [Payments -> SUBSET (1..drawn)]
    /\ Len(broken) \in 0..MaxBroken
    /\ \A i \in DOMAIN broken :
        broken[i].how \in {"crash", "failure"} /\ broken[i].task # Idle

\* No message waits and nothing is being handled.
Quiet ==
    /\ \A m \in inbox : m[1] \in RequestKinds
    /\ pending = {}
    /\ \A w \in Workers : task[w] = Idle

Times(kind, u) == Cardinality({i \in DOMAIN log[u] : log[u][i] = kind})

\* A handler that had still to announce this example or its removal did not go on.
Spoiled(u) ==
    \E b \in Range(broken) :
        b.task.step \in {"add", "delete", "event"} /\ u \in Range(b.task.ids)

\* What the statistics hear of an example, in order: it is added at most once, and
\* each removal is announced after a handler found the example, and never more often
\* than handlers found it.  When nothing is left to do, and no handler that dealt with
\* the example broke off, it was added once and removed once for each handler that
\* found it, twice if two of them overlapped, and it is gone exactly if one did.
StatisticsKnowExamples ==
    \A u \in 1..drawn :
        /\ Times("add", u) <= 1
        /\ Times("remove", u) <= Times("found", u)
        /\ \A i \in DOMAIN log[u] :
            log[u][i] = "remove" => u \notin Live /\ \E j \in 1..(i - 1) : log[u][j] = "found"
        /\ Quiet /\ ~Spoiled(u) =>
            /\ Times("add", u) = 1
            /\ Times("remove", u) = Times("found", u)
            /\ u \in Live <=> Times("found", u) = 0

\* A payment clears away the examples that were there before it, unless its handler
\* broke off; and the removal of a payment is never announced.
PaymentsClearExamples ==
    \A p \in Payments :
        /\ Times("remove", p) = 0
        /\ Quiet /\ (\A b \in Range(broken) : b.task.of # <<"payment", p>>) => due[p] \cap Live = {}

\* An example whose removal the statistics heard of is not written back by an
\* action on it that was under way.
RemovedStaysRemoved ==
    [][\A u \in 1..drawn : "remove" \in Range(log[u]) => u \notin DOMAIN stored']_vars

\* A seller's name, once filled in, stays, even when two answers with different
\* names are handled at once.
NameSetOnce ==
    [][\A p \in Payments \cap Live :
        stored[p].seller # Nothing => p \in DOMAIN stored' /\ stored'[p].seller = stored[p].seller]_vars

\* A name that was asked for is filled in, unless the flow gets another seller
\* or is removed, or the handling of the answer fails.
SellerNameArrives ==
    \A p \in Payments : (asked[p] # Nothing) ~>
        (\/ p \in Live /\ stored[p].seller # Nothing
         \/ flows[FlowOf[p]] # asked[p]
         \/ \E b \in Range(broken) :
                b.how = "failure" /\ b.task.of \in {"name"} \X ({asked[p]} \X Names))
=============================================================================
