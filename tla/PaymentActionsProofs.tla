------------------------ MODULE PaymentActionsProofs ------------------------
(***************************************************************************)
(* Proofs about PaymentActions, for any number of requests, any jobs and   *)
(* any provider, and the invariants they rest on.                          *)
(***************************************************************************)
EXTENDS PaymentActions, Sums, SequenceTheorems, TLAPS

-----------------------------------------------------------------------------
(* The amounts.                                                            *)

\* A payload whose lines come from a job has numbers for amounts.
LinesOfJobs == {j.payload.items : j \in Jobs} \cup {j.payload.update : j \in Jobs}

LEMMA LinesAreNumbers ==
    ASSUME NEW lines \in LinesOfJobs
    PROVE  /\ ItemsValue(lines) \in Int
           /\ \A id \in Identifiers : ItemQuantity(lines, id) \in Int
  <1>1. lines \in Seq(CartLine(Identifiers))
    BY ParametersAssumption DEF LinesOfJobs, Job, Payload
  <1>2. \A i \in DOMAIN lines : lines[i].price \in Int /\ lines[i].quantity \in Int
    <2>1. \A i \in DOMAIN lines : lines[i] \in CartLine(Identifiers)
      BY <1>1, ElementOfSeq, LenProperties
    <2>. QED
      BY <2>1 DEF CartLine
  <1>3. IsFiniteSet(DOMAIN lines)
    BY <1>1, LenProperties, FS_Interval
  <1>4. ItemsValue(lines) \in Int
    BY <1>2, <1>3, SumsAreNumbers DEF ItemsValue, SumFunction
  <1>5. ASSUME NEW id \in Identifiers
        PROVE  ItemQuantity(lines, id) \in Int
    <2>. DEFINE f == [i \in DOMAIN lines |-> IF lines[i].identifier = id THEN lines[i].quantity ELSE 0]
    <2>1. \A i \in DOMAIN lines : f[i] \in Int
      BY <1>2
    <2>2. DOMAIN f = DOMAIN lines
      OBVIOUS
    <2>. HIDE DEF f
    <2>3. SumFunction(f) \in Int
      BY <1>3, <2>1, <2>2, SumsAreNumbers DEF SumFunction
    <2>. QED
      BY <2>3 DEF ItemQuantity, f
  <1>. QED
    BY <1>4, <1>5

\* A payload all of whose lines come from a job.
FromJobs(p) == p.items \in LinesOfJobs /\ p.update \in LinesOfJobs

\* The amounts an action sends and records are numbers.
LEMMA AmountsAreNumbers ==
    ASSUME NEW p \in Payload(Identifiers), p.items \in LinesOfJobs, NEW action
    PROVE  /\ AmountSent(action, p) \in Int
           /\ AmountFound(action, p) \in Int
           /\ AmountFromPayload(action, p, Total) \in Int
  BY LinesAreNumbers, ParametersAssumption
  DEF Payload, AmountSent, AmountFound, AmountFromPayload

\* The tallies give numbers to the virtual fields.
LEMMA VirtualFieldsAreNumbers ==
    ASSUME NEW tally \in Tally
    PROVE  /\ AmountRefunded(tally) \in Int
           /\ AmountCaptured(tally) \in Int
           /\ AmountCaptureRest(Total, tally) \in Int
  BY ParametersAssumption
  DEF Tally, TalliedActions, AmountRefunded, AmountCaptured, AmountCaptureRest, NonNegative

\* Neither the fee nor the unwrapping changes anything but the amount.
LEMMA AdjustedPayload ==
    ASSUME NEW p \in Payload(Identifiers), p.items \in LinesOfJobs,
           NEW action, NEW tally \in Tally, NEW fees \in Fees
    PROVE  /\ Adjusted(action, p, fees, Total, tally) \in Payload(Identifiers)
           /\ \A f \in {"wrapped", "itemised", "items", "updated", "update"} :
                Adjusted(action, p, fees, Total, tally)[f] = p[f]
  <1>1. AmountFromItems(p) \in Int
    BY LinesAreNumbers DEF AmountFromItems, Payload
  <1>2. AmountWithFees(AmountFromItems(p), fees, Total, tally) \in Int
    BY <1>1, ParametersAssumption DEF AmountWithFees
  <1>. QED
    BY <1>2 DEF Adjusted, Payload

LEMMA KeptPayload ==
    ASSUME NEW j \in Job
    PROVE  /\ Kept(j) \in Payload(Identifiers)
           /\ \A f \in {"wrapped", "itemised", "items", "updated", "update"} :
                Kept(j)[f] = j.payload[f]
           /\ j.payload.wrapped = 0 => Kept(j).amount = j.payload.amount
  BY DEF Kept, Unwrapped, Job, Payload

LEMMA SentPayload ==
    ASSUME NEW j \in Job, FromJobs(j.payload)
    PROVE  Sent(j) \in Payload(Identifiers) /\ Sent(j).items \in LinesOfJobs
  BY DEF Sent, Dispatched, Unwrapped, Job, Payload, FromJobs

\* What is kept for the listeners would be sent the same way again, and what the
\* history finds in it is what was sent.
LEMMA FoundIsSent ==
    ASSUME NEW j \in Job, SupportedByCaller(j.action), NEW k, k = [j EXCEPT !.payload = Kept(j)]
    PROVE  /\ AmountSent(k.action, Sent(k)) = AmountSent(j.action, Sent(j))
           /\ (AmountSent(k.action, Sent(k)) # 0 /\ ~NamedElsewhere(k.action, k.payload))
                => AmountFromPayload(k.action, k.payload, Total) = AmountSent(j.action, Sent(j))
  <1>1. k.action = j.action /\ k.payload = Kept(j) /\ j.payload \in Payload(Identifiers)
    BY DEF Job
  <1>2. Sent(k) = Sent(j)
    BY <1>1 DEF Sent, Kept, Dispatched, Unwrapped, Payload
  <1>3. ASSUME AmountSent(j.action, Sent(j)) # 0, ~NamedElsewhere(j.action, Kept(j))
        PROVE  AmountFound(j.action, Kept(j)) = AmountSent(j.action, Sent(j))
    <2>1. /\ ~CapturesFunds(j.action, Sent(j))
          /\ Sent(j) = Kept(j)
      BY <1>1, <1>3 DEF NamedElsewhere, CapturesFunds, Sent, Kept, Dispatched, Unwrapped, Payload
    <2>2. (Kept(j).amount = 0 /\ Kept(j).wrapped # 0)
            => (j.action \in TalliedActions <=> j.action \in WrappedActions)
      <3>1. CASE ThirdParty
        BY <1>1, <2>1, <3>1 DEF SupportedByCaller, ThirdPartyActions, TalliedActions, WrappedActions,
                                CapturesFunds
      <3>2. CASE ~ThirdParty
        BY <1>1, <2>1, <3>2 DEF Kept, Unwrapped, TalliedActions, WrappedActions, CapturesFunds, Payload
      <3>. QED
        BY <3>1, <3>2
    <2>. QED
      BY <2>1, <2>2 DEF AmountSent, AmountFound
  <1>. QED
    BY <1>1, <1>2, <1>3 DEF AmountFromPayload

-----------------------------------------------------------------------------
(* Types.                                                                  *)

\* What TypeOK needs to be inductive: the lines of a payload never change.
LinesFromJobs ==
    \A r \in Requests : pc[r] # "idle" => FromJobs(job[r].payload)

TypeInv == TypeOK /\ LinesFromJobs

LEMMA InitTypeInv == Init => TypeInv
  <1>. SUFFICES ASSUME Init
                PROVE  TypeInv
    OBVIOUS
  <1>. USE DEF Init
  <1>1. EmptyTally \in Tally
    BY DEF EmptyTally, Tally
  <1>2. NoJob \in Job
    <2>1. <<>> \in Seq(CartLine(Identifiers))
      BY EmptySeq
    <2>2. NoJob.payload \in Payload(Identifiers)
      BY <2>1 DEF NoJob, Payload
    <2>. QED
      BY <2>2 DEF NoJob, Job
  <1>3. [id \in Identifiers |-> 0] \in Quantities
    BY DEF Quantities
  <1>4. /\ tx \in [status: Statuses, fees: Fees, tally: Tally,
                   captured: Quantities, refunded: Quantities]
        /\ snapshot \in [Requests -> [status: Statuses, tally: Tally]]
        /\ answer \in [Requests -> Answer]
    BY <1>1, <1>3, ParametersAssumption DEF Answer
  <1>5. TypeOK
    BY <1>2, <1>3, <1>4 DEF TypeOK
  <1>. QED
    BY <1>5 DEF TypeInv, LinesFromJobs

\* What every request step uses: r has been received.
LEMMA EntryAmountIsNumber ==
    ASSUME TypeInv, NEW r \in Requests, pc[r] # "idle"
    PROVE  EntryAmount(r) \in Int
  <1>1. job[r].payload \in Payload(Identifiers) /\ job[r].payload.items \in LinesOfJobs
    BY DEF TypeInv, TypeOK, LinesFromJobs, FromJobs, Job
  <1>. QED
    BY <1>1, AmountsAreNumbers DEF EntryAmount

LEMMA ReceiveTypeInv ==
    ASSUME TypeInv, NEW r \in Requests, Receive(r)
    PROVE  TypeInv'
  <1>. USE DEF TypeInv
  <1>1. PICK j \in Jobs :
            /\ snapshot' = [snapshot EXCEPT ![r] = [status |-> tx.status, tally |-> tx.tally]]
            /\ \/ /\ pc' = [pc EXCEPT ![r] = "calling"]
                  /\ job' = [job EXCEPT ![r] = [j EXCEPT !.payload =
                                Adjusted(j.action, j.payload, tx.fees, Total, tx.tally)]]
                  /\ checked' = [checked EXCEPT ![r] =
                        IF AmountIsChecked(j.action, j.payload, j.skipValidation)
                        THEN j.payload.amount ELSE 0]
               \/ /\ pc' = [pc EXCEPT ![r] = "rejected"]
                  /\ job' = [job EXCEPT ![r] = j]
                  /\ UNCHANGED checked
    BY DEF Receive
  <1>2. /\ j \in Job /\ j.payload \in Payload(Identifiers)
        /\ FromJobs(j.payload) /\ j.payload.items \in LinesOfJobs /\ j.payload.amount \in Int
    BY ParametersAssumption DEF Job, Payload, LinesOfJobs, FromJobs
  <1>3. tx.tally \in Tally /\ tx.status \in Statuses /\ tx.fees \in Fees
    BY DEF TypeOK
  <1>. DEFINE p == Adjusted(j.action, j.payload, tx.fees, Total, tx.tally)
  <1>4. /\ p \in Payload(Identifiers) /\ p.items = j.payload.items
        /\ p.update = j.payload.update
    BY <1>2, <1>3, AdjustedPayload
  <1>. HIDE DEF p
  <1>5. [j EXCEPT !.payload = p] \in Job
    BY <1>2, <1>4 DEF Job
  <1>6. job' \in [Requests -> Job]
    <2>1. \E k \in Job : job' = [job EXCEPT ![r] = k]
      BY <1>1, <1>2, <1>5 DEF p
    <2>. QED
      BY <2>1 DEF TypeOK
  <1>7. checked' \in [Requests -> Int]
    BY <1>1, <1>2 DEF TypeOK
  <1>8. pc' \in [Requests -> {"idle"} \cup Running \cup Stopped]
    BY <1>1 DEF TypeOK, Running, Stopped
  <1>9. snapshot' \in [Requests -> [status: Statuses, tally: Tally]]
    BY <1>1, <1>3 DEF TypeOK
  <1>10. TypeOK'
    BY <1>6, <1>7, <1>8, <1>9 DEF TypeOK, Receive, providerVars, eventVars
  <1>11. job'[r].payload.items = j.payload.items /\ job'[r].payload.update = j.payload.update
    BY <1>1, <1>2, <1>4 DEF TypeOK, Job, p
  <1>12. \A q \in Requests \ {r} : job'[q] = job[q] /\ pc'[q] = pc[q]
    BY <1>1 DEF TypeOK
  <1>13. LinesFromJobs'
    BY <1>2, <1>11, <1>12 DEF LinesFromJobs, FromJobs
  <1>. QED
    BY <1>10, <1>13

\* The amounts a provider picks are numbers.
LEMMA SizesAreNumbers == \A size \in Sizes : size \in Int
  BY ParametersAssumption

\* The part of a step that the provider takes.
LEMMA ExecuteTypeInv ==
    ASSUME TypeInv, NEW r \in Requests, pc[r] = "calling", Execute(r)
    PROVE  /\ job' \in [Requests -> Job]
           /\ moved' \in [Requests -> Int]
           /\ charged' \subseteq Requests
           /\ shipped' \in Quantities
           /\ \A q \in Requests : FromJobs(job[q].payload) => FromJobs(job'[q].payload)
  <1>. USE DEF TypeInv
  <1>. DEFINE p == Sent(job[r])
              kept == Kept(job[r])
  <1>1. job[r] \in Job /\ FromJobs(job[r].payload)
    BY DEF TypeOK, LinesFromJobs
  <1>2. /\ p \in Payload(Identifiers) /\ p.items \in LinesOfJobs
        /\ kept \in Payload(Identifiers) /\ kept.items = job[r].payload.items
        /\ kept.update = job[r].payload.update
    BY <1>1, SentPayload, KeptPayload
  <1>. HIDE DEF p, kept
  <1>3. job' = [job EXCEPT ![r].payload = kept]
    BY DEF Execute, kept
  <1>4. job' \in [Requests -> Job]
    BY <1>1, <1>2, <1>3 DEF TypeOK, Job
  <1>5. \A q \in Requests : FromJobs(job[q].payload) => FromJobs(job'[q].payload)
    BY <1>1, <1>2, <1>3 DEF TypeOK, Job, FromJobs
  <1>6. moved' \in [Requests -> Int]
    <2>1. AmountSent(job[r].action, p) \in Int
      BY <1>1, <1>2, AmountsAreNumbers
    <2>2. \A amount \in IF AmountSent(job[r].action, p) # 0
                        THEN {AmountSent(job[r].action, p)} ELSE Sizes : amount \in Int
      <3>1. CASE AmountSent(job[r].action, p) # 0
        BY <2>1, <3>1
      <3>2. CASE AmountSent(job[r].action, p) = 0
        BY <3>2, SizesAreNumbers
      <3>. QED
        BY <3>1, <3>2
    <2>3. \E amount \in Int : moved' = [moved EXCEPT ![r] = amount]
      BY <2>2 DEF Execute, p
    <2>. QED
      BY <2>3 DEF TypeOK
  <1>7. shipped' \in Quantities
    <2>1. \A id \in Identifiers : ItemQuantity(p.items, id) \in Int
      BY <1>1, <1>2, LinesAreNumbers
    <2>2. \/ shipped' = [id \in Identifiers |-> shipped[id] + ItemQuantity(p.items, id)]
          \/ shipped' = shipped
      BY DEF Execute, p
    <2>. QED
      BY <2>1, <2>2 DEF TypeOK, Quantities
  <1>8. charged' \subseteq Requests
    BY DEF TypeOK, Execute
  <1>. QED
    BY <1>4, <1>5, <1>6, <1>7, <1>8

\* A step of a request after Receive and before its listeners are done.
LEMMA ProceedTypeInv ==
    ASSUME TypeInv, NEW r \in Requests, Proceed(r)
    PROVE  TypeInv'
  <1>. USE DEF TypeInv, requestVars, providerVars, eventVars
  <1>1. CASE CallProvider(r)
    <2>1. \A q \in Requests : FromJobs(job[q].payload) => FromJobs(job'[q].payload)
      BY <1>1, ExecuteTypeInv DEF CallProvider
    <2>2. TypeOK'
      BY <1>1, ExecuteTypeInv DEF CallProvider, TypeOK, Running
    <2>3. LinesFromJobs'
      BY <1>1, <2>1 DEF CallProvider, LinesFromJobs, TypeOK
    <2>. QED
      BY <2>2, <2>3
  <1>2. CASE AnswerLost(r)
    <2>1. \A q \in Requests : FromJobs(job[q].payload) => FromJobs(job'[q].payload)
      BY <1>2, ExecuteTypeInv DEF AnswerLost
    <2>2. TypeOK'
      BY <1>2, ExecuteTypeInv DEF AnswerLost, TypeOK, Stopped
    <2>3. LinesFromJobs'
      BY <1>2, <2>1 DEF AnswerLost, LinesFromJobs, TypeOK
    <2>. QED
      BY <2>2, <2>3
  <1>3. CASE ProviderRefuses(r)
    BY <1>3 DEF ProviderRefuses, TypeOK, LinesFromJobs, Stopped
  <1>4. CASE ApplyPaymentProperties(r)
    BY <1>4 DEF ApplyPaymentProperties, Disturb, InFlight, Answer, TypeOK, LinesFromJobs, Running, Stopped
  <1>5. CASE ApplyPaymentItems(r)
    BY <1>5 DEF ApplyPaymentItems, TypeOK, LinesFromJobs, Running, Stopped
  <1>6. CASE RunNextAction(r)
    BY <1>6 DEF RunNextAction, TypeOK, LinesFromJobs, Running, Stopped
  <1>7. CASE ApplyThirdPartyResult(r)
    <2>1. /\ tx' \in {tx, [tx EXCEPT !.status = answer[r].status]}
          /\ pc[r] = "status"
          /\ \E next \in {"after", "failed"} : pc' = [pc EXCEPT ![r] = next]
          /\ disturbed' \in {disturbed, disturbed \cup (InFlight \ {r})}
          /\ UNCHANGED <<job, snapshot, checked, answer, todo, providerVars, eventVars>>
      BY <1>7 DEF ApplyThirdPartyResult, Disturb
    <2>2. answer[r].status \in Statuses
      BY DEF TypeOK, Answer
    <2>3. tx' \in [status: Statuses, fees: Fees, tally: Tally,
                   captured: Quantities, refunded: Quantities]
      BY <2>1, <2>2 DEF TypeOK
    <2>. QED
      BY <2>1, <2>3 DEF TypeOK, LinesFromJobs, Running, Stopped, InFlight
  <1>8. CASE DispatchAfter(r)
    BY <1>8 DEF DispatchAfter, TypeOK, LinesFromJobs, Running
  <1>9. CASE PushHistory(r)
    <2>1. EntryAmount(r) \in Int
      BY <1>9, EntryAmountIsNumber DEF PushHistory, Finish
    <2>2. tx' \in [status: Statuses, fees: Fees, tally: Tally,
                   captured: Quantities, refunded: Quantities]
      <3>1. CASE job[r].action \in TalliedActions
        <4>1. tx.tally \in Tally
          BY DEF TypeOK
        <4>2. [tx.tally EXCEPT ![job[r].action] = @ + EntryAmount(r)] \in Tally
          BY <2>1, <3>1, <4>1 DEF Tally
        <4>3. tx' = [tx EXCEPT !.tally =
                        [tx.tally EXCEPT ![job[r].action] = @ + EntryAmount(r)]]
          BY <1>9, <3>1 DEF PushHistory, TypeOK
        <4>. QED
          BY <4>2, <4>3 DEF TypeOK
      <3>2. CASE job[r].action \notin TalliedActions
        BY <1>9, <3>2 DEF PushHistory, TypeOK
      <3>. QED
        BY <3>1, <3>2
    <2>. QED
      BY <1>9, <2>2 DEF PushHistory, Finish, TypeOK, LinesFromJobs
  <1>10. CASE ProcessRefundedTransaction(r)
    BY <1>10 DEF ProcessRefundedTransaction, Finish, TypeOK, LinesFromJobs
  <1>11. CASE SendTransactionUpdate(r)
    BY <1>11 DEF SendTransactionUpdate, Finish, TypeOK, LinesFromJobs
  <1>12. CASE ListenerFails(r)
    BY <1>12 DEF ListenerFails, TypeOK, LinesFromJobs, Stopped
  <1>13. CASE Respond(r)
    BY <1>13 DEF Respond, TypeOK, LinesFromJobs, Stopped
  <1>. QED
    BY <1>1, <1>2, <1>3, <1>4, <1>5, <1>6, <1>7, <1>8, <1>9, <1>10, <1>11, <1>12, <1>13
    DEF Proceed

LEMMA NextTypeInv == TypeInv /\ [Next]_vars => TypeInv'
  <1>. SUFFICES ASSUME TypeInv, [Next]_vars
                PROVE  TypeInv'
    OBVIOUS
  <1>1. CASE \E r \in Requests : Receive(r)
    BY <1>1, ReceiveTypeInv
  <1>2. CASE \E r \in Requests : Proceed(r)
    BY <1>2, ProceedTypeInv
  <1>3. CASE \E r \in Requests : Crash(r)
    BY <1>3 DEF Crash, TypeInv, TypeOK, LinesFromJobs, Stopped, Running, providerVars, eventVars
  <1>4. CASE PaymentUpdated
    BY <1>4 DEF PaymentUpdated, Disturb, InFlight, TypeInv, TypeOK, LinesFromJobs,
                providerVars, eventVars
  <1>5. CASE UNCHANGED vars
    BY <1>5 DEF vars, TypeInv, TypeOK, LinesFromJobs, EntriesOf, requestVars, providerVars, eventVars
  <1>. QED
    BY <1>1, <1>2, <1>3, <1>4, <1>5 DEF Next

LEMMA TypeInvariance == Spec => []TypeInv
  BY InitTypeInv, NextTypeInv, PTL DEF Spec

\* Every variable of doAction keeps its type, whatever the payloads, however many
\* requests overlap, crash or fail.
THEOREM TypeCorrect == Spec => []TypeOK
  BY TypeInvariance, PTL DEF TypeInv

-----------------------------------------------------------------------------
(* doAction keeps the books of ActionLedger.                               *)

BeforeProvider == {"idle", "rejected", "calling"}
BeforeListeners == BeforeProvider \cup {"properties", "items", "next", "status", "after"}

\* What a request has left at the provider and in the history, by where it is.
TraceOf(r) ==
    /\ r \in charged => pc[r] \notin BeforeProvider
    /\ pc[r] \notin BeforeProvider \cup {"failed", "crashed"} => r \in charged
    /\ r \in entries => r \in charged /\ pc[r] \notin BeforeListeners
    /\ "history" \in todo[r] => r \notin entries
    /\ (r \in charged /\ NamesItsAmount(r)) => moved[r] = EntryAmount(r)

LedgerInv == \A r \in Requests : TraceOf(r)

\* The step leaves what q has left alone.
KeepsTrace(q) ==
    /\ pc'[q] = pc[q] /\ job'[q] = job[q] /\ todo'[q] = todo[q]
    /\ moved'[q] = moved[q]
    /\ q \in charged' <=> q \in charged
    /\ q \in entries' <=> q \in entries

LEMMA KeptTrace ==
    ASSUME NEW q \in Requests, TraceOf(q), KeepsTrace(q)
    PROVE  TraceOf(q)'
  BY DEF TraceOf, KeepsTrace, NamesItsAmount, EntryAmount

\* A step of one request keeps the traces of the others.
LEMMA OthersKeepTrace ==
    ASSUME TypeInv, NEW r \in Requests, Receive(r) \/ Proceed(r) \/ Crash(r),
           NEW q \in Requests \ {r}
    PROVE  KeepsTrace(q)
  <1>. USE DEF TypeInv, TypeOK, KeepsTrace, requestVars, providerVars, eventVars
  <1>1. CASE Receive(r)
    BY <1>1 DEF Receive
  <1>2. CASE CallProvider(r) \/ AnswerLost(r)
    BY <1>2 DEF CallProvider, AnswerLost, Execute
  <1>3. CASE \/ ProviderRefuses(r) \/ ApplyPaymentProperties(r) \/ ApplyPaymentItems(r)
             \/ RunNextAction(r) \/ ApplyThirdPartyResult(r) \/ DispatchAfter(r)
             \/ ListenerFails(r) \/ Respond(r) \/ Crash(r)
    BY <1>3 DEF ProviderRefuses, ApplyPaymentProperties, ApplyPaymentItems, RunNextAction,
                ApplyThirdPartyResult, DispatchAfter, ListenerFails, Respond, Crash
  <1>4. CASE PushHistory(r) \/ ProcessRefundedTransaction(r) \/ SendTransactionUpdate(r)
    BY <1>4 DEF PushHistory, ProcessRefundedTransaction, SendTransactionUpdate, Finish
  <1>. QED
    BY <1>1, <1>2, <1>3, <1>4 DEF Proceed

LEMMA SameAmounts ==
    ASSUME NEW r \in Requests, UNCHANGED job
    PROVE  NamesItsAmount(r)' = NamesItsAmount(r) /\ EntryAmount(r)' = EntryAmount(r)
  BY DEF NamesItsAmount, EntryAmount, Sent

\* The wrapper, once unwrapped, names the same amount to the history.
LEMMA OwnTrace ==
    ASSUME TypeInv, NEW r \in Requests, TraceOf(r), Receive(r) \/ Proceed(r) \/ Crash(r)
    PROVE  TraceOf(r)'
  <1>. USE DEF TypeInv, TypeOK, TraceOf, requestVars, providerVars, eventVars,
               BeforeProvider, BeforeListeners
  <1>1. CASE Receive(r)
    BY <1>1 DEF Receive
  <1>2. CASE CallProvider(r) \/ AnswerLost(r)
    <2>1. /\ pc[r] = "calling" /\ pc'[r] \in {"status", "properties", "failed"}
          /\ entries' = entries /\ todo' = todo /\ Execute(r)
      BY <1>2 DEF CallProvider, AnswerLost
    <2>2. job'[r] = [job[r] EXCEPT !.payload = Kept(job[r])] /\ job[r] \in Job
      BY <2>1 DEF Execute
    <2>3. /\ AmountSent(job'[r].action, Sent(job'[r])) = AmountSent(job[r].action, Sent(job[r]))
          /\ NamesItsAmount(r)' => EntryAmount(r)' = AmountSent(job[r].action, Sent(job[r]))
      <3>1. SupportedByCaller(job[r].action)
        BY <1>2 DEF CallProvider, AnswerLost
      <3>. QED
        BY <2>2, <3>1, FoundIsSent DEF NamesItsAmount, EntryAmount, Sent
    <2>4. NamesItsAmount(r)' => moved'[r] = EntryAmount(r)'
      <3>1. AmountSent(job[r].action, Sent(job[r])) # 0
              => moved'[r] = AmountSent(job[r].action, Sent(job[r]))
        BY <2>1 DEF Execute
      <3>2. NamesItsAmount(r)' => AmountSent(job[r].action, Sent(job[r])) # 0
        BY <2>3 DEF NamesItsAmount, Sent
      <3>. QED
        BY <2>3, <3>1, <3>2
    <2>. QED
      BY <2>1, <2>4 DEF Execute
  <1>3. CASE \/ ProviderRefuses(r) \/ ApplyPaymentProperties(r) \/ ApplyPaymentItems(r)
             \/ RunNextAction(r) \/ ApplyThirdPartyResult(r)
             \/ ListenerFails(r) \/ Respond(r) \/ Crash(r)
    <2>1. UNCHANGED <<job, todo, moved, charged, entries>>
      BY <1>3 DEF ProviderRefuses, ApplyPaymentProperties, ApplyPaymentItems, RunNextAction,
                  ApplyThirdPartyResult, ListenerFails, Respond, Crash
    <2>2. /\ pc'[r] \notin BeforeProvider
          /\ pc[r] \in BeforeProvider => pc'[r] \in {"failed", "crashed"}
          /\ pc'[r] \in BeforeListeners => pc[r] \in BeforeListeners
          /\ pc[r] \in {"failed", "crashed"} => pc'[r] \in {"failed", "crashed"}
      BY <1>3 DEF ProviderRefuses, ApplyPaymentProperties, ApplyPaymentItems, RunNextAction,
                  ApplyThirdPartyResult, ListenerFails, Respond, Crash, Running
    <2>3. NamesItsAmount(r)' = NamesItsAmount(r) /\ EntryAmount(r)' = EntryAmount(r)
      BY <2>1, SameAmounts
    <2>. QED
      BY <2>1, <2>2, <2>3
  <1>4. CASE DispatchAfter(r)
    <2>1. NamesItsAmount(r)' = NamesItsAmount(r) /\ EntryAmount(r)' = EntryAmount(r)
      BY <1>4, SameAmounts DEF DispatchAfter
    <2>. QED
      BY <1>4, <2>1 DEF DispatchAfter
  <1>5. CASE PushHistory(r) \/ ProcessRefundedTransaction(r) \/ SendTransactionUpdate(r)
    <2>1. NamesItsAmount(r)' = NamesItsAmount(r) /\ EntryAmount(r)' = EntryAmount(r)
      BY <1>5, SameAmounts DEF PushHistory, ProcessRefundedTransaction, SendTransactionUpdate
    <2>. QED
      BY <1>5, <2>1 DEF PushHistory, ProcessRefundedTransaction, SendTransactionUpdate, Finish
  <1>. QED
    BY <1>1, <1>2, <1>3, <1>4, <1>5 DEF Proceed

LEMMA InitLedgerInv == Init => LedgerInv
  BY DEF Init, LedgerInv, TraceOf, BeforeProvider, BeforeListeners

LEMMA NextLedgerInv == TypeInv /\ LedgerInv /\ [Next]_vars => LedgerInv'
  <1>. SUFFICES ASSUME TypeInv, LedgerInv, [Next]_vars
                PROVE  LedgerInv'
    OBVIOUS
  <1>1. ASSUME NEW r \in Requests, Receive(r) \/ Proceed(r) \/ Crash(r)
        PROVE  LedgerInv'
    BY <1>1, OwnTrace, OthersKeepTrace, KeptTrace DEF LedgerInv
  <1>2. CASE PaymentUpdated \/ UNCHANGED vars
    BY <1>2 DEF PaymentUpdated, vars, requestVars, providerVars, eventVars,
                LedgerInv, TraceOf, NamesItsAmount, EntryAmount
  <1>. QED
    BY <1>1, <1>2 DEF Next

LEMMA LedgerInvariance == Spec => [](TypeInv /\ LedgerInv)
  BY InitTypeInv, NextTypeInv, InitLedgerInv, NextLedgerInv, PTL DEF Spec

\* A step that moves no money and pushes no entry is a stutter of the ledger.
LEMMA LedgerStutters ==
    ASSUME UNCHANGED <<charged, entries, moved>>, LedgerInv,
           \A q \in charged : job'[q] = job[q]
    PROVE  UNCHANGED Ledger!ledgerVars
  BY DEF Ledger!ledgerVars, LedgerInv, TraceOf, EntryAmount, NamesItsAmount

LEMMA ExecutesInLedger ==
    ASSUME TypeInv, LedgerInv, NEW r \in Requests, CallProvider(r) \/ AnswerLost(r)
    PROVE  Ledger!Execute(r)
  <1>. USE DEF TypeInv, TypeOK, eventVars
  <1>1. /\ r \notin charged /\ charged' = charged \cup {r} /\ r \notin entries
        /\ UNCHANGED entries
    BY DEF CallProvider, AnswerLost, Execute, LedgerInv, TraceOf, BeforeProvider
  <1>2. \A q \in Requests \ {r} : job'[q] = job[q] /\ moved'[q] = moved[q]
    BY DEF CallProvider, AnswerLost, Execute
  <1>. QED
    BY <1>1, <1>2 DEF Ledger!Execute, EntryAmount, NamesItsAmount

LEMMA RecordsInLedger ==
    ASSUME TypeInv, LedgerInv, NEW r \in Requests, PushHistory(r)
    PROVE  Ledger!Record(r)
  <1>. USE DEF TypeInv, TypeOK
  <1>1. /\ pc[r] = "listeners" /\ "history" \in todo[r]
        /\ entries' = entries \cup {r} /\ UNCHANGED <<job, moved, charged>>
    BY DEF PushHistory, Finish, providerVars
  <1>2. r \in charged \ entries
    BY <1>1 DEF LedgerInv, TraceOf, BeforeProvider
  <1>3. NamesItsAmount(r) => EntryAmount(r) = moved[r]
    BY <1>2 DEF LedgerInv, TraceOf
  <1>. QED
    BY <1>1, <1>2, <1>3 DEF Ledger!Record, EntryAmount, NamesItsAmount

LEMMA StepsInLedger ==
    TypeInv /\ LedgerInv /\ [Next]_vars => [Ledger!Next]_(Ledger!ledgerVars)
  <1>. SUFFICES ASSUME TypeInv, LedgerInv, [Next]_vars
                PROVE  Ledger!Next \/ UNCHANGED Ledger!ledgerVars
    OBVIOUS
  <1>. USE DEF requestVars, providerVars, eventVars
  <1>1. ASSUME NEW r \in Requests, Receive(r)
        PROVE  UNCHANGED Ledger!ledgerVars
    <2>1. UNCHANGED <<charged, entries, moved>> /\ r \notin charged
      BY <1>1 DEF Receive, LedgerInv, TraceOf, BeforeProvider
    <2>2. \A q \in Requests \ {r} : job'[q] = job[q]
      BY <1>1, OthersKeepTrace DEF KeepsTrace
    <2>. QED
      BY <2>1, <2>2, LedgerStutters DEF TypeInv, TypeOK
  <1>2. ASSUME NEW r \in Requests, CallProvider(r) \/ AnswerLost(r)
        PROVE  Ledger!Next
    BY <1>2, ExecutesInLedger DEF Ledger!Next
  <1>3. ASSUME NEW r \in Requests, PushHistory(r)
        PROVE  Ledger!Next
    BY <1>3, RecordsInLedger DEF Ledger!Next
  <1>4. ASSUME NEW r \in Requests,
               \/ ProviderRefuses(r) \/ ApplyPaymentProperties(r) \/ ApplyPaymentItems(r)
               \/ RunNextAction(r) \/ ApplyThirdPartyResult(r) \/ DispatchAfter(r)
               \/ ProcessRefundedTransaction(r) \/ SendTransactionUpdate(r)
               \/ ListenerFails(r) \/ Respond(r) \/ Crash(r)
        PROVE  UNCHANGED Ledger!ledgerVars
    <2>1. UNCHANGED <<charged, entries, moved, job>>
      BY <1>4 DEF ProviderRefuses, ApplyPaymentProperties, ApplyPaymentItems, RunNextAction,
                  ApplyThirdPartyResult, DispatchAfter, ProcessRefundedTransaction,
                  SendTransactionUpdate, ListenerFails, Respond, Crash
    <2>. QED
      BY <2>1, LedgerStutters
  <1>5. CASE PaymentUpdated \/ UNCHANGED vars
    BY <1>5, LedgerStutters DEF PaymentUpdated, vars
  <1>. QED
    BY <1>1, <1>2, <1>3, <1>4, <1>5 DEF Next, Proceed

LEMMA InitInLedger == Init => Ledger!Init
  BY DEF Init, Ledger!Init

\* For any payloads, overlap, crashes and failures: a history entry is pushed at
\* most once for a request, only after the provider has executed it, and for the
\* amount it was sent, in whichever place the payload names it: the plain amount,
\* a wrapper that prepareActionFields unwraps or getAmountFromPayload finds, or
\* the items.  The capture_funds of a capture and edits are not among them.
THEOREM ActionsImplementLedger == Spec => ImplementsLedger
  BY LedgerInvariance, InitInLedger, StepsInLedger, PTL
  DEF Spec, ImplementsLedger, Ledger!Spec

-----------------------------------------------------------------------------
(* What the validators saw still fits when the entry is pushed.            *)

\* The amount of a validated request, fee included, on top of the history that
\* was read for it.
SnapshotFits(r) ==
    LET amount == job[r].payload.amount
        tally == snapshot[r].tally IN
    /\ amount > 0
    /\ job[r].action \in GuardedActions
    /\ job[r].action = "refund" => amount + AmountRefunded(tally) <= Total
    /\ job[r].action = "shipping_goods" =>
         amount + AmountCaptured(tally) + AmountRefunded(tally) <= Total

ValidatedFits ==
    \A r \in Requests :
        /\ pc[r] = "idle" => checked[r] = 0
        /\ ValidatedPayload(r) => SnapshotFits(r)

\* The validators give a fitting amount, and the fee of a last capture is all
\* that was left beside it.
LEMMA AdjustedAmountFits ==
    ASSUME NEW p \in Payload(Identifiers), ~p.itemised, NEW tally \in Tally,
           NEW fees \in Fees, NEW action \in GuardedActions, ValidAmount(action, p.amount, Total, tally)
    PROVE  LET amount == Adjusted(action, p, fees, Total, tally).amount IN
           /\ amount > 0
           /\ action = "refund" => amount + AmountRefunded(tally) <= Total
           /\ action = "shipping_goods" =>
                amount + AmountCaptured(tally) + AmountRefunded(tally) <= Total
  <1>. DEFINE captured == AmountCaptured(tally)
              refunded == AmountRefunded(tally)
              amount == Adjusted(action, p, fees, Total, tally).amount
  <1>1. captured \in Int /\ refunded \in Int /\ Total \in Int /\ fees \in Nat
    BY VirtualFieldsAreNumbers, ParametersAssumption
  <1>2. p.amount \in Int /\ p.amount > 0
    BY DEF Payload, ValidAmount
  <1>3. CASE action = "refund"
    <2>1. amount = p.amount /\ p.amount <= Total - refunded
      BY <1>3 DEF Adjusted, ValidAmount, AllowedRefundAmount
    <2>. HIDE DEF amount, captured, refunded
    <2>. QED
      BY <1>1, <1>2, <1>3, <2>1 DEF amount, captured, refunded
  <1>4. CASE action = "shipping_goods"
    <2>1. p.amount <= Total - captured - refunded
      BY <1>4 DEF ValidAmount, AllowedCaptureAmount
    <2>2. AmountCaptureRest(Total, tally) = Total - captured - refunded
      BY <1>1, <1>2, <2>1 DEF AmountCaptureRest, NonNegative
    <2>3. amount = AmountWithFees(p.amount, fees, Total, tally)
      BY <1>4 DEF Adjusted, AmountFromItems, Payload
    <2>. HIDE DEF amount, captured, refunded
    <2>4. \/ amount = p.amount
          \/ amount = p.amount + fees /\ p.amount = Total - captured - refunded - fees
      BY <2>2, <2>3 DEF AmountWithFees
    <2>5. amount > 0 /\ amount + captured + refunded <= Total
      BY <1>1, <1>2, <2>1, <2>4
    <2>. QED
      BY <1>4, <2>5 DEF amount, captured, refunded
  <1>. QED
    BY <1>3, <1>4 DEF GuardedActions

LEMMA ReceiveValidatedFits ==
    ASSUME TypeInv, ValidatedFits, NEW r \in Requests, Receive(r)
    PROVE  ValidatedFits'
  <1>. USE DEF TypeInv, TypeOK
  <1>1. PICK j \in Jobs :
            /\ snapshot' = [snapshot EXCEPT ![r] = [status |-> tx.status, tally |-> tx.tally]]
            /\ \/ /\ PassesValidation(j)
                  /\ pc' = [pc EXCEPT ![r] = "calling"]
                  /\ job' = [job EXCEPT ![r] = [j EXCEPT !.payload =
                                Adjusted(j.action, j.payload, tx.fees, Total, tx.tally)]]
                  /\ checked' = [checked EXCEPT ![r] =
                        IF AmountIsChecked(j.action, j.payload, j.skipValidation)
                        THEN j.payload.amount ELSE 0]
               \/ /\ pc' = [pc EXCEPT ![r] = "rejected"]
                  /\ job' = [job EXCEPT ![r] = j]
                  /\ UNCHANGED checked
    BY DEF Receive
  <1>2. pc[r] = "idle" /\ checked[r] = 0 /\ pc'[r] # "idle"
    BY <1>1 DEF Receive, ValidatedFits
  <1>3. ASSUME NEW q \in Requests \ {r}
        PROVE  /\ pc'[q] = "idle" => checked'[q] = 0
               /\ ValidatedPayload(q)' => SnapshotFits(q)'
    <2>1. /\ pc'[q] = pc[q] /\ job'[q] = job[q] /\ checked'[q] = checked[q]
          /\ snapshot'[q] = snapshot[q]
      BY <1>1
    <2>. QED
      BY <2>1 DEF ValidatedFits, ValidatedPayload, SnapshotFits
  <1>4. ASSUME ValidatedPayload(r)' PROVE SnapshotFits(r)'
    <2>1. checked'[r] # 0
      BY <1>4 DEF ValidatedPayload
    <2>2. /\ AmountIsChecked(j.action, j.payload, j.skipValidation)
          /\ PassesValidation(j)
          /\ job' = [job EXCEPT ![r] = [j EXCEPT !.payload =
                        Adjusted(j.action, j.payload, tx.fees, Total, tx.tally)]]
      BY <1>1, <1>2, <2>1
    <2>3. /\ j \in Job /\ j.payload \in Payload(Identifiers)
          /\ j.payload.items \in LinesOfJobs
      BY ParametersAssumption DEF Job, LinesOfJobs
    <2>. DEFINE p == Adjusted(j.action, j.payload, tx.fees, Total, tx.tally)
    <2>4. p.itemised = j.payload.itemised
      BY <2>3, AdjustedPayload
    <2>5. job'[r].action = j.action /\ job'[r].payload = p
      BY <2>2, <2>3 DEF Job
    <2>6. ~j.payload.itemised
      BY <1>4, <2>4, <2>5 DEF ValidatedPayload
    <2>7. j.action \in GuardedActions /\ ValidAmount(j.action, j.payload.amount, Total, tx.tally)
      BY <2>2 DEF PassesValidation, AmountIsChecked
    <2>8. snapshot'[r].tally = tx.tally
      BY <1>1
    <2>. QED
      BY <2>3, <2>5, <2>6, <2>7, <2>8, AdjustedAmountFits DEF SnapshotFits
  <1>. QED
    BY <1>2, <1>3, <1>4 DEF ValidatedFits

\* After Receive only the unwrapping changes a payload, and not a validated one.
LEMMA LaterStepsKeepPayload ==
    ASSUME TypeInv, NEW r \in Requests, Proceed(r) \/ Crash(r), NEW q \in Requests
    PROVE  /\ pc'[q] = "idle" <=> pc[q] = "idle"
           /\ checked'[q] = checked[q] /\ snapshot'[q] = snapshot[q]
           /\ job'[q].action = job[q].action
           /\ job'[q].payload.wrapped = job[q].payload.wrapped
           /\ job'[q].payload.itemised = job[q].payload.itemised
           /\ job[q].payload.wrapped = 0 => job'[q].payload.amount = job[q].payload.amount
  <1>. USE DEF TypeInv, TypeOK, Running
  <1>1. CASE CallProvider(r) \/ AnswerLost(r)
    <2>1. /\ UNCHANGED <<checked, snapshot>>
          /\ pc[r] = "calling"
          /\ \E next \in {"status", "properties", "failed"} : pc' = [pc EXCEPT ![r] = next]
          /\ job' = [job EXCEPT ![r].payload = Kept(job[r])]
      BY <1>1 DEF CallProvider, AnswerLost, Execute
    <2>2. job[r] \in Job
      OBVIOUS
    <2>3. /\ Kept(job[r]).wrapped = job[r].payload.wrapped
          /\ Kept(job[r]).itemised = job[r].payload.itemised
          /\ job[r].payload.wrapped = 0 => Kept(job[r]).amount = job[r].payload.amount
      BY <2>2, KeptPayload
    <2>. QED
      BY <2>1, <2>2, <2>3 DEF Job
  <1>2. CASE \/ ProviderRefuses(r) \/ ApplyPaymentProperties(r) \/ ApplyPaymentItems(r)
             \/ RunNextAction(r) \/ ApplyThirdPartyResult(r) \/ DispatchAfter(r)
             \/ ListenerFails(r) \/ Respond(r) \/ Crash(r)
    BY <1>2 DEF ProviderRefuses, ApplyPaymentProperties, ApplyPaymentItems, RunNextAction,
                ApplyThirdPartyResult, DispatchAfter, ListenerFails, Respond, Crash
  <1>3. CASE PushHistory(r) \/ ProcessRefundedTransaction(r) \/ SendTransactionUpdate(r)
    BY <1>3 DEF PushHistory, ProcessRefundedTransaction, SendTransactionUpdate, Finish
  <1>. QED
    BY <1>1, <1>2, <1>3 DEF Proceed

LEMMA InitValidatedFits == Init => ValidatedFits
  BY DEF Init, ValidatedFits, ValidatedPayload

LEMMA NextValidatedFits == TypeInv /\ ValidatedFits /\ [Next]_vars => ValidatedFits'
  <1>. SUFFICES ASSUME TypeInv, ValidatedFits, [Next]_vars
                PROVE  ValidatedFits'
    OBVIOUS
  <1>1. CASE \E r \in Requests : Receive(r)
    BY <1>1, ReceiveValidatedFits
  <1>2. ASSUME NEW r \in Requests, Proceed(r) \/ Crash(r)
        PROVE  ValidatedFits'
    BY <1>2, LaterStepsKeepPayload DEF ValidatedFits, ValidatedPayload, SnapshotFits
  <1>3. CASE PaymentUpdated \/ UNCHANGED vars
    BY <1>3 DEF PaymentUpdated, vars, requestVars, ValidatedFits, ValidatedPayload,
                SnapshotFits
  <1>. QED
    BY <1>1, <1>2, <1>3 DEF Next

\* The entry of a validated request is its own amount: neither the items nor the
\* total stand in for it.
LEMMA ValidatedEntry ==
    ASSUME NEW r \in Requests, SnapshotFits(r)
    PROVE  EntryAmount(r) = job[r].payload.amount
  BY DEF SnapshotFits, EntryAmount, AmountFromPayload, AmountFound

\* What PushHistory makes of the sums the validators look at.
LEMMA PushedTally ==
    ASSUME TypeInv, NEW r \in Requests, PushHistory(r), SnapshotFits(r)
    PROVE  /\ job[r].action = "refund" =>
                /\ AmountRefunded(tx'.tally) = AmountRefunded(tx.tally) + EntryAmount(r)
                /\ AmountCaptured(tx'.tally) = AmountCaptured(tx.tally)
           /\ job[r].action = "shipping_goods" =>
                /\ AmountRefunded(tx'.tally) = AmountRefunded(tx.tally)
                /\ AmountCaptured(tx'.tally) = AmountCaptured(tx.tally) + EntryAmount(r)
  <1>1. EntryAmount(r) \in Int
    BY EntryAmountIsNumber DEF PushHistory, Finish
  <1>2. tx.tally \in [TalliedActions -> Int]
    BY DEF TypeInv, TypeOK, Tally
  <1>3. job[r].action \in TalliedActions
    BY DEF SnapshotFits, GuardedActions, TalliedActions
  <1>4. tx'.tally = [tx.tally EXCEPT ![job[r].action] = @ + EntryAmount(r)]
    BY <1>3 DEF PushHistory, TypeInv, TypeOK
  <1>. HIDE DEF EntryAmount
  <1>. QED
    BY <1>1, <1>2, <1>3, <1>4 DEF AmountRefunded, AmountCaptured, TalliedActions

LEMMA FreshEntryFits ==
    ASSUME TypeInv, ValidatedFits, [Next]_vars, NEW r \in entries' \ entries,
           ValidatedPayload(r), tx.tally = snapshot[r].tally
    PROVE  Fits(job[r].action, tx'.tally)
  <1>1. PushHistory(r) /\ r \in Requests
    <2>1. PICK q \in Requests : PushHistory(q)
      BY DEF Next, Proceed, Receive, CallProvider, ProviderRefuses, AnswerLost,
             ApplyPaymentProperties, ApplyPaymentItems, RunNextAction, ApplyThirdPartyResult,
             DispatchAfter, ProcessRefundedTransaction, SendTransactionUpdate, ListenerFails,
             Respond, Crash, PaymentUpdated, vars, eventVars
    <2>. QED
      BY <2>1 DEF PushHistory
  <1>2. SnapshotFits(r)
    BY <1>1 DEF ValidatedFits
  <1>3. /\ AmountRefunded(tx.tally) \in Int /\ AmountCaptured(tx.tally) \in Int
        /\ EntryAmount(r) = job[r].payload.amount /\ EntryAmount(r) \in Int
    BY <1>1, <1>2, VirtualFieldsAreNumbers, ValidatedEntry, EntryAmountIsNumber
    DEF TypeInv, TypeOK, PushHistory, Finish
  <1>. QED
    BY <1>1, <1>2, <1>3, PushedTally, ParametersAssumption DEF SnapshotFits, Fits

\* For every total, fee and payload: what a validated request adds to the history
\* its validators saw never exceeds what was paid, the fee added to a last
\* capture included.
THEOREM FreshEntriesFit == Spec => FreshValidatedActionsFit
  <1>1. TypeInv /\ ValidatedFits /\ [Next]_vars =>
          [\A r \in entries' \ entries :
              (ValidatedPayload(r) /\ tx.tally = snapshot[r].tally)
                  => Fits(job[r].action, tx'.tally)]_vars
    BY FreshEntryFits
  <1>2. Spec => [](TypeInv /\ ValidatedFits)
    BY InitTypeInv, NextTypeInv, InitValidatedFits, NextValidatedFits, PTL DEF Spec
  <1>. QED
    BY <1>1, <1>2, PTL DEF Spec, FreshValidatedActionsFit

-----------------------------------------------------------------------------
(* Requests that wait for one another.                                     *)

MovesMoney(action) == action \in {"refund", "return", "shipping_goods"}

SerialInv ==
    /\ \A r, q \in InFlight : r = q
    /\ \A r \in InFlight :
         /\ MovesMoney(job[r].action) => ValidatedPayload(r)
         /\ r \notin entries => snapshot[r].tally = tx.tally
    /\ AmountRefunded(tx.tally) \in 0..Total
    /\ AmountCaptured(tx.tally) \in 0..Total

LEMMA InitSerialInv == Init => SerialInv
  BY ParametersAssumption
  DEF Init, SerialInv, InFlight, Running, AmountRefunded, AmountCaptured, EmptyTally,
      TalliedActions

LEMMA ReceiveSerialInv ==
    ASSUME Serial, JobsAreValidated, TypeInv, SerialInv, NEW r \in Requests, Receive(r)
    PROVE  SerialInv'
  <1>. USE DEF TypeInv, TypeOK
  <1>1. InFlight' \subseteq {r} /\ tx' = tx
    BY DEF Receive, InFlight
  <1>2. snapshot'[r].tally = tx'.tally
    BY DEF Receive
  <1>3. ASSUME r \in InFlight', MovesMoney(job'[r].action)
        PROVE  ValidatedPayload(r)'
    <2>1. PICK j \in Jobs :
              /\ job' = [job EXCEPT ![r] = [j EXCEPT !.payload =
                            Adjusted(j.action, j.payload, tx.fees, Total, tx.tally)]]
              /\ checked' = [checked EXCEPT ![r] =
                    IF AmountIsChecked(j.action, j.payload, j.skipValidation)
                    THEN j.payload.amount ELSE 0]
      BY <1>3 DEF Receive, InFlight, Running
    <2>2. /\ j \in Job /\ j.payload \in Payload(Identifiers)
          /\ j.payload.items \in LinesOfJobs
      BY ParametersAssumption DEF Job, LinesOfJobs
    <2>. DEFINE p == Adjusted(j.action, j.payload, tx.fees, Total, tx.tally)
    <2>3. p.wrapped = j.payload.wrapped /\ p.itemised = j.payload.itemised
      BY <2>2, AdjustedPayload
    <2>4. job'[r].action = j.action /\ job'[r].payload = p
      BY <2>1, <2>2 DEF Job
    <2>. HIDE DEF p
    <2>5. AmountIsChecked(j.action, j.payload, j.skipValidation)
            /\ j.payload.wrapped = 0 /\ ~j.payload.itemised
      BY <1>3, <2>4 DEF JobsAreValidated, MovesMoney
    <2>6. checked'[r] # 0
      BY <2>1, <2>5 DEF AmountIsChecked
    <2>. QED
      BY <2>3, <2>4, <2>5, <2>6 DEF ValidatedPayload
  <1>. QED
    BY <1>1, <1>2, <1>3 DEF SerialInv

\* Only PushHistory changes the tally and the entries.
LEMMA LaterStepsKeepTally ==
    ASSUME TypeInv, NEW r \in Requests, Proceed(r) \/ Crash(r), ~PushHistory(r)
    PROVE  tx'.tally = tx.tally /\ entries' = entries
  <1>1. CASE ApplyPaymentProperties(r) \/ ApplyPaymentItems(r) \/ ApplyThirdPartyResult(r)
    BY <1>1 DEF ApplyPaymentProperties, ApplyPaymentItems, ApplyThirdPartyResult, eventVars,
                TypeInv, TypeOK
  <1>2. CASE \/ CallProvider(r) \/ ProviderRefuses(r) \/ AnswerLost(r) \/ RunNextAction(r)
             \/ DispatchAfter(r) \/ ProcessRefundedTransaction(r)
             \/ SendTransactionUpdate(r) \/ ListenerFails(r) \/ Respond(r) \/ Crash(r)
    BY <1>2 DEF CallProvider, ProviderRefuses, AnswerLost, RunNextAction, DispatchAfter,
                ProcessRefundedTransaction, SendTransactionUpdate, ListenerFails, Respond,
                Crash, eventVars
  <1>. QED
    BY <1>1, <1>2 DEF Proceed

\* Without a Receive nothing comes into flight.
LEMMA NothingTakesOff ==
    ASSUME TypeInv, NEW r \in Requests, Proceed(r) \/ Crash(r)
    PROVE  InFlight' \subseteq InFlight /\ r \in InFlight
  <1>. USE DEF TypeInv, TypeOK, InFlight, Running
  <1>1. CASE \/ CallProvider(r) \/ ProviderRefuses(r) \/ AnswerLost(r)
             \/ ApplyPaymentProperties(r) \/ ApplyPaymentItems(r) \/ RunNextAction(r)
             \/ ApplyThirdPartyResult(r) \/ DispatchAfter(r)
    BY <1>1 DEF CallProvider, ProviderRefuses, AnswerLost, ApplyPaymentProperties,
                ApplyPaymentItems, RunNextAction, ApplyThirdPartyResult, DispatchAfter
  <1>2. CASE \/ PushHistory(r) \/ ProcessRefundedTransaction(r) \/ SendTransactionUpdate(r)
             \/ ListenerFails(r) \/ Respond(r) \/ Crash(r)
    BY <1>2 DEF PushHistory, ProcessRefundedTransaction, SendTransactionUpdate, Finish,
                ListenerFails, Respond, Crash
  <1>. QED
    BY <1>1, <1>2 DEF Proceed

\* The entry of the only request in flight keeps the sums within the total.
LEMMA SerialEntryFits ==
    ASSUME TypeInv, LedgerInv, ValidatedFits, SerialInv, NEW r \in Requests, PushHistory(r)
    PROVE  AmountRefunded(tx'.tally) \in 0..Total /\ AmountCaptured(tx'.tally) \in 0..Total
  <1>1. r \in InFlight /\ r \notin entries
    BY DEF PushHistory, Finish, InFlight, Running, LedgerInv, TraceOf
  <1>2. CASE MovesMoney(job[r].action)
    <2>1. SnapshotFits(r) /\ snapshot[r].tally = tx.tally
      BY <1>1, <1>2 DEF SerialInv, ValidatedFits
    <2>2. /\ AmountRefunded(tx.tally) \in 0..Total /\ AmountCaptured(tx.tally) \in 0..Total
          /\ EntryAmount(r) = job[r].payload.amount /\ EntryAmount(r) \in Int
          /\ Total \in Int
      BY <2>1, ValidatedEntry, EntryAmountIsNumber, ParametersAssumption
      DEF SerialInv, PushHistory, Finish
    <2>3. CASE job[r].action = "refund"
      BY <2>1, <2>2, <2>3, PushedTally DEF SnapshotFits
    <2>4. CASE job[r].action = "shipping_goods"
      BY <2>1, <2>2, <2>4, PushedTally DEF SnapshotFits
    <2>. QED
      BY <2>1, <2>3, <2>4 DEF SnapshotFits, GuardedActions
  <1>3. CASE ~MovesMoney(job[r].action)
    <2>1. \A a \in {"refund", "return", "shipping_goods"} : tx'.tally[a] = tx.tally[a]
      BY <1>3 DEF PushHistory, MovesMoney, TalliedActions, TypeInv, TypeOK, Tally
    <2>. QED
      BY <2>1 DEF SerialInv, AmountRefunded, AmountCaptured
  <1>. QED
    BY <1>2, <1>3

LEMMA NextSerialInv ==
    ASSUME Serial, JobsAreValidated
    PROVE  TypeInv /\ LedgerInv /\ ValidatedFits /\ SerialInv /\ [Next]_vars => SerialInv'
  <1>. SUFFICES ASSUME TypeInv, LedgerInv, ValidatedFits, SerialInv, [Next]_vars
                PROVE  SerialInv'
    OBVIOUS
  <1>1. CASE \E r \in Requests : Receive(r)
    BY <1>1, ReceiveSerialInv
  <1>2. ASSUME NEW r \in Requests, Proceed(r) \/ Crash(r)
        PROVE  SerialInv'
    <2>1. InFlight' \subseteq InFlight /\ r \in InFlight /\ InFlight \subseteq Requests
      BY <1>2, NothingTakesOff DEF InFlight
    <2>2. \A q \in InFlight : q = r
      BY <2>1 DEF SerialInv
    <2>3. MovesMoney(job'[r].action) => ValidatedPayload(r)'
      BY <1>2, <2>1, LaterStepsKeepPayload DEF SerialInv, ValidatedPayload
    <2>4. snapshot'[r] = snapshot[r]
      BY <1>2, LaterStepsKeepPayload
    <2>5. CASE PushHistory(r)
      <3>1. r \in entries'
        BY <2>5 DEF PushHistory
      <3>. QED
        BY <2>1, <2>2, <2>3, <2>5, <3>1, SerialEntryFits DEF SerialInv
    <2>6. CASE ~PushHistory(r)
      <3>1. tx'.tally = tx.tally /\ entries' = entries
        BY <1>2, <2>6, LaterStepsKeepTally
      <3>. QED
        BY <2>1, <2>2, <2>3, <2>4, <3>1 DEF SerialInv
    <2>. QED
      BY <2>5, <2>6
  <1>3. CASE PaymentUpdated \/ UNCHANGED vars
    <2>1. tx'.tally = tx.tally /\ UNCHANGED <<pc, job, snapshot, checked, entries>>
      BY <1>3 DEF PaymentUpdated, vars, requestVars, eventVars, TypeInv, TypeOK
    <2>. QED
      BY <2>1 DEF SerialInv, InFlight, ValidatedPayload
  <1>. QED
    BY <1>1, <1>2, <1>3 DEF Next

LEMMA SerialInvariance ==
    ASSUME Serial, JobsAreValidated
    PROVE  Spec => []SerialInv
  <1>1. TypeInv /\ LedgerInv /\ ValidatedFits /\ SerialInv /\ [Next]_vars => SerialInv'
    BY NextSerialInv
  <1>2. Spec => [](TypeInv /\ LedgerInv /\ ValidatedFits)
    BY InitTypeInv, NextTypeInv, InitLedgerInv, NextLedgerInv, InitValidatedFits,
       NextValidatedFits, PTL DEF Spec
  <1>. QED
    BY <1>1, <1>2, InitSerialInv, PTL DEF Spec

\* If callers wait for one another and every refund and capture names an amount
\* the validators see, then for every total, fee and number of requests no
\* history ever refunds more than was paid, crashes, refusals and lost answers in
\* between included.  The run over_refund drops the first premise.
THEOREM SerialRefundsFit ==
    ASSUME Serial, JobsAreValidated
    PROVE  Spec => []RefundsWithinTotal
  <1>1. SerialInv => RefundsWithinTotal
    BY ParametersAssumption DEF SerialInv, RefundsWithinTotal
  <1>. QED
    BY <1>1, SerialInvariance, PTL

\* Under the same premises no history captures more than was paid, not even by a
\* last capture, which carries the fee that no validator has seen.
THEOREM SerialCapturesFit ==
    ASSUME Serial, JobsAreValidated
    PROVE  Spec => []CapturesWithinTotal
  <1>1. SerialInv => CapturesWithinTotal
    BY ParametersAssumption DEF SerialInv, CapturesWithinTotal
  <1>. QED
    BY <1>1, SerialInvariance, PTL

-----------------------------------------------------------------------------
(* The tallies are the sums of the entries.                                *)

Amounts == [r \in Requests |-> EntryAmount(r)]

TallyInv == IsFiniteSet(entries) /\ TallyIsSumOfEntries

\* No step touches the payload of an entry.
LEMMA EntriesStay ==
    ASSUME TypeInv, LedgerInv, [Next]_vars, NEW q \in entries
    PROVE  job'[q] = job[q]
  <1>. q \in Requests /\ pc[q] \notin BeforeProvider
    BY DEF TypeInv, TypeOK, LedgerInv, TraceOf
  <1>1. ASSUME NEW r \in Requests, Receive(r) \/ CallProvider(r) \/ AnswerLost(r)
        PROVE  q # r
    BY <1>1 DEF Receive, CallProvider, AnswerLost, BeforeProvider
  <1>2. ASSUME NEW r \in Requests, Receive(r) \/ Proceed(r) \/ Crash(r), q # r
        PROVE  job'[q] = job[q]
    BY <1>2, OthersKeepTrace DEF KeepsTrace
  <1>3. ASSUME NEW r \in Requests,
               \/ ProviderRefuses(r) \/ ApplyPaymentProperties(r) \/ ApplyPaymentItems(r)
               \/ RunNextAction(r) \/ ApplyThirdPartyResult(r) \/ DispatchAfter(r)
               \/ PushHistory(r) \/ ProcessRefundedTransaction(r) \/ SendTransactionUpdate(r)
               \/ ListenerFails(r) \/ Respond(r) \/ Crash(r)
        PROVE  job' = job
    BY <1>3 DEF ProviderRefuses, ApplyPaymentProperties, ApplyPaymentItems, RunNextAction,
                ApplyThirdPartyResult, DispatchAfter, PushHistory,
                ProcessRefundedTransaction, SendTransactionUpdate, ListenerFails, Respond,
                Crash
  <1>4. CASE PaymentUpdated \/ UNCHANGED vars
    BY <1>4 DEF PaymentUpdated, vars, requestVars
  <1>. QED
    BY <1>1, <1>2, <1>3, <1>4 DEF Next, Proceed

\* A step that pushes no entry leaves tallies and sums as they are.
LEMMA TallyInvWithoutPush ==
    ASSUME TypeInv, LedgerInv, TallyInv, [Next]_vars,
           entries' = entries, tx'.tally = tx.tally
    PROVE  TallyInv'
  <1>1. \A q \in entries : job'[q] = job[q] /\ q \in Requests
    BY EntriesStay DEF TypeInv, TypeOK
  <1>2. ASSUME NEW a \in TalliedActions
        PROVE  tx'.tally[a] = SumFunctionOnSet(Amounts', EntriesOf(a)')
    <2>1. EntriesOf(a)' = EntriesOf(a) /\ IsFiniteSet(EntriesOf(a))
      BY <1>1, FS_Subset DEF EntriesOf, TallyInv
    <2>2. \A q \in EntriesOf(a) : Amounts'[q] = Amounts[q]
      BY <1>1 DEF EntriesOf, Amounts, EntryAmount
    <2>3. SumFunctionOnSet(Amounts', EntriesOf(a)) = SumFunctionOnSet(Amounts, EntriesOf(a))
      BY <2>1, <2>2, SumOfSameValues
    <2>. QED
      BY <2>1, <2>3 DEF TallyInv, TallyIsSumOfEntries, Amounts
  <1>. QED
    BY <1>2 DEF TallyInv, TallyIsSumOfEntries, Amounts

\* The entry that is pushed adds its amount to the tally of its action, and only
\* there.
LEMMA PushTallyInv ==
    ASSUME TypeInv, LedgerInv, TallyInv, NEW r \in Requests, PushHistory(r)
    PROVE  TallyInv'
  <1>1. /\ r \notin entries /\ entries' = entries \cup {r} /\ job' = job
        /\ EntryAmount(r) \in Int
    BY EntryAmountIsNumber DEF PushHistory, Finish, LedgerInv, TraceOf
  <1>2. \A q \in entries \cup {r} : q \in Requests /\ Amounts[q] \in Int
    <2>1. \A q \in entries \cup {r} : q \in Requests /\ pc[q] # "idle"
      BY DEF PushHistory, Finish, LedgerInv, TraceOf, BeforeProvider, TypeInv, TypeOK
    <2>. QED
      BY <2>1, EntryAmountIsNumber DEF Amounts
  <1>3. Amounts' = Amounts
    BY <1>1 DEF Amounts, EntryAmount
  <1>4. IsFiniteSet(entries')
    BY <1>1, FS_AddElement DEF TallyInv
  <1>5. ASSUME NEW a \in TalliedActions
        PROVE  tx'.tally[a] = SumFunctionOnSet(Amounts, EntriesOf(a)')
    <2>1. IsFiniteSet(EntriesOf(a)) /\ EntriesOf(a) \subseteq entries
      BY FS_Subset DEF EntriesOf, TallyInv
    <2>2. tx.tally[a] = SumFunctionOnSet(Amounts, EntriesOf(a))
      BY DEF TallyInv, TallyIsSumOfEntries, Amounts
    <2>3. CASE a = job[r].action
      <3>1. EntriesOf(a)' = EntriesOf(a) \cup {r}
        BY <1>1, <2>3 DEF EntriesOf
      <3>2. SumFunctionOnSet(Amounts, EntriesOf(a) \cup {r})
              = SumFunctionOnSet(Amounts, EntriesOf(a)) + Amounts[r]
        BY <1>1, <1>2, <2>1, SumOfOneMore
      <3>3. tx'.tally[a] = tx.tally[a] + EntryAmount(r)
        BY <2>3 DEF PushHistory, TypeInv, TypeOK, Tally
      <3>. QED
        BY <2>2, <3>1, <3>2, <3>3 DEF Amounts
    <2>4. CASE a # job[r].action
      <3>1. EntriesOf(a)' = EntriesOf(a)
        BY <1>1, <2>4 DEF EntriesOf
      <3>2. tx'.tally[a] = tx.tally[a]
        BY <2>4 DEF PushHistory, TypeInv, TypeOK, Tally
      <3>. QED
        BY <2>2, <3>1, <3>2
    <2>. QED
      BY <2>3, <2>4
  <1>. QED
    BY <1>3, <1>4, <1>5 DEF TallyInv, TallyIsSumOfEntries, Amounts

\* For any number of requests in any interleaving: what the virtual amount fields
\* of a transaction add up is, action by action, the sum of the amounts of the
\* requests that were recorded, each of them once.
THEOREM TalliesAreSums == Spec => []TallyIsSumOfEntries
  <1>1. Init => TallyInv
    <2>. SUFFICES ASSUME Init
                  PROVE  TallyInv
      OBVIOUS
    <2>1. IsFiniteSet(entries) /\ \A a \in TalliedActions : EntriesOf(a) = {}
      BY FS_EmptySet DEF Init, EntriesOf
    <2>2. \A a \in TalliedActions : tx.tally[a] = 0
      BY DEF Init, EmptyTally
    <2>. QED
      BY <2>1, <2>2, SumOverNothing DEF TallyInv, TallyIsSumOfEntries
  <1>2. TypeInv /\ LedgerInv /\ TallyInv /\ [Next]_vars => TallyInv'
    <2>. SUFFICES ASSUME TypeInv, LedgerInv, TallyInv, [Next]_vars
                  PROVE  TallyInv'
      OBVIOUS
    <2>1. ASSUME NEW r \in Requests, PushHistory(r)
          PROVE  TallyInv'
      BY <2>1, PushTallyInv
    <2>2. ASSUME ~\E r \in Requests : PushHistory(r)
          PROVE  entries' = entries /\ tx'.tally = tx.tally
      <3>1. ASSUME NEW r \in Requests, Proceed(r) \/ Crash(r)
            PROVE  entries' = entries /\ tx'.tally = tx.tally
        BY <2>2, <3>1, LaterStepsKeepTally
      <3>2. ASSUME NEW r \in Requests, Receive(r)
            PROVE  entries' = entries /\ tx'.tally = tx.tally
        BY <3>2 DEF Receive, eventVars
      <3>3. CASE PaymentUpdated \/ UNCHANGED vars
        BY <3>3 DEF PaymentUpdated, vars, eventVars, TypeInv, TypeOK
      <3>. QED
        BY <3>1, <3>2, <3>3 DEF Next
    <2>. QED
      BY <2>1, <2>2, TallyInvWithoutPush
  <1>3. TallyInv => TallyIsSumOfEntries
    BY DEF TallyInv
  <1>. QED
    BY <1>1, <1>2, <1>3, LedgerInvariance, PTL DEF Spec

-----------------------------------------------------------------------------
(* What a success answer stands for.                                       *)

\* What the listeners have left behind, by which of them are still to run.
EffectsOf(r) ==
    /\ pc[r] \in {"listeners", "done"} =>
        /\ "history" \notin todo[r] => r \in entries
        /\ "update" \notin todo[r] => r \in notified
        /\ "statistics" \notin todo[r] => (r \in subtracted <=> job[r].action = "refund")
    /\ pc[r] = "done" => todo[r] = {}
    /\ (pc[r] \in BeforeListeners \/ "statistics" \in todo[r]) => r \notin subtracted

CompleteInv == \A r \in Requests : EffectsOf(r)

LEMMA NextCompleteInv == TypeInv /\ CompleteInv /\ [Next]_vars => CompleteInv'
  <1>. SUFFICES ASSUME TypeInv, CompleteInv, [Next]_vars, NEW q \in Requests
                PROVE  EffectsOf(q)'
    BY DEF CompleteInv
  <1>. USE DEF TypeInv, TypeOK, EffectsOf, requestVars, providerVars, eventVars,
               BeforeProvider, BeforeListeners
  <1>0. EffectsOf(q)
    BY DEF CompleteInv
  <1>1. ASSUME NEW r \in Requests, Receive(r)
        PROVE  EffectsOf(q)'
    BY <1>0, <1>1 DEF Receive
  <1>2. ASSUME NEW r \in Requests, CallProvider(r) \/ AnswerLost(r)
        PROVE  EffectsOf(q)'
    <2>1. /\ UNCHANGED <<todo, eventVars>>
          /\ job'[q].action = job[q].action
          /\ \E next \in {"status", "properties", "failed"} : pc' = [pc EXCEPT ![r] = next]
          /\ pc[r] = "calling"
      BY <1>2, LaterStepsKeepPayload DEF CallProvider, AnswerLost, Proceed
    <2>. QED
      BY <1>0, <2>1
  <1>3. ASSUME NEW r \in Requests,
               \/ ProviderRefuses(r) \/ ApplyPaymentProperties(r) \/ ApplyPaymentItems(r)
               \/ RunNextAction(r) \/ ApplyThirdPartyResult(r)
        PROVE  EffectsOf(q)'
    BY <1>0, <1>3 DEF ProviderRefuses, ApplyPaymentProperties, ApplyPaymentItems,
                      RunNextAction, ApplyThirdPartyResult
  <1>4. ASSUME NEW r \in Requests, DispatchAfter(r)
        PROVE  EffectsOf(q)'
    BY <1>0, <1>4 DEF DispatchAfter, Listeners
  <1>5. ASSUME NEW r \in Requests, PushHistory(r)
        PROVE  EffectsOf(q)'
    BY <1>0, <1>5 DEF PushHistory, Finish
  <1>6. ASSUME NEW r \in Requests, ProcessRefundedTransaction(r)
        PROVE  EffectsOf(q)'
    BY <1>0, <1>6 DEF ProcessRefundedTransaction, Finish
  <1>7. ASSUME NEW r \in Requests, SendTransactionUpdate(r)
        PROVE  EffectsOf(q)'
    BY <1>0, <1>7 DEF SendTransactionUpdate, Finish
  <1>8. ASSUME NEW r \in Requests, ListenerFails(r) \/ Respond(r) \/ Crash(r)
        PROVE  EffectsOf(q)'
    BY <1>0, <1>8 DEF ListenerFails, Respond, Crash, Running
  <1>9. CASE PaymentUpdated \/ UNCHANGED vars
    BY <1>0, <1>9 DEF PaymentUpdated, vars
  <1>. QED
    BY <1>1, <1>2, <1>3, <1>4, <1>5, <1>6, <1>7, <1>8, <1>9 DEF Next, Proceed

\* However the listeners are ordered and whatever happens to other requests: a
\* request that is answered with success is executed, recorded and told to the
\* checkout, and a refund has corrected the statistics.
THEOREM AnswersAreComplete == Spec => []AnsweredRequestsAreComplete
  <1>1. Init => CompleteInv
    BY DEF Init, CompleteInv, EffectsOf
  <1>2. LedgerInv /\ CompleteInv => AnsweredRequestsAreComplete
    BY DEF LedgerInv, TraceOf, BeforeProvider, CompleteInv, EffectsOf,
           AnsweredRequestsAreComplete
  <1>. QED
    BY <1>1, <1>2, NextCompleteInv, LedgerInvariance, PTL DEF Spec

-----------------------------------------------------------------------------
(* Answers reach the stored transaction.                                   *)

\* Which of the two callers a request is with, and what it has read or stored,
\* as long as no other writer came between.
PathOf(r) ==
    /\ pc[r] = "status" => ThirdParty
    /\ pc[r] \in {"properties", "items", "next"} => ~ThirdParty

UndisturbedOf(r) ==
    r \notin disturbed =>
        /\ pc[r] \in {"calling", "status"} => tx.status = snapshot[r].status
        /\ pc[r] \in {"items", "next", "after", "listeners"} =>
             /\ tx.status = answer[r].status
             /\ ~ThirdParty => tx.fees = answer[r].fees

AppliedInv == \A r \in Requests : PathOf(r) /\ UndisturbedOf(r)

\* Another writer either leaves status and fees alone or disturbs q.
LEMMA UndisturbedByOthers ==
    ASSUME TypeInv, NEW q \in Requests, UndisturbedOf(q), NEW others,
           Disturb(others), q \in InFlight => q \in others,
           pc'[q] = pc[q], UNCHANGED <<snapshot, answer>>
    PROVE  UndisturbedOf(q)'
  <1>1. CASE tx'.status = tx.status /\ tx'.fees = tx.fees
    BY <1>1 DEF Disturb, UndisturbedOf
  <1>2. CASE tx'.status # tx.status \/ tx'.fees # tx.fees
    BY <1>2 DEF Disturb, UndisturbedOf, InFlight, Running
  <1>. QED
    BY <1>1, <1>2

LEMMA NextAppliedInv == TypeInv /\ AppliedInv /\ [Next]_vars => AppliedInv'
  <1>. SUFFICES ASSUME TypeInv, AppliedInv, [Next]_vars, NEW q \in Requests
                PROVE  PathOf(q)' /\ UndisturbedOf(q)'
    BY DEF AppliedInv
  <1>. USE DEF TypeInv, TypeOK, requestVars, providerVars, eventVars
  <1>0. PathOf(q) /\ UndisturbedOf(q)
    BY DEF AppliedInv
  <1>1. ASSUME NEW r \in Requests, Receive(r)
        PROVE  PathOf(q)' /\ UndisturbedOf(q)'
    <2>1. /\ \/ pc' = [pc EXCEPT ![r] = "calling"]
             \/ pc' = [pc EXCEPT ![r] = "rejected"]
          /\ snapshot' = [snapshot EXCEPT ![r] = [status |-> tx.status, tally |-> tx.tally]]
          /\ UNCHANGED <<tx, disturbed, answer>>
      BY <1>1 DEF Receive
    <2>. QED
      BY <1>0, <2>1 DEF PathOf, UndisturbedOf
  <1>2. ASSUME NEW r \in Requests, CallProvider(r) \/ AnswerLost(r)
        PROVE  PathOf(q)' /\ UndisturbedOf(q)'
    <2>1. /\ \/ pc' = [pc EXCEPT ![r] = IF ThirdParty THEN "status" ELSE "properties"]
             \/ pc' = [pc EXCEPT ![r] = "failed"]
          /\ pc[r] = "calling"
          /\ \A p \in Requests \ {r} : answer'[p] = answer[p]
          /\ UNCHANGED <<tx, disturbed, snapshot>>
      BY <1>2 DEF CallProvider, AnswerLost
    <2>. QED
      BY <1>0, <2>1, ParametersAssumption DEF PathOf, UndisturbedOf
  <1>3. ASSUME NEW r \in Requests, ApplyPaymentProperties(r) \/ ApplyThirdPartyResult(r)
        PROVE  PathOf(q)' /\ UndisturbedOf(q)'
    <2>1. CASE q = r
      <3>1. /\ \A p \in Requests : p # r => pc'[p] = pc[p]
            /\ UNCHANGED <<snapshot, answer>>
            /\ Disturb(InFlight \ {r})
        BY <1>3 DEF ApplyPaymentProperties, ApplyThirdPartyResult
      <3>2. r \notin disturbed' => r \notin disturbed
        BY <3>1 DEF Disturb
      <3>3. CASE ApplyPaymentProperties(r)
        <4>1. ~ThirdParty
          BY <1>0, <2>1, <3>3 DEF ApplyPaymentProperties, PathOf
        <4>2. \/ /\ pc'[r] = "items"
                 /\ tx'.status = answer'[r].status
                 /\ tx'.fees = answer'[r].fees
              \/ pc'[r] = "failed"
          BY <3>3 DEF ApplyPaymentProperties
        <4>. QED
          BY <2>1, <4>1, <4>2 DEF PathOf, UndisturbedOf
      <3>4. CASE ApplyThirdPartyResult(r)
        <4>1. pc[r] = "status" /\ pc'[r] \in {"after", "failed"} /\ ThirdParty
          BY <1>0, <2>1, <3>4 DEF ApplyThirdPartyResult, PathOf
        <4>0. CASE pc'[r] = "failed"
          BY <2>1, <4>0 DEF PathOf, UndisturbedOf
        <4>2. CASE answer[r].status # snapshot[r].status /\ pc'[r] = "after"
          <5>1. tx'.status = answer'[r].status
            BY <1>0, <3>4, <4>2 DEF ApplyThirdPartyResult
          <5>. QED
            BY <2>1, <4>1, <5>1 DEF PathOf, UndisturbedOf
        <4>3. CASE answer[r].status = snapshot[r].status
          <5>1. tx' = tx /\ answer'[r] = answer[r]
            BY <3>4, <4>3 DEF ApplyThirdPartyResult
          <5>. QED
            BY <1>0, <2>1, <3>2, <4>1, <4>3, <5>1 DEF PathOf, UndisturbedOf
        <4>. QED
          BY <4>0, <4>1, <4>2, <4>3
      <3>. QED
        BY <1>3, <3>3, <3>4
    <2>2. CASE q # r
      <3>1. /\ Disturb(InFlight \ {r}) /\ pc'[q] = pc[q]
            /\ UNCHANGED <<snapshot, answer>>
        BY <1>3, <2>2 DEF ApplyPaymentProperties, ApplyThirdPartyResult
      <3>2. UndisturbedOf(q)'
        BY <1>0, <2>2, <3>1, UndisturbedByOthers
      <3>. QED
        BY <1>0, <3>1, <3>2 DEF PathOf
    <2>. QED
      BY <2>1, <2>2
  <1>4. ASSUME NEW r \in Requests,
               \/ ProviderRefuses(r) \/ ApplyPaymentItems(r) \/ RunNextAction(r)
               \/ DispatchAfter(r) \/ ListenerFails(r) \/ Respond(r) \/ Crash(r)
        PROVE  PathOf(q)' /\ UndisturbedOf(q)'
    BY <1>0, <1>4
    DEF ProviderRefuses, ApplyPaymentItems, RunNextAction, DispatchAfter, ListenerFails,
        Respond, Crash, PathOf, UndisturbedOf
  <1>5. ASSUME NEW r \in Requests,
               PushHistory(r) \/ ProcessRefundedTransaction(r) \/ SendTransactionUpdate(r)
        PROVE  PathOf(q)' /\ UndisturbedOf(q)'
    <2>1. /\ tx'.status = tx.status /\ tx'.fees = tx.fees
          /\ UNCHANGED <<pc, disturbed, snapshot, answer>>
      BY <1>5 DEF PushHistory, ProcessRefundedTransaction, SendTransactionUpdate
    <2>. QED
      BY <1>0, <2>1 DEF PathOf, UndisturbedOf
  <1>6. CASE PaymentUpdated
    <2>1. Disturb(InFlight) /\ UNCHANGED <<pc, snapshot, answer>>
      BY <1>6 DEF PaymentUpdated
    <2>2. UndisturbedOf(q)'
      BY <1>0, <2>1, UndisturbedByOthers
    <2>. QED
      BY <1>0, <2>1, <2>2 DEF PathOf
  <1>7. CASE UNCHANGED vars
    BY <1>0, <1>7 DEF vars, PathOf, UndisturbedOf
  <1>. QED
    BY <1>1, <1>2, <1>3, <1>4, <1>5, <1>6, <1>7 DEF Next, Proceed

\* For every number of requests, on both paths: an answer is stored unless some
\* other writer changed the transaction since the request read it.
THEOREM AnswersAreApplied == Spec => []AnswerIsApplied
  <1>1. Init => AppliedInv
    BY DEF Init, AppliedInv, PathOf, UndisturbedOf
  <1>2. AppliedInv => AnswerIsApplied
    BY DEF AppliedInv, UndisturbedOf, AnswerIsApplied
  <1>. QED
    BY <1>1, <1>2, NextAppliedInv, TypeInvariance, PTL DEF Spec
=============================================================================
