---------------------- MODULE BusinessLifecycleProofs ----------------------
(***************************************************************************)
(* What BusinessLifecycle keeps true for any consumers, requests, payments *)
(* and flows.                                                              *)
(***************************************************************************)
EXTENDS BusinessLifecycle, FiniteSetTheorems, SequenceTheorems, TLAPS

Actions == {"refund", "cancel", "shipping_goods"}

TaskSteps == {"idle", "insert", "add", "create", "ask", "list", "delete", "event", "flow",
              "match", "set", "act", "save"}

\* Uuids, when n have been drawn for examples.
Uuids(n) == Payments \cup 1..n

Tasks(n) ==
    [step : TaskSteps, of : Messages \cup {<<"none">>} \cup {<<a>> : a \in Actions},
     ids : Seq(Uuids(n)), left : 0..Catalog]

\* What the task of a worker is about, by the step it is at.
TaskOk(w, t, n) ==
    /\ t \in Tasks(n)
    /\ t.step \in {"create", "ask"} => t.of \in {"payment"} \X Payments
    /\ t.step = "flow" => t.of[2] \in Flows \X (Emails \cup {Nothing})
    /\ t.step \in {"match", "set"} => t.of[2] \in Emails \X Names
    /\ t.step \in {"act", "save"} => t.of \in {<<a>> : a \in Actions}
    /\ t.step \in {"add", "act", "save", "delete", "event"} => t.ids # <<>> /\ t.ids \in Seq(1..n)
    /\ w \in Consumers => t = Idle \/ t.of \in Messages

TasksInv ==
    /\ drawn \in Nat
    /\ task \in [Workers -> Tasks(drawn)]
    /\ \A w \in Workers : TaskOk(w, task[w], drawn)

Kinds == {"add", "found", "remove", "subtract"}

\* What is remembered of a task that did not come to its end.
AnyTask == (UNION {Tasks(n) : n \in Nat}) \ {Idle}

BrokenTask == [how : {"crash", "failure"}, task : AnyTask]

DocumentsInv ==
    /\ IsFiniteSet(Live)
    /\ Live \subseteq Uuids(drawn)
    /\ stored \in [Live -> Document]
    /\ \A u \in Live : stored[u].example <=> u \notin Payments

\* The other variables have their types.
RestInv ==
    /\ inbox \subseteq Messages
    /\ flows \in [Flows -> Emails \cup {Nothing}]
    /\ asked \in [Payments -> Emails \cup {Nothing}]
    /\ pending \subseteq Payments \X Emails
    /\ log \in [Uuids(drawn) -> Seq(Kinds)]
    /\ due \in [Payments -> SUBSET (1..drawn)]
    /\ broken \in Seq(BrokenTask) /\ Len(broken) \in 0..MaxBroken

LifecycleInv == TasksInv /\ DocumentsInv /\ RestInv

LEMMA LifecycleTypes == LifecycleInv => TypeOK
<1> SUFFICES ASSUME LifecycleInv
             PROVE  TypeOK
  OBVIOUS
<1>1. ASSUME NEW i \in DOMAIN broken
      PROVE  broken[i].how \in {"crash", "failure"} /\ broken[i].task # Idle
  <2>1. broken[i] \in BrokenTask
    BY <1>1 DEF LifecycleInv, RestInv
  <2>2. broken[i].how \in {"crash", "failure"} /\ broken[i].task \in AnyTask
    BY <2>1 DEF BrokenTask
  <2>3. QED
    BY <2>2 DEF AnyTask
<1>2. log \in [Payments \cup 1..drawn -> Seq({"add", "found", "remove", "subtract"})]
  BY DEF LifecycleInv, RestInv, Uuids, Kinds
<1>3. QED
  BY <1>1, <1>2 DEF LifecycleInv, TasksInv, DocumentsInv, RestInv, TypeOK, Tasks, Uuids

-----------------------------------------------------------------------------
(* Sequences and tasks.                                                    *)

LEMMA SequencesOfMore ==
  ASSUME NEW S, NEW T, S \subseteq T, NEW s \in Seq(S)
  PROVE  s \in Seq(T)
  OBVIOUS

LEMMA RestsOfSequences ==
  ASSUME NEW S, NEW s \in Seq(S), Len(s) > 1
  PROVE  Tail(s) \in Seq(S) /\ Tail(s) # <<>>
<1>1. Tail(s) \in Seq(S) /\ Len(Tail(s)) = Len(s) - 1
  OBVIOUS
<1>2. Len(s) \in Nat
  OBVIOUS
<1>3. Len(Tail(s)) # 0
  BY <1>1, <1>2
<1>4. Tail(s) # <<>>
  <2>1. Len(<<>>) = 0
    OBVIOUS
  <2>2. QED
    BY <1>3, <2>1, Zenon
<1>5. QED
  BY <1>1, <1>4

\* A finite set as a sequence.
LEMMA SetsAsSequences ==
  ASSUME NEW S, IsFiniteSet(S), S # {}
  PROVE  SetToSeq(S) \in Seq(S) /\ SetToSeq(S) # <<>>
<1>1. Cardinality(S) \in Nat /\ ExistsBijection(1..Cardinality(S), S)
  BY FS_CardinalityType
<1>2. Cardinality(S) # 0
  BY FS_EmptySet
<1>3. \E f \in [1..Cardinality(S) -> S] : IsInjective(f)
  BY <1>1 DEF ExistsBijection, Bijection, Injection
<1>4. SetToSeq(S) \in [1..Cardinality(S) -> S]
  BY <1>3 DEF SetToSeq
<1>5. QED
  BY <1>1, <1>2, <1>4

LEMMA TasksOfMore ==
  ASSUME NEW n \in Nat, NEW w, NEW t, TaskOk(w, t, n)
  PROVE  TaskOk(w, t, n + 1)
<1>1. Uuids(n) \subseteq Uuids(n + 1) /\ 1..n \subseteq 1..(n + 1)
  BY DEF Uuids
<1>2. \A s : /\ s \in Seq(Uuids(n)) => s \in Seq(Uuids(n + 1))
             /\ s \in Seq(1..n) => s \in Seq(1..(n + 1))
  BY <1>1, SequencesOfMore
<1>3. t \in Tasks(n + 1)
  BY <1>2 DEF TaskOk, Tasks
<1>4. QED
  BY <1>2, <1>3 DEF TaskOk

LEMMA IdleIsOk ==
  ASSUME NEW w, NEW n
  PROVE  TaskOk(w, Idle, n)
  BY LifecycleAssumption DEF TaskOk, Idle, Tasks, TaskSteps

\* The uuid a worker deals with next is that of an example.
LEMMA FirstUuids ==
  ASSUME NEW w, NEW t, NEW n \in Nat, TaskOk(w, t, n),
         t.step \in {"add", "act", "save", "delete", "event"}
  PROVE  t.ids[1] \in 1..n /\ Head(t.ids) = t.ids[1] /\ t.ids[1] \in Uuids(n)
<1>1. t.ids \in Seq(1..n) /\ t.ids # <<>>
  BY DEF TaskOk
<1>2. Len(t.ids) \in Nat /\ Len(t.ids) # 0 /\ t.ids \in [1..Len(t.ids) -> 1..n]
  BY <1>1
<1>3. QED
  BY <1>1, <1>2 DEF Uuids

\* One worker goes on.
LEMMA OneTaskChanges ==
  ASSUME TasksInv, NEW w \in Workers, NEW t, TaskOk(w, t, drawn),
         task' = [task EXCEPT ![w] = t], drawn' = drawn
  PROVE  TasksInv'
  BY DEF TasksInv, TaskOk

LEMMA FinishKeepsTasks ==
  ASSUME TasksInv, NEW w \in Workers, Finish(w), drawn' = drawn
  PROVE  TasksInv'
  BY IdleIsOk, OneTaskChanges DEF Finish

\* A worker goes to another step with the same message and the same uuids.
LEMMA GotoKeepsTasks ==
  ASSUME TasksInv, NEW w \in Workers, NEW next, Goto(w, next), drawn' = drawn,
         \/ task[w].step = "create" /\ next = "ask"
         \/ task[w].step = "ask" /\ next = "list"
         \/ task[w].step = "delete" /\ next = "event"
         \/ task[w].step = "act" /\ next = "save"
  PROVE  TasksInv'
<1> DEFINE t == [task[w] EXCEPT !.step = next]
<1>1. TaskOk(w, task[w], drawn) /\ task[w] \in Tasks(drawn)
  BY DEF TasksInv
<1>2. /\ t \in Tasks(drawn) /\ t.step = next
      /\ t.of = task[w].of /\ t.ids = task[w].ids
  BY <1>1 DEF Tasks, TaskSteps
<1>3. w \in Consumers => t.of \in Messages
  BY <1>1, <1>2 DEF TaskOk, Idle
<1> HIDE DEF t
<1>4. TaskOk(w, t, drawn)
  BY <1>1, <1>2, <1>3 DEF TaskOk
<1>5. task' = [task EXCEPT ![w] = t]
  BY DEF Goto, TasksInv, t
<1>6. QED
  BY <1>4, <1>5, OneTaskChanges

LEMMA NamedMessages ==
  ASSUME NEW m \in Messages
  PROVE  /\ m[1] \in {"products", "payment", "removed", "trigger", "fake", "flow", "name"}
         /\ m[1] = "payment" => m \in {"payment"} \X Payments
         /\ m[1] = "flow" => m[2] \in Flows \X (Emails \cup {Nothing})
         /\ m[1] = "name" => m[2] \in Emails \X Names
  BY DEF Messages

LEMMA TakeKeepsTasks ==
  ASSUME LifecycleInv, NEW c \in Consumers, Take(c)
  PROVE  TasksInv'
<1>1. PICK m \in inbox :
        /\ m[1] \notin RequestKinds
        /\ task' = [task EXCEPT ![c] =
             [step |-> FirstStep[m[1]], of |-> m, ids |-> <<>>, left |-> Catalog]]
  BY DEF Take
<1> DEFINE t == [step |-> FirstStep[m[1]], of |-> m, ids |-> <<>>, left |-> Catalog]
<1>2. m \in Messages
  BY DEF LifecycleInv, RestInv
<1>3. m[1] \in {"products", "payment", "removed", "flow", "name"}
  BY <1>1, <1>2, NamedMessages DEF RequestKinds
<1>4. /\ m[1] = "products" => t.step = "insert"
      /\ m[1] = "payment" => t.step = "create"
      /\ m[1] = "removed" => t.step = "list"
      /\ m[1] = "flow" => t.step = "flow"
      /\ m[1] = "name" => t.step = "match"
  BY DEF FirstStep
<1>5. t.of = m /\ t.ids = <<>> /\ t.left = Catalog /\ Catalog \in 0..Catalog
  BY LifecycleAssumption
<1>6. t \in Tasks(drawn)
  <2>1. t.step \in TaskSteps
    BY <1>3, <1>4 DEF TaskSteps
  <2>2. QED
    BY <1>2, <1>5, <2>1 DEF Tasks
<1> HIDE DEF t
<1>7. TaskOk(c, t, drawn)
  BY <1>2, <1>3, <1>4, <1>5, <1>6, NamedMessages DEF TaskOk
<1>8. drawn' = drawn /\ c \in Workers
  BY DEF Take, exampleVars, Workers
<1>9. QED
  BY <1>1, <1>7, <1>8, OneTaskChanges DEF t, LifecycleInv

LEMMA TriggerKeepsTasks ==
  ASSUME LifecycleInv, NEW r \in Requests, TriggerExample(r)
  PROVE  TasksInv'
<1>1. PICK m \in inbox : task' = [task EXCEPT ![r] =
             [step |-> "insert", of |-> m, ids |-> <<>>, left |-> Catalog]]
  BY DEF TriggerExample
<1>2. m \in Messages /\ r \notin Consumers /\ r \in Workers
  BY LifecycleAssumption DEF LifecycleInv, RestInv, Workers
<1>3. TaskOk(r, [step |-> "insert", of |-> m, ids |-> <<>>, left |-> Catalog], drawn)
  BY <1>2, LifecycleAssumption DEF TaskOk, Tasks, TaskSteps
<1>4. drawn' = drawn
  BY DEF TriggerExample, exampleVars
<1>5. QED
  BY <1>1, <1>2, <1>3, <1>4, OneTaskChanges DEF LifecycleInv

\* Examples have uuids that were drawn.
LEMMA ExamplesAreDrawn == DocumentsInv => Examples \subseteq 1..drawn /\ IsFiniteSet(Examples)
  BY FS_Subset DEF DocumentsInv, Examples, Uuids

LEMMA ActingKeepsTasks ==
  ASSUME LifecycleInv, NEW r \in Requests, RunFakeAction(r)
  PROVE  TasksInv'
<1> DEFINE t(u, action) == [step |-> "act", of |-> <<action>>, ids |-> <<u>>, left |-> 0]
<1>1. PICK u \in Examples, action \in FakeActions : task' = [task EXCEPT ![r] = t(u, action)]
  BY DEF RunFakeAction
<1>2. action \in Actions /\ r \notin Consumers /\ r \in Workers
  BY LifecycleAssumption DEF FakeActions, Actions, Workers
<1>3. u \in 1..drawn
  BY ExamplesAreDrawn DEF LifecycleInv
<1>4. <<u>> \in Seq(1..drawn) /\ <<u>> \in Seq(Uuids(drawn)) /\ <<u>> # <<>>
  BY <1>3 DEF Uuids
<1>5. TaskOk(r, t(u, action), drawn)
  BY <1>2, <1>4, LifecycleAssumption DEF TaskOk, Tasks, TaskSteps
<1>6. drawn' = drawn
  BY DEF RunFakeAction, exampleVars
<1>7. QED
  BY <1>1, <1>2, <1>5, <1>6, OneTaskChanges DEF LifecycleInv

LEMMA CreatingKeepsTasks ==
  ASSUME LifecycleInv, NEW w \in Workers, CreateExample(w)
  PROVE  TasksInv'
<1> DEFINE t == [task[w] EXCEPT !.step = "add", !.ids = <<drawn'>>]
<1>1. TasksInv /\ drawn \in Nat /\ drawn' = drawn + 1 /\ task[w].step = "insert"
  BY DEF LifecycleInv, TasksInv, CreateExample
<1>2. \A v \in Workers : TaskOk(v, task[v], drawn')
  BY <1>1, TasksOfMore DEF TasksInv
<1>3. task' = [task EXCEPT ![w] = t]
  BY <1>1 DEF CreateExample, TasksInv
<1>4. task[w] \in Tasks(drawn')
  BY <1>2 DEF TaskOk
<1>5. /\ t.step = "add" /\ t.of = task[w].of /\ t.ids = <<drawn'>> /\ t.left = task[w].left
      /\ t = [step |-> t.step, of |-> t.of, ids |-> t.ids, left |-> t.left]
  <2> DEFINE new == <<drawn'>>
  <2> HIDE DEF new
  <2>1. t = [task[w] EXCEPT !.step = "add", !.ids = new]
    BY DEF new
  <2> HIDE DEF t
  <2>2. task[w] = [step |-> task[w].step, of |-> task[w].of, ids |-> task[w].ids,
                   left |-> task[w].left]
    BY <1>4 DEF Tasks
  <2>3. t = [step |-> "add", of |-> task[w].of, ids |-> new, left |-> task[w].left]
    BY <2>1, <2>2
  <2>4. QED
    BY <2>3 DEF new
<1>6. <<drawn'>> \in Seq(1..drawn') /\ <<drawn'>> \in Seq(Uuids(drawn')) /\ <<drawn'>> # <<>>
  BY <1>1 DEF Uuids
<1>7. t \in Tasks(drawn')
  <2> HIDE DEF t
  <2>1. task[w].of \in Messages \cup {<<"none">>} \cup {<<a>> : a \in Actions}
        /\ task[w].left \in 0..Catalog
    BY <1>4 DEF Tasks
  <2>2. QED
    BY <1>5, <1>6, <2>1 DEF Tasks, TaskSteps
<1>8. w \in Consumers => task[w].of \in Messages
  BY <1>1, <1>2 DEF TaskOk, Idle
<1> HIDE DEF t
<1>9. TaskOk(w, t, drawn')
  BY <1>5, <1>6, <1>7, <1>8 DEF TaskOk
<1>10. QED
  BY <1>1, <1>2, <1>3, <1>9 DEF TasksInv, TaskOk

LEMMA AddingKeepsTasks ==
  ASSUME LifecycleInv, NEW w \in Workers, SendAddEvent(w)
  PROVE  TasksInv'
<1>1. TasksInv /\ drawn' = drawn /\ TaskOk(w, task[w], drawn)
  BY DEF LifecycleInv, TasksInv, SendAddEvent
<1>2. CASE task[w].left > 1
  <2> DEFINE t == [task[w] EXCEPT !.step = "insert", !.left = @ - 1]
  <2>1. task[w] = [step |-> task[w].step, of |-> task[w].of, ids |-> task[w].ids,
                   left |-> task[w].left]
        /\ task[w].left \in 0..Catalog
    BY <1>1 DEF TaskOk, Tasks
  <2>2. t = [step |-> "insert", of |-> task[w].of, ids |-> task[w].ids,
             left |-> task[w].left - 1]
    <3> DEFINE left == task[w].left - 1
    <3> HIDE DEF left
    <3>1. t = [task[w] EXCEPT !.step = "insert", !.left = left]
      BY <2>1 DEF left
    <3> HIDE DEF t
    <3>2. t = [step |-> "insert", of |-> task[w].of, ids |-> task[w].ids, left |-> left]
      BY <2>1, <3>1
    <3>3. QED
      BY <3>2 DEF left
  <2>3. task[w].left - 1 \in 0..Catalog
    BY <1>2, <2>1, LifecycleAssumption
  <2>4. task' = [task EXCEPT ![w] = t]
    BY <1>1, <1>2 DEF SendAddEvent, TasksInv
  <2>5. w \in Consumers => task[w].of \in Messages
    BY <1>1 DEF TaskOk, Idle, SendAddEvent
  <2> HIDE DEF t
  <2>6. t \in Tasks(drawn) /\ t.step = "insert" /\ t.of = task[w].of
    BY <1>1, <2>2, <2>3 DEF TaskOk, Tasks, TaskSteps
  <2>7. TaskOk(w, t, drawn)
    BY <2>5, <2>6 DEF TaskOk
  <2>8. QED
    BY <1>1, <2>4, <2>7, OneTaskChanges
<1>3. CASE ~(task[w].left > 1)
  BY <1>1, <1>3, FinishKeepsTasks DEF SendAddEvent
<1>4. QED
  BY <1>2, <1>3

\* A consumer sets out on some uuids.
LEMMA ListingKeepsTasks ==
  ASSUME TasksInv, NEW c \in Consumers, task[c] # Idle, drawn' = drawn,
         NEW next, NEW s \in Seq(Uuids(drawn)), s # <<>>,
         \/ next = "delete" /\ s \in Seq(1..drawn)
         \/ next = "set" /\ task[c].step = "match",
         task' = [task EXCEPT ![c].step = next, ![c].ids = s]
  PROVE  TasksInv'
<1> DEFINE t == [task[c] EXCEPT !.step = next, !.ids = s]
<1>1. c \in Workers /\ TaskOk(c, task[c], drawn)
  BY DEF TasksInv, Workers
<1>2. task[c] = [step |-> task[c].step, of |-> task[c].of, ids |-> task[c].ids,
                 left |-> task[c].left]
  BY <1>1 DEF TaskOk, Tasks
<1>3. t = [step |-> next, of |-> task[c].of, ids |-> s, left |-> task[c].left]
  <2>1. t = [task[c] EXCEPT !.step = next, !.ids = s]
    OBVIOUS
  <2> HIDE DEF t
  <2>2. QED
    BY <1>2, <2>1
<1>4. task' = [task EXCEPT ![c] = t]
  BY <1>1 DEF TasksInv
<1> HIDE DEF t
<1>5. t \in Tasks(drawn) /\ t.step = next /\ t.of = task[c].of /\ t.ids = s
  BY <1>1, <1>3 DEF TaskOk, Tasks, TaskSteps
<1>6. TaskOk(c, t, drawn)
  BY <1>1, <1>5 DEF TaskOk
<1>7. QED
  BY <1>1, <1>4, <1>6, OneTaskChanges

LEMMA ListExamplesKeepsTasks ==
  ASSUME LifecycleInv, NEW c \in Consumers, ListExamples(c)
  PROVE  TasksInv'
<1>1. TasksInv /\ DocumentsInv /\ drawn' = drawn /\ c \in Workers /\ task[c] # Idle
  BY DEF LifecycleInv, ListExamples, Workers, Idle
<1>2. CASE ToRemove = {}
  BY <1>1, <1>2, FinishKeepsTasks DEF ListExamples
<1>3. CASE ToRemove # {}
  <2> DEFINE s == SetToSeq(ToRemove)
  <2>1. s \in Seq(ToRemove) /\ s # <<>>
    BY <1>1, <1>3, ExamplesAreDrawn, SetsAsSequences DEF ToRemove
  <2>2. ToRemove \subseteq 1..drawn /\ ToRemove \subseteq Uuids(drawn)
    BY <1>1, ExamplesAreDrawn DEF ToRemove, Uuids
  <2>3. task' = [task EXCEPT ![c].step = "delete", ![c].ids = s]
    BY <1>3 DEF ListExamples
  <2> HIDE DEF s
  <2>4. s \in Seq(1..drawn) /\ s \in Seq(Uuids(drawn))
    BY <2>1, <2>2, SequencesOfMore
  <2>5. QED
    BY <1>1, <2>1, <2>3, <2>4, ListingKeepsTasks
<1>4. QED
  BY <1>2, <1>3

LEMMA FindUnnamedKeepsTasks ==
  ASSUME LifecycleInv, NEW c \in Consumers, FindUnnamed(c)
  PROVE  TasksInv'
<1> DEFINE some == Unnamed(task[c].of[2][1])
           s == SetToSeq(some)
<1>1. /\ TasksInv /\ DocumentsInv /\ drawn' = drawn /\ c \in Workers /\ task[c] # Idle
      /\ task[c].step = "match"
  BY DEF LifecycleInv, FindUnnamed, exampleVars, Workers, Idle
<1>2. CASE some = {}
  BY <1>1, <1>2, FinishKeepsTasks DEF FindUnnamed
<1>3. CASE some # {}
  <2>1. some \subseteq Live /\ some \subseteq Uuids(drawn)
    BY DEF Unnamed, Uuids
  <2>2. task' = [task EXCEPT ![c].step = "set", ![c].ids = s]
    BY <1>3 DEF FindUnnamed
  <2> HIDE DEF some
  <2>3. s \in Seq(some) /\ s # <<>>
    BY <1>1, <1>3, <2>1, FS_Subset, SetsAsSequences DEF DocumentsInv
  <2> HIDE DEF s
  <2>4. s \in Seq(Uuids(drawn))
    BY <2>1, <2>3, SequencesOfMore
  <2>5. QED
    BY <1>1, <2>2, <2>3, <2>4, ListingKeepsTasks
<1>4. QED
  BY <1>2, <1>3

LEMMA RemovingKeepsTasks ==
  ASSUME LifecycleInv, NEW c \in Consumers, SendRemoveEvent(c)
  PROVE  TasksInv'
<1>1. /\ TasksInv /\ drawn' = drawn /\ c \in Workers /\ task[c] # Idle
      /\ TaskOk(c, task[c], drawn) /\ task[c].step = "event"
  BY DEF LifecycleInv, TasksInv, SendRemoveEvent, exampleVars, Workers, Idle
<1>2. CASE Len(task[c].ids) > 1
  <2> DEFINE s == Tail(task[c].ids)
  <2>1. task[c].ids \in Seq(1..drawn) /\ task[c].ids \in Seq(Uuids(drawn))
    BY <1>1 DEF TaskOk, Tasks
  <2>2. s \in Seq(1..drawn) /\ s \in Seq(Uuids(drawn)) /\ s # <<>>
    BY <1>2, <2>1, RestsOfSequences
  <2>3. task' = [task EXCEPT ![c].step = "delete", ![c].ids = s]
    BY <1>1, <1>2 DEF SendRemoveEvent, TasksInv
  <2> HIDE DEF s
  <2>4. QED
    BY <1>1, <2>2, <2>3, ListingKeepsTasks
<1>3. CASE ~(Len(task[c].ids) > 1)
  BY <1>1, <1>3, FinishKeepsTasks DEF SendRemoveEvent
<1>4. QED
  BY <1>2, <1>3

-----------------------------------------------------------------------------
(* The stored transactions.                                                *)

LEMMA InsertKeepsDocuments ==
  ASSUME DocumentsInv, NEW u, NEW isExample \in BOOLEAN,
         drawn \in Nat, drawn' \in {drawn, drawn + 1},
         u \in Uuids(drawn'), isExample <=> u \notin Payments,
         stored' = [v \in Live \cup {u} |-> IF v = u THEN NewDocument(isExample) ELSE stored[v]]
  PROVE  DocumentsInv'
<1>1. NewDocument(isExample) \in Document /\ NewDocument(isExample).example = isExample
  BY DEF NewDocument, Document, Statuses
<1>2. Live' = Live \cup {u}
  BY DEF Live
<1>3. IsFiniteSet(Live')
  BY <1>2, FS_AddElement DEF DocumentsInv
<1>4. Live' \subseteq Uuids(drawn')
  BY <1>2 DEF DocumentsInv, Uuids
<1>5. stored' \in [Live' -> Document]
  BY <1>1, <1>2 DEF DocumentsInv
<1>6. \A v \in Live' : stored'[v].example <=> v \notin Payments
  BY <1>1, <1>2 DEF DocumentsInv
<1>7. QED
  BY <1>3, <1>4, <1>5, <1>6 DEF DocumentsInv, Uuids

LEMMA RestrictionKeepsDocuments ==
  ASSUME DocumentsInv, NEW S, stored' = Restrict(stored, Live \ S), drawn' = drawn
  PROVE  DocumentsInv'
<1>1. Live' = Live \ S /\ \A u \in Live' : stored'[u] = stored[u]
  BY DEF Live, Restrict
<1>2. IsFiniteSet(Live')
  BY <1>1, FS_Subset DEF DocumentsInv
<1>3. stored' \in [Live' -> Document]
  BY <1>1 DEF DocumentsInv, Restrict
<1>4. QED
  BY <1>1, <1>2, <1>3 DEF DocumentsInv, Uuids

\* A change of a field that leaves the rest as it was.
LEMMA ChangeKeepsDocuments ==
  ASSUME DocumentsInv, drawn' = drawn, stored' \in [Live -> Document],
         \A u \in Live : stored'[u].example = stored[u].example
  PROVE  DocumentsInv'
<1>1. Live' = Live
  BY DEF Live
<1>2. QED
  BY <1>1 DEF DocumentsInv, Uuids

LEMMA SavingKeepsDocuments ==
  ASSUME LifecycleInv, NEW r \in Requests, SaveExample(r)
  PROVE  DocumentsInv'
<1> DEFINE u == task[r].ids[1]
           status == StatusBy[task[r].of[1]]
<1>1. DocumentsInv /\ drawn' = drawn /\ TaskOk(r, task[r], drawn) /\ task[r].step = "save"
  BY DEF LifecycleInv, TasksInv, SaveExample, exampleVars, Workers
<1>2. status \in Statuses
  BY <1>1 DEF TaskOk, Actions, StatusBy, Statuses
<1>3. stored' = IF u \in Live THEN [stored EXCEPT ![u].status = status] ELSE stored
  BY DEF SaveExample
<1> HIDE DEF u, status
<1>4. stored' \in [Live -> Document]
  BY <1>1, <1>2, <1>3 DEF DocumentsInv, Document
<1>5. \A v \in Live : stored'[v].example = stored[v].example
  BY <1>1, <1>3 DEF DocumentsInv, Document
<1>6. QED
  BY <1>1, <1>4, <1>5, ChangeKeepsDocuments

LEMMA NamingKeepsDocuments ==
  ASSUME LifecycleInv, NEW c \in Consumers, SetSellerName(c)
  PROVE  DocumentsInv'
<1> DEFINE name == task[c].of[2][2]
           ids == Range(task[c].ids)
<1>1. DocumentsInv /\ drawn' = drawn /\ TaskOk(c, task[c], drawn) /\ task[c].step = "set"
  BY DEF LifecycleInv, TasksInv, SetSellerName, exampleVars, Workers
<1>2. name \in Names
  BY <1>1 DEF TaskOk
<1>3. stored' = [u \in Live |-> IF u \in ids /\ stored[u].seller = Nothing
                               THEN [stored[u] EXCEPT !.seller = name] ELSE stored[u]]
  BY DEF SetSellerName
<1> HIDE DEF name, ids
<1>4. stored' \in [Live -> Document]
  BY <1>1, <1>2, <1>3 DEF DocumentsInv, Document
<1>5. \A v \in Live : stored'[v].example = stored[v].example
  BY <1>1, <1>3 DEF DocumentsInv, Document
<1>6. QED
  BY <1>1, <1>4, <1>5, ChangeKeepsDocuments

-----------------------------------------------------------------------------
(* Types.                                                                  *)

LEMMA InitLifecycleInv == Init => LifecycleInv
<1> SUFFICES ASSUME Init
             PROVE  LifecycleInv
  OBVIOUS
<1>1. TasksInv
  BY IdleIsOk DEF Init, TasksInv, TaskOk
<1>2. DocumentsInv
  <2>1. Live = {}
    BY DEF Init, Live
  <2>2. QED
    BY <2>1, FS_EmptySet DEF Init, DocumentsInv
<1>3. RestInv
  <2>1. log \in [Uuids(drawn) -> Seq(Kinds)]
    BY DEF Init, Uuids
  <2>2. QED
    BY <2>1, LifecycleAssumption DEF Init, RestInv
<1>4. QED
  BY <1>1, <1>2, <1>3 DEF LifecycleInv

\* What the rest needs when neither an example was drawn nor anything noted.
LEMMA RestStays ==
  ASSUME RestInv, drawn' = drawn, UNCHANGED <<log, due, sellerVars, broken>>,
         inbox' \subseteq inbox
  PROVE  RestInv'
  BY DEF RestInv, sellerVars, Uuids

LEMMA NotingKeepsTypes ==
  ASSUME RestInv, NEW kind \in Kinds, NEW uuids, Note(kind, uuids)
  PROVE  /\ log' \in [Uuids(drawn) -> Seq(Kinds)]
         /\ \A u \in Uuids(drawn) :
                log'[u] = IF u \in uuids THEN Append(log[u], kind) ELSE log[u]
<1>1. log \in [Uuids(drawn) -> Seq(Kinds)]
  BY DEF RestInv
<1>2. log' = [u \in Uuids(drawn) |-> IF u \in uuids THEN Append(log[u], kind) ELSE log[u]]
  BY <1>1 DEF Note
<1>3. \A u \in Uuids(drawn) : log[u] \in Seq(Kinds) /\ Append(log[u], kind) \in Seq(Kinds)
  BY <1>1
<1>4. QED
  BY <1>2, <1>3

LEMMA NotingKeepsRest ==
  ASSUME RestInv, drawn' = drawn, UNCHANGED <<inbox, due, sellerVars, broken>>,
         NEW kind \in Kinds, NEW uuids, Note(kind, uuids)
  PROVE  RestInv'
<1>1. log' \in [Uuids(drawn) -> Seq(Kinds)]
  BY NotingKeepsTypes
<1>2. QED
  BY <1>1 DEF RestInv, sellerVars, Uuids

\* A handler breaks off.
LEMMA BreakingKeepsTypes ==
  ASSUME LifecycleInv, NEW w \in Workers, NEW how \in {"crash", "failure"}, Break(w, how)
  PROVE  /\ TasksInv' /\ stored' = stored /\ UNCHANGED <<exampleVars, sellerVars>>
         /\ broken' \in Seq(BrokenTask) /\ Len(broken') \in 0..MaxBroken
<1>1. TasksInv /\ drawn \in Nat /\ broken \in Seq(BrokenTask) /\ Len(broken) \in Nat
      /\ drawn' = drawn
  BY DEF LifecycleInv, TasksInv, RestInv, Break, exampleVars
<1>2. [how |-> how, task |-> task[w]] \in BrokenTask
  <2>1. task[w] \in Tasks(drawn) /\ task[w] # Idle
    BY <1>1 DEF TasksInv, Break
  <2>2. task[w] \in AnyTask
    BY <1>1, <2>1 DEF AnyTask
  <2>3. QED
    BY <2>2 DEF BrokenTask
<1>3. broken' = Append(broken, [how |-> how, task |-> task[w]]) /\ Len(broken) < MaxBroken
  BY DEF Break
<1>4. broken' \in Seq(BrokenTask) /\ Len(broken') = Len(broken) + 1
  BY <1>1, <1>2, <1>3
<1>5. Len(broken') \in 0..MaxBroken
  BY <1>1, <1>3, <1>4, LifecycleAssumption
<1>6. QED
  BY <1>1, <1>4, <1>5, FinishKeepsTasks DEF Break

LEMMA NextLifecycleInv == LifecycleInv /\ [Next]_vars => LifecycleInv'
<1> SUFFICES ASSUME LifecycleInv, [Next]_vars
             PROVE  LifecycleInv'
  OBVIOUS
<1>1. TasksInv /\ DocumentsInv /\ RestInv /\ drawn \in Nat
  BY DEF LifecycleInv, TasksInv
<1>2. ASSUME stored' = stored, drawn' = drawn
      PROVE  DocumentsInv'
  BY <1>1, <1>2 DEF DocumentsInv, Live
<1>3. \A w \in Workers : TaskOk(w, task[w], drawn)
  BY <1>1 DEF TasksInv
<1>4. ASSUME NEW c \in Consumers, Take(c)
      PROVE  LifecycleInv'
  <2>1. stored' = stored /\ drawn' = drawn
    BY <1>4 DEF Take, exampleVars
  <2>2. RestInv'
    BY <1>1, <1>4, <2>1, RestStays DEF Take, exampleVars
  <2>3. QED
    BY <1>2, <1>4, <2>1, <2>2, TakeKeepsTasks DEF LifecycleInv
<1>5. ASSUME NEW c \in Consumers, Crash(c)
      PROVE  LifecycleInv'
  <2>1. c \in Workers /\ task[c] # Idle /\ inbox' = inbox \cup {task[c].of}
    BY <1>5 DEF Crash, Break, Workers
  <2>2. /\ TasksInv' /\ stored' = stored /\ UNCHANGED <<exampleVars, sellerVars>>
        /\ broken' \in Seq(BrokenTask) /\ Len(broken') \in 0..MaxBroken
    BY <1>5, <2>1, BreakingKeepsTypes DEF Crash
  <2>3. task[c].of \in Messages
    BY <1>3, <2>1 DEF TaskOk
  <2>4. RestInv'
    BY <1>1, <2>1, <2>2, <2>3 DEF RestInv, exampleVars, sellerVars, Uuids
  <2>5. QED
    BY <1>2, <2>2, <2>4 DEF LifecycleInv, exampleVars
<1>0. ASSUME NEW w \in Workers, Fail(w)
      PROVE  LifecycleInv'
  <2>1. /\ TasksInv' /\ stored' = stored /\ UNCHANGED <<exampleVars, sellerVars, inbox>>
        /\ broken' \in Seq(BrokenTask) /\ Len(broken') \in 0..MaxBroken
    BY <1>0, BreakingKeepsTypes DEF Fail
  <2>2. RestInv'
    BY <1>1, <2>1 DEF RestInv, exampleVars, sellerVars, Uuids
  <2>3. QED
    BY <1>2, <2>1, <2>2 DEF LifecycleInv, exampleVars
<1>6. ASSUME NEW r \in Requests, TriggerExample(r)
      PROVE  LifecycleInv'
  <2>1. stored' = stored /\ drawn' = drawn
    BY <1>6 DEF TriggerExample, exampleVars
  <2>2. RestInv'
    BY <1>1, <1>6, <2>1, RestStays DEF TriggerExample, exampleVars
  <2>3. QED
    BY <1>2, <1>6, <2>1, <2>2, TriggerKeepsTasks DEF LifecycleInv
<1>7. ASSUME NEW r \in Requests, RunFakeAction(r)
      PROVE  LifecycleInv'
  <2>1. stored' = stored /\ drawn' = drawn
    BY <1>7 DEF RunFakeAction, exampleVars
  <2>2. RestInv'
    BY <1>1, <1>7, <2>1, RestStays DEF RunFakeAction, exampleVars
  <2>3. QED
    BY <1>2, <1>7, <2>1, <2>2, ActingKeepsTasks DEF LifecycleInv
<1>8. ASSUME NEW w \in Workers, CreateExample(w)
      PROVE  LifecycleInv'
  <2>1. drawn' = drawn + 1 /\ drawn' \in Uuids(drawn') /\ drawn' \notin Payments
    BY <1>1, <1>8, LifecycleAssumption DEF CreateExample, Uuids
  <2>2. DocumentsInv'
    BY <1>1, <1>8, <2>1, InsertKeepsDocuments DEF CreateExample
  <2>3. RestInv'
    <3>1. log \in [Uuids(drawn) -> Seq(Kinds)] /\ Uuids(drawn') = Uuids(drawn) \cup {drawn'}
      BY <1>1, <2>1 DEF RestInv, Uuids
    <3>2. log' = [u \in Uuids(drawn') |-> IF u = drawn' THEN <<>> ELSE log[u]]
      BY <1>8, <3>1 DEF CreateExample
    <3>3. log' \in [Uuids(drawn') -> Seq(Kinds)]
      BY <3>1, <3>2
    <3>4. due' = due /\ 1..drawn \subseteq 1..drawn'
      BY <1>1, <1>8, <2>1 DEF CreateExample
    <3>5. QED
      BY <1>1, <1>8, <3>3, <3>4 DEF RestInv, CreateExample, sellerVars
  <2>4. QED
    BY <1>8, <2>2, <2>3, CreatingKeepsTasks DEF LifecycleInv
<1>9. ASSUME NEW w \in Workers, SendAddEvent(w)
      PROVE  LifecycleInv'
  <2>1. stored' = stored /\ drawn' = drawn
    BY <1>9 DEF SendAddEvent
  <2>2. RestInv'
    BY <1>1, <1>9, <2>1, NotingKeepsRest DEF SendAddEvent, Kinds
  <2>3. QED
    BY <1>2, <1>9, <2>1, <2>2, AddingKeepsTasks DEF LifecycleInv
<1>10. ASSUME NEW c \in Consumers, CreatePayment(c)
       PROVE  LifecycleInv'
  <2>1. /\ drawn' = drawn /\ c \in Workers /\ task[c].step = "create"
        /\ UNCHANGED <<inbox, log, sellerVars, broken>>
    BY <1>10 DEF CreatePayment, Workers
  <2>2. task[c].of[2] \in Payments
    BY <1>3, <2>1 DEF TaskOk
  <2>3. CASE task[c].of[2] \in Live
    <3>1. Finish(c) /\ stored' = stored /\ due' = due
      BY <1>10, <2>3 DEF CreatePayment
    <3>2. QED
      BY <1>1, <1>2, <2>1, <3>1, FinishKeepsTasks, RestStays DEF LifecycleInv
  <2>4. CASE task[c].of[2] \notin Live
    <3>1. /\ Goto(c, "ask") /\ due' = [due EXCEPT ![task[c].of[2]] = Examples]
          /\ stored' = [u \in Live \cup {task[c].of[2]} |->
                IF u = task[c].of[2] THEN NewDocument(FALSE) ELSE stored[u]]
      BY <1>10, <2>4 DEF CreatePayment
    <3>2. DocumentsInv'
      BY <1>1, <2>1, <2>2, <3>1, InsertKeepsDocuments DEF Uuids
    <3>3. TasksInv'
      BY <1>1, <2>1, <3>1, GotoKeepsTasks
    <3>4. RestInv'
      BY <1>1, <2>1, <2>2, <3>1, ExamplesAreDrawn DEF RestInv, sellerVars, Uuids
    <3>5. QED
      BY <3>2, <3>3, <3>4 DEF LifecycleInv
  <2>5. QED
    BY <2>3, <2>4
<1>11. ASSUME NEW c \in Consumers, AskSellerName(c)
       PROVE  LifecycleInv'
  <2>1. /\ stored' = stored /\ drawn' = drawn /\ c \in Workers /\ task[c].step = "ask"
        /\ UNCHANGED <<inbox, log, due, flows, broken>> /\ Goto(c, "list")
    BY <1>11 DEF AskSellerName, exampleVars, Workers
  <2> DEFINE p == task[c].of[2]
             email == flows[FlowOf[p]]
  <2>2. p \in Payments
    BY <1>3, <2>1 DEF TaskOk
  <2>3. email \in Emails \cup {Nothing}
    BY <1>1, <2>2, LifecycleAssumption DEF RestInv
  <2>4. /\ asked' = [asked EXCEPT ![p] = email]
        /\ pending' = IF email = Nothing THEN pending ELSE pending \cup {<<p, email>>}
    BY <1>11 DEF AskSellerName
  <2> HIDE DEF p, email
  <2>5. RestInv'
    BY <1>1, <2>1, <2>2, <2>3, <2>4 DEF RestInv, Uuids
  <2>6. QED
    BY <1>1, <1>2, <2>1, <2>5, GotoKeepsTasks DEF LifecycleInv
<1>12. ASSUME NEW c \in Consumers, ListExamples(c)
       PROVE  LifecycleInv'
  <2>1. stored' = stored /\ drawn' = drawn
    BY <1>12 DEF ListExamples
  <2>2. RestInv'
    BY <1>1, <1>12, <2>1, NotingKeepsRest DEF ListExamples, Kinds
  <2>3. QED
    BY <1>2, <1>12, <2>1, <2>2, ListExamplesKeepsTasks DEF LifecycleInv
<1>13. ASSUME NEW c \in Consumers, RemoveExample(c)
       PROVE  LifecycleInv'
  <2>1. /\ drawn' = drawn /\ c \in Workers /\ task[c].step = "delete" /\ Goto(c, "event")
        /\ stored' = Restrict(stored, Live \ {Head(task[c].ids)})
    BY <1>13 DEF RemoveExample, exampleVars, Workers
  <2>2. RestInv'
    BY <1>1, <1>13, <2>1, RestStays DEF RemoveExample, exampleVars
  <2>3. QED
    BY <1>1, <2>1, <2>2, GotoKeepsTasks, RestrictionKeepsDocuments DEF LifecycleInv
<1>14. ASSUME NEW c \in Consumers, SendRemoveEvent(c)
       PROVE  LifecycleInv'
  <2>1. stored' = stored /\ drawn' = drawn /\ c \in Workers
    BY <1>14 DEF SendRemoveEvent, Workers
  <2>2. RestInv'
    BY <1>1, <1>14, <2>1, NotingKeepsRest DEF SendRemoveEvent, Kinds
  <2>3. QED
    BY <1>2, <1>14, <2>1, <2>2, RemovingKeepsTasks DEF LifecycleInv
<1>15. ASSUME NEW r \in Requests, DoFakeAction(r)
       PROVE  LifecycleInv'
  <2>1. /\ stored' = stored /\ drawn' = drawn /\ r \in Workers
        /\ task[r].step = "act" /\ Goto(r, "save")
    BY <1>15 DEF DoFakeAction, Workers
  <2>2. Note("subtract", {task[r].ids[1]}) \/ log' = log
    BY <1>15 DEF DoFakeAction
  <2>3. UNCHANGED <<inbox, due, sellerVars, broken>>
    BY <1>15 DEF DoFakeAction
  <2>4. RestInv'
    BY <1>1, <2>1, <2>2, <2>3, NotingKeepsRest, RestStays DEF Kinds
  <2>5. QED
    BY <1>1, <1>2, <2>1, <2>4, GotoKeepsTasks DEF LifecycleInv
<1>16. ASSUME NEW r \in Requests, SaveExample(r)
       PROVE  LifecycleInv'
  <2>1. drawn' = drawn /\ r \in Workers /\ Finish(r)
    BY <1>16 DEF SaveExample, exampleVars, Workers
  <2>2. RestInv'
    BY <1>1, <1>16, <2>1, RestStays DEF SaveExample, exampleVars
  <2>3. QED
    BY <1>1, <1>16, <2>1, <2>2, SavingKeepsDocuments, FinishKeepsTasks DEF LifecycleInv
<1>17. ASSUME NEW c \in Consumers, HandleFlow(c)
       PROVE  LifecycleInv'
  <2>1. stored' = stored /\ drawn' = drawn /\ c \in Workers /\ Finish(c) /\ task[c].step = "flow"
    BY <1>17 DEF HandleFlow, exampleVars, Workers
  <2>2. task[c].of[2] \in Flows \X (Emails \cup {Nothing})
    BY <1>3, <2>1 DEF TaskOk
  <2>3. RestInv'
    BY <1>1, <1>17, <2>1, <2>2 DEF RestInv, HandleFlow, exampleVars, Uuids
  <2>4. QED
    BY <1>1, <1>2, <2>1, <2>3, FinishKeepsTasks DEF LifecycleInv
<1>18. ASSUME NEW c \in Consumers, FindUnnamed(c)
       PROVE  LifecycleInv'
  <2>1. stored' = stored /\ drawn' = drawn
    BY <1>18 DEF FindUnnamed, exampleVars
  <2>2. RestInv'
    BY <1>1, <1>18, <2>1, RestStays DEF FindUnnamed, exampleVars
  <2>3. QED
    BY <1>2, <1>18, <2>1, <2>2, FindUnnamedKeepsTasks DEF LifecycleInv
<1>19. ASSUME NEW c \in Consumers, SetSellerName(c)
       PROVE  LifecycleInv'
  <2>1. drawn' = drawn /\ c \in Workers /\ Finish(c)
    BY <1>19 DEF SetSellerName, exampleVars, Workers
  <2>2. RestInv'
    BY <1>1, <1>19, <2>1, RestStays DEF SetSellerName, exampleVars
  <2>3. QED
    BY <1>1, <1>19, <2>1, <2>2, NamingKeepsDocuments, FinishKeepsTasks DEF LifecycleInv
<1>20. CASE Answer
  <2>1. /\ task' = task /\ stored' = stored /\ drawn' = drawn
        /\ UNCHANGED <<log, due, flows, asked, broken>>
    BY <1>20 DEF Answer, exampleVars
  <2>2. PICK question \in pending, name \in Names :
          /\ pending' = pending \ {question}
          /\ inbox' = inbox \cup {<<"name", <<question[2], name>>>>}
    BY <1>20 DEF Answer
  <2>3. <<"name", <<question[2], name>>>> \in Messages
    BY <1>1, <2>2 DEF RestInv, Messages
  <2>4. RestInv'
    BY <1>1, <2>1, <2>2, <2>3 DEF RestInv, Uuids
  <2>5. QED
    BY <1>1, <1>2, <2>1, <2>4 DEF LifecycleInv, TasksInv, TaskOk
<1>21. CASE UNCHANGED vars
  <2>1. UNCHANGED <<inbox, task, stored, drawn, log, due, flows, asked, pending, broken>>
    BY <1>21 DEF vars, exampleVars, sellerVars
  <2>2. TasksInv' /\ RestInv'
    BY <1>1, <2>1 DEF TasksInv, RestInv, TaskOk, Uuids
  <2>3. QED
    BY <1>2, <2>1, <2>2 DEF LifecycleInv
<1>22. QED
  BY <1>0, <1>4, <1>5, <1>6, <1>7, <1>8, <1>9, <1>10, <1>11, <1>12, <1>13, <1>14, <1>15, <1>16,
     <1>17, <1>18, <1>19, <1>20, <1>21 DEF Next, Consume, Serve, Workers

LEMMA LifecycleInvariant == Spec => []LifecycleInv
  BY InitLifecycleInv, NextLifecycleInv, PTL DEF Spec

\* Every variable keeps its type, whatever messages and requests come.
THEOREM LifecycleTypesHold == Spec => []TypeOK
  BY LifecycleInvariant, LifecycleTypes, PTL

-----------------------------------------------------------------------------
(* Names.                                                                  *)

LEMMA NamedStaysNamed ==
  ASSUME LifecycleInv, [Next]_vars, NEW p \in Payments, p \in Live, stored[p].seller # Nothing
  PROVE  p \in Live' /\ stored'[p].seller = stored[p].seller
<1>1. TasksInv /\ DocumentsInv /\ drawn \in Nat /\ p \notin Nat
  BY LifecycleAssumption DEF LifecycleInv, TasksInv
<1>2. ASSUME NEW w \in Workers, CreateExample(w)
      PROVE  p \in Live' /\ stored'[p].seller = stored[p].seller
  <2>1. p # drawn'
    BY <1>1, <1>2 DEF CreateExample
  <2>2. stored' = [u \in Live \cup {drawn'} |-> IF u = drawn' THEN NewDocument(TRUE) ELSE stored[u]]
    BY <1>2 DEF CreateExample
  <2>3. QED
    BY <2>1, <2>2 DEF Live
<1>3. ASSUME NEW c \in Consumers, CreatePayment(c)
      PROVE  p \in Live' /\ stored'[p].seller = stored[p].seller
  BY <1>3 DEF CreatePayment, Live
<1>4. ASSUME NEW c \in Consumers, RemoveExample(c)
      PROVE  p \in Live' /\ stored'[p].seller = stored[p].seller
  <2>1. c \in Workers /\ TaskOk(c, task[c], drawn) /\ task[c].step = "delete"
    BY <1>1, <1>4 DEF TasksInv, RemoveExample, Workers
  <2>2. Head(task[c].ids) \in 1..drawn
    BY <1>1, <2>1, FirstUuids
  <2>3. p # Head(task[c].ids)
    BY <1>1, <2>2
  <2>4. QED
    BY <1>4, <2>3 DEF RemoveExample, Restrict, Live
<1>5. ASSUME NEW r \in Requests, SaveExample(r)
      PROVE  p \in Live' /\ stored'[p].seller = stored[p].seller
  <2> DEFINE u == task[r].ids[1]
  <2>1. u \in 1..drawn
    BY <1>1, <1>5, FirstUuids DEF TasksInv, SaveExample, Workers
  <2>2. p # u
    BY <1>1, <2>1
  <2> HIDE DEF u
  <2>3. stored' = stored \/ \E status : stored' = [stored EXCEPT ![u].status = status]
    BY <1>5 DEF SaveExample, u
  <2>4. QED
    BY <2>2, <2>3 DEF Live
<1>6. ASSUME NEW c \in Consumers, SetSellerName(c)
      PROVE  p \in Live' /\ stored'[p].seller = stored[p].seller
  BY <1>6 DEF SetSellerName, Live
<1>7. CASE UNCHANGED stored
  BY <1>7 DEF Live
<1>8. QED
  BY <1>2, <1>3, <1>4, <1>5, <1>6, <1>7
  DEF Next, Consume, Serve, Workers, Take, Crash, Fail, Break, TriggerExample, RunFakeAction, SendAddEvent,
      AskSellerName, ListExamples, SendRemoveEvent, DoFakeAction, HandleFlow, FindUnnamed,
      Answer, vars

\* No answer of the auth service overwrites a name, however many are handled at once,
\* and no removal of examples takes a payment with it.
THEOREM NamesAreSetOnce == Spec => NameSetOnce
<1>1. LifecycleInv /\ [Next]_vars =>
        [\A p \in Payments \cap Live : stored[p].seller # Nothing =>
            p \in DOMAIN stored' /\ stored'[p].seller = stored[p].seller]_vars
  BY NamedStaysNamed DEF Live
<1>2. QED
  BY <1>1, LifecycleInvariant, PTL DEF Spec, NameSetOnce

-----------------------------------------------------------------------------
(* The log.                                                                *)

Count(kind, s) == Cardinality({i \in DOMAIN s : s[i] = kind})

\* Each removal in the log comes after the example was found.
Founded(s) ==
    \A i \in DOMAIN s : s[i] = "remove" => \E j \in 1..(i - 1) : s[j] = "found"

LEMMA PositionsOfOneMore ==
  ASSUME NEW s \in Seq(Kinds), NEW x \in Kinds
  PROVE  /\ Len(s) \in Nat /\ DOMAIN s = 1..Len(s)
         /\ DOMAIN Append(s, x) = 1..(Len(s) + 1)
         /\ \A i \in 1..Len(s) : Append(s, x)[i] = s[i]
         /\ Append(s, x)[Len(s) + 1] = x
  BY AppendProperties, LenProperties

LEMMA CountOfOneMore ==
  ASSUME NEW kind, NEW s \in Seq(Kinds), NEW x \in Kinds
  PROVE  /\ Count(kind, s) \in Nat
         /\ Count(kind, Append(s, x)) = IF x = kind THEN Count(kind, s) + 1 ELSE Count(kind, s)
<1> DEFINE n == Len(s)
           P == {i \in 1..n : s[i] = kind}
           Q == {i \in 1..(n + 1) : Append(s, x)[i] = kind}
<1>1. /\ n \in Nat /\ Count(kind, s) = Cardinality(P)
      /\ Count(kind, Append(s, x)) = Cardinality(Q)
  BY PositionsOfOneMore DEF Count
<1>2. Q = IF x = kind THEN P \cup {n + 1} ELSE P
  BY PositionsOfOneMore
<1>3. IsFiniteSet(P) /\ n + 1 \notin P
  <2>1. P \subseteq 1..n /\ n + 1 \notin 1..n
    BY <1>1
  <2> HIDE DEF P, n
  <2>2. IsFiniteSet(1..n)
    BY <1>1, FS_Interval
  <2>3. QED
    BY <2>1, <2>2, FS_Subset
<1> HIDE DEF P, Q, n
<1>4. Cardinality(P) \in Nat /\ Cardinality(P \cup {n + 1}) = Cardinality(P) + 1
  BY <1>3, FS_CardinalityType, FS_AddElement
<1>5. QED
  BY <1>1, <1>2, <1>4

LEMMA CountsAndRanges ==
  ASSUME NEW kind, NEW s \in Seq(Kinds)
  PROVE  Count(kind, s) \in Nat /\ (Count(kind, s) = 0 <=> kind \notin Range(s))
<1> DEFINE P == {i \in DOMAIN s : s[i] = kind}
<1>1. IsFiniteSet(P)
  BY FS_Interval, FS_Subset
<1>2. Cardinality(P) \in Nat /\ (Cardinality(P) = 0 <=> P = {})
  BY <1>1, FS_CardinalityType, FS_EmptySet
<1>3. P = {} <=> kind \notin Range(s)
  BY DEF Range
<1>4. QED
  BY <1>2, <1>3 DEF Count

LEMMA NothingToCount == Founded(<<>>) /\ \A kind : Count(kind, <<>>) = 0
<1>1. DOMAIN <<>> = {} /\ <<>> \in Seq(Kinds)
  OBVIOUS
<1>2. Range(<<>>) = {}
  BY <1>1 DEF Range
<1>3. QED
  BY <1>1, <1>2, CountsAndRanges DEF Founded

LEMMA FoundedOfOneMore ==
  ASSUME NEW s \in Seq(Kinds), NEW x \in Kinds, Founded(s),
         x = "remove" => "found" \in Range(s)
  PROVE  Founded(Append(s, x))
<1> DEFINE t == Append(s, x)
<1>1. /\ Len(s) \in Nat /\ DOMAIN s = 1..Len(s) /\ DOMAIN t = 1..(Len(s) + 1)
      /\ \A i \in 1..Len(s) : t[i] = s[i]
      /\ t[Len(s) + 1] = x
  BY PositionsOfOneMore
<1> HIDE DEF t
<1>2. ASSUME NEW i \in DOMAIN t, t[i] = "remove"
      PROVE  \E j \in 1..(i - 1) : t[j] = "found"
  <2>1. CASE i \in 1..Len(s)
    <3>1. PICK j \in 1..(i - 1) : s[j] = "found"
      BY <1>1, <1>2, <2>1 DEF Founded
    <3>2. j \in 1..Len(s)
      BY <1>1, <2>1
    <3>3. QED
      BY <1>1, <3>1, <3>2
  <2>2. CASE i = Len(s) + 1
    <3>1. PICK j \in DOMAIN s : s[j] = "found"
      BY <1>1, <1>2, <2>2 DEF Range
    <3>2. j \in 1..(i - 1) /\ t[j] = "found"
      BY <1>1, <2>2, <3>1
    <3>3. QED
      BY <3>2
  <2>3. QED
    BY <1>1, <1>2, <2>1, <2>2
<1>3. QED
  BY <1>2 DEF Founded, t

\* What the log of a transaction tells after something was noted.
LEMMA NotingCounts ==
  ASSUME RestInv, NEW note \in Kinds, NEW uuids, Note(note, uuids), NEW u \in Uuids(drawn)
  PROVE  /\ \A kind : Count(kind, log'[u]) =
                IF kind = note /\ u \in uuids THEN Count(kind, log[u]) + 1 ELSE Count(kind, log[u])
         /\ Founded(log[u]) /\ (note = "remove" /\ u \in uuids => "found" \in Range(log[u]))
                => Founded(log'[u])
<1>1. log[u] \in Seq(Kinds) /\ log'[u] = IF u \in uuids THEN Append(log[u], note) ELSE log[u]
  BY NotingKeepsTypes DEF RestInv
<1>2. CASE u \in uuids
  <2>1. \A kind : Count(kind, log'[u]) =
          IF kind = note THEN Count(kind, log[u]) + 1 ELSE Count(kind, log[u])
    BY <1>1, <1>2, CountOfOneMore
  <2>2. Founded(log[u]) /\ (note = "remove" => "found" \in Range(log[u])) => Founded(log'[u])
    BY <1>1, <1>2, FoundedOfOneMore
  <2>3. QED
    BY <1>2, <2>1, <2>2
<1>3. CASE u \notin uuids
  BY <1>1, <1>3
<1>4. QED
  BY <1>2, <1>3

\* A worker's handler is the next to break off.
LEMMA RangeOfBroken ==
  ASSUME LifecycleInv, NEW w \in Workers, NEW how \in {"crash", "failure"}, Break(w, how)
  PROVE  Range(broken') = Range(broken) \cup {[how |-> how, task |-> task[w]]}
<1> DEFINE b == [how |-> how, task |-> task[w]]
<1>1. broken \in Seq(BrokenTask) /\ broken' = Append(broken, b)
  BY DEF LifecycleInv, RestInv, Break
<1> HIDE DEF b
<1>2. /\ DOMAIN broken = 1..Len(broken) /\ Len(broken) \in Nat
      /\ DOMAIN broken' = 1..(Len(broken) + 1)
      /\ \A i \in 1..Len(broken) : broken'[i] = broken[i]
      /\ broken'[Len(broken) + 1] = b
  <2>1. broken' \in Seq(BrokenTask \cup {b}) /\ broken \in Seq(BrokenTask \cup {b})
    BY <1>1, SequencesOfMore
  <2>2. QED
    BY <1>1, <2>1, AppendProperties, LenProperties
<1>3. \A x : x \in Range(broken') <=> x \in Range(broken) \/ x = b
  BY <1>2 DEF Range
<1>4. QED
  BY <1>3 DEF b

-----------------------------------------------------------------------------
(* Examples and what the statistics know of them.                          *)

\* A step that neither inserts nor removes, and neither comes to an event for the
\* statistics about that nor sends one.
Silent ==
    /\ UNCHANGED <<drawn, broken>> /\ Live \subseteq Live' /\ Live' \subseteq Live \cup Payments
    /\ \A u \in Uuids(drawn) :
        /\ \A kind \in {"add", "found", "remove"} : Count(kind, log'[u]) = Count(kind, log[u])
        /\ Founded(log[u]) => Founded(log'[u])
    /\ \A w \in Workers : task'[w] = task[w] \/
        (/\ task[w].step \notin {"add", "delete", "event"}
         /\ task'[w].step \notin {"add", "delete", "event"})

\* The steps of the removal of examples.
Clearing == {"ask", "list", "delete", "event"}

\* A silent step that touches no removal either.
Aside ==
    /\ Silent /\ due' = due /\ Live' = Live
    /\ \A c \in Consumers : task[c].step \in Clearing => task'[c] = task[c]

LEMMA SilentSteps ==
  ASSUME LifecycleInv, [Next]_vars,
         \A w \in Workers : ~CreateExample(w) /\ ~SendAddEvent(w) /\ ~Fail(w),
         \A c \in Consumers : ~Crash(c) /\ ~CreatePayment(c) /\ ~AskSellerName(c)
            /\ ~ListExamples(c) /\ ~RemoveExample(c) /\ ~SendRemoveEvent(c)
  PROVE  Aside
<1>1. TasksInv /\ \A w \in Workers : task[w] \in Tasks(drawn)
  BY DEF LifecycleInv, TasksInv
<1>2. Idle.step = "idle"
  BY DEF Idle
<1>3. ASSUME NEW c \in Consumers, Take(c)
      PROVE  Aside
  <2>1. c \in Workers /\ task[c].step = "idle" /\ UNCHANGED <<stored, exampleVars, broken>>
    BY <1>2, <1>3 DEF Take, Workers
  <2>2. PICK m \in inbox : m[1] \notin RequestKinds /\ task' = [task EXCEPT ![c] =
          [step |-> FirstStep[m[1]], of |-> m, ids |-> <<>>, left |-> Catalog]]
    BY <1>3 DEF Take
  <2>3. m[1] \in {"products", "payment", "removed", "flow", "name"}
    BY <2>2, NamedMessages DEF LifecycleInv, RestInv, RequestKinds
  <2>4. FirstStep[m[1]] \notin {"add", "delete", "event"}
    BY <2>3 DEF FirstStep
  <2>5. \A v \in Workers : task'[v] = task[v] \/
          (/\ task[v].step \notin {"add", "delete", "event"}
           /\ task'[v].step \notin {"add", "delete", "event"})
    BY <1>1, <2>1, <2>2, <2>4 DEF TasksInv
  <2>6. \A d \in Consumers : task[d].step \in Clearing => task'[d] = task[d]
    BY <1>1, <2>1, <2>2 DEF TasksInv, Clearing
  <2>7. QED
    BY <2>1, <2>5, <2>6 DEF Aside, Silent, exampleVars, Live
<1>4. ASSUME NEW r \in Requests, TriggerExample(r) \/ RunFakeAction(r)
      PROVE  Aside
  <2>1. r \in Workers /\ r \notin Consumers /\ task[r].step = "idle"
        /\ UNCHANGED <<stored, exampleVars, broken>>
    BY <1>2, <1>4, LifecycleAssumption DEF TriggerExample, RunFakeAction, Workers
  <2>2. task'[r].step \in {"insert", "act"} /\ \A v \in Workers \ {r} : task'[v] = task[v]
    <3>1. CASE TriggerExample(r)
      <4>1. PICK m \in inbox : task' = [task EXCEPT ![r] =
              [step |-> "insert", of |-> m, ids |-> <<>>, left |-> Catalog]]
        BY <3>1 DEF TriggerExample
      <4>2. QED
        BY <1>1, <2>1, <4>1 DEF TasksInv
    <3>2. CASE RunFakeAction(r)
      <4>1. PICK u \in Examples, action \in FakeActions : task' = [task EXCEPT ![r] =
              [step |-> "act", of |-> <<action>>, ids |-> <<u>>, left |-> 0]]
        BY <3>2 DEF RunFakeAction
      <4>2. QED
        BY <1>1, <2>1, <4>1 DEF TasksInv
    <3>3. QED
      BY <1>4, <3>1, <3>2
  <2>3. QED
    BY <2>1, <2>2 DEF Aside, Silent, exampleVars, Live, Workers
<1>5. ASSUME NEW r \in Requests, DoFakeAction(r) \/ SaveExample(r)
      PROVE  Aside
  <2>1. /\ r \in Workers /\ r \notin Consumers /\ task[r].step \in {"act", "save"}
        /\ UNCHANGED <<drawn, due, broken>>
        /\ log' = log \/ Note("subtract", {task[r].ids[1]})
    BY <1>5, LifecycleAssumption DEF DoFakeAction, SaveExample, Workers, exampleVars
  <2>2. Live' = Live
    BY <1>5 DEF DoFakeAction, SaveExample, Live
  <2>3. Goto(r, "save") \/ Finish(r)
    BY <1>5 DEF DoFakeAction, SaveExample
  <2>4. \A v \in Workers : task'[v] = task[v] \/
          (/\ task[v].step \notin {"add", "delete", "event"}
           /\ task'[v].step \notin {"add", "delete", "event"})
    BY <1>1, <1>2, <2>1, <2>3 DEF Goto, Finish, TasksInv, Tasks
  <2>5. \A d \in Consumers : task'[d] = task[d]
    BY <1>1, <2>1, <2>3 DEF Goto, Finish, TasksInv, Workers
  <2>6. ASSUME NEW u \in Uuids(drawn)
        PROVE  /\ \A kind \in {"add", "found", "remove"} : Count(kind, log'[u]) = Count(kind, log[u])
               /\ Founded(log[u]) => Founded(log'[u])
    <3>1. CASE log' = log
      BY <3>1
    <3>2. CASE Note("subtract", {task[r].ids[1]})
      BY <3>2, NotingCounts DEF LifecycleInv, Kinds
    <3>3. QED
      BY <2>1, <3>1, <3>2
  <2>7. QED
    BY <2>1, <2>2, <2>4, <2>5, <2>6 DEF Aside, Silent
<1>6. ASSUME NEW c \in Consumers, HandleFlow(c) \/ FindUnnamed(c) \/ SetSellerName(c)
      PROVE  Aside
  <2>1. /\ c \in Workers /\ task[c].step \in {"flow", "match", "set"}
        /\ UNCHANGED <<exampleVars, broken>>
    BY <1>6 DEF HandleFlow, FindUnnamed, SetSellerName, Workers
  <2>2. Live' = Live
    BY <1>6 DEF HandleFlow, FindUnnamed, SetSellerName, Live
  <2>3. Finish(c) \/ \E s : task' = [task EXCEPT ![c].step = "set", ![c].ids = s]
    BY <1>6 DEF HandleFlow, FindUnnamed, SetSellerName
  <2>4. task[c] \in Tasks(drawn)
    BY <1>1, <2>1
  <2>5. task'[c].step \in {"idle", "set"} /\ \A v \in Workers \ {c} : task'[v] = task[v]
    BY <1>1, <1>2, <2>1, <2>3, <2>4 DEF Finish, TasksInv, Tasks
  <2>6. QED
    BY <2>1, <2>2, <2>5 DEF Aside, Silent, exampleVars, Clearing, Workers
<1>7. CASE Answer \/ UNCHANGED vars
  BY <1>7 DEF Answer, vars, exampleVars, Aside, Silent, Clearing, Live
<1>8. QED
  BY <1>3, <1>4, <1>5, <1>6, <1>7 DEF Next, Consume, Serve, Workers

\* Of all workers, only this one goes on.
OnlyOne(w) == w \in Workers /\ \A v \in Workers \ {w} : task'[v] = task[v]

\* What the steps that are not silent do.
LEMMA CreateExampleStep ==
  ASSUME LifecycleInv, NEW w, CreateExample(w), w \in Workers
  PROVE  /\ OnlyOne(w) /\ task[w].step = "insert"
         /\ task'[w].step = "add" /\ task'[w].ids[1] = drawn + 1
         /\ drawn' = drawn + 1 /\ Live' = Live \cup {drawn + 1} /\ UNCHANGED <<due, broken>>
         /\ \A u \in Uuids(drawn) : u # drawn + 1 => log'[u] = log[u]
         /\ log'[drawn + 1] = <<>>
<1>1. task \in [Workers -> Tasks(drawn)] /\ DOMAIN log = Uuids(drawn)
  BY DEF LifecycleInv, TasksInv, RestInv
<1>2. /\ task' = [task EXCEPT ![w].step = "add", ![w].ids = <<drawn + 1>>]
      /\ task[w].step = "insert"
      /\ drawn' = drawn + 1 /\ UNCHANGED <<due, broken>>
      /\ log' = [u \in DOMAIN log \cup {drawn + 1} |-> IF u = drawn + 1 THEN <<>> ELSE log[u]]
  BY DEF CreateExample
<1>3. Live' = Live \cup {drawn + 1}
  BY <1>2 DEF CreateExample, Live
<1>4. task'[w] = [task[w] EXCEPT !.step = "add", !.ids = <<drawn + 1>>]
  BY <1>1, <1>2
<1>5. task[w] \in Tasks(drawn)
  BY <1>1
<1>6. task'[w].step = "add" /\ task'[w].ids = <<drawn + 1>>
  BY <1>4, <1>5 DEF Tasks
<1>7. OnlyOne(w)
  BY <1>1, <1>2 DEF OnlyOne
<1>8. task'[w].ids[1] = drawn + 1
  BY <1>6
<1>9. QED
  BY <1>1, <1>2, <1>3, <1>6, <1>7, <1>8

LEMMA SendAddEventStep ==
  ASSUME LifecycleInv, NEW w, SendAddEvent(w), w \in Workers
  PROVE  /\ OnlyOne(w) /\ task[w].step = "add" /\ task'[w].step \in {"insert", "idle"}
         /\ Note("add", {task[w].ids[1]})
         /\ UNCHANGED <<drawn, due, broken>> /\ Live' = Live
<1>1. task \in [Workers -> Tasks(drawn)] /\ task[w] \in Tasks(drawn)
  BY DEF LifecycleInv, TasksInv
<1>2. \/ task' = [task EXCEPT ![w].step = "insert", ![w].left = @ - 1]
      \/ task' = [task EXCEPT ![w] = Idle]
  BY DEF SendAddEvent, Finish
<1>3. OnlyOne(w) /\ task'[w].step \in {"insert", "idle"}
  BY <1>1, <1>2 DEF OnlyOne, Idle, Tasks
<1>4. QED
  BY <1>3 DEF SendAddEvent, Live

LEMMA CreatePaymentStep ==
  ASSUME LifecycleInv, NEW c \in Consumers, CreatePayment(c)
  PROVE  /\ Silent /\ OnlyOne(c) /\ task[c].step = "create"
         /\ \/ due' = due /\ Live' = Live /\ task'[c].step = "idle"
            \/ /\ due' = [due EXCEPT ![task[c].of[2]] = Examples]
               /\ task'[c].step = "ask"
               /\ task'[c].of = <<"payment", task[c].of[2]>>
<1>1. /\ task \in [Workers -> Tasks(drawn)] /\ task[c] \in Tasks(drawn) /\ c \in Workers
      /\ task[c].of[2] \in Payments /\ task[c].of = <<"payment", task[c].of[2]>>
  BY DEF LifecycleInv, TasksInv, TaskOk, CreatePayment, Workers
<1>2. /\ task[c].step = "create" /\ UNCHANGED <<drawn, log, broken>>
      /\ \/ Finish(c) /\ UNCHANGED <<stored, due>>
         \/ /\ Live' = Live \cup {task[c].of[2]} /\ due' = [due EXCEPT ![task[c].of[2]] = Examples]
            /\ Goto(c, "ask")
  BY DEF CreatePayment, Live
<1>3. \/ OnlyOne(c) /\ due' = due /\ Live' = Live /\ task'[c].step = "idle"
      \/ /\ OnlyOne(c) /\ due' = [due EXCEPT ![task[c].of[2]] = Examples]
         /\ task'[c].step = "ask" /\ task'[c].of = task[c].of
  BY <1>1, <1>2 DEF OnlyOne, Finish, Goto, Idle, Tasks, Live
<1>4. Live \subseteq Live' /\ Live' \subseteq Live \cup Payments
  BY <1>1, <1>2 DEF Live
<1>5. QED
  BY <1>1, <1>2, <1>3, <1>4 DEF Silent, OnlyOne

LEMMA AskSellerNameStep ==
  ASSUME LifecycleInv, NEW c \in Consumers, AskSellerName(c)
  PROVE  /\ Silent /\ OnlyOne(c) /\ task[c].step = "ask" /\ task'[c].step = "list"
         /\ task'[c].of = task[c].of /\ due' = due /\ Live' = Live
<1>1. task \in [Workers -> Tasks(drawn)] /\ task[c] \in Tasks(drawn) /\ c \in Workers
  BY DEF LifecycleInv, TasksInv, Workers
<1>2. task[c].step = "ask" /\ UNCHANGED <<stored, exampleVars, broken>> /\ Goto(c, "list")
  BY DEF AskSellerName
<1>3. OnlyOne(c) /\ task'[c].step = "list" /\ task'[c].of = task[c].of
  BY <1>1, <1>2 DEF OnlyOne, Goto, Tasks
<1>4. QED
  BY <1>2, <1>3 DEF Silent, OnlyOne, exampleVars, Live

LEMMA ListExamplesStep ==
  ASSUME LifecycleInv, NEW c \in Consumers, ListExamples(c)
  PROVE  /\ OnlyOne(c) /\ task[c].step = "list" /\ UNCHANGED <<drawn, due, broken>> /\ Live' = Live
         /\ Note("found", Examples)
         /\ \/ Examples = {} /\ task'[c].step = "idle"
            \/ /\ Examples # {} /\ task'[c].step = "delete" /\ task'[c].ids = SetToSeq(Examples)
               /\ task'[c].of = task[c].of
<1>1. task \in [Workers -> Tasks(drawn)] /\ task[c] \in Tasks(drawn) /\ c \in Workers
  BY DEF LifecycleInv, TasksInv, Workers
<1>2. /\ task[c].step = "list" /\ UNCHANGED <<stored, drawn, due, broken>> /\ Note("found", Examples)
      /\ \/ Examples = {} /\ task' = [task EXCEPT ![c] = Idle]
         \/ Examples # {} /\
            task' = [task EXCEPT ![c].step = "delete", ![c].ids = SetToSeq(Examples)]
  BY DEF ListExamples, ToRemove, Finish
<1>3. \/ OnlyOne(c) /\ Examples = {} /\ task'[c].step = "idle"
      \/ /\ OnlyOne(c) /\ Examples # {} /\ task'[c].step = "delete"
         /\ task'[c].ids = SetToSeq(Examples) /\ task'[c].of = task[c].of
  BY <1>1, <1>2 DEF OnlyOne, Idle, Tasks
<1>4. QED
  BY <1>2, <1>3 DEF OnlyOne, Live

LEMMA RemoveExampleStep ==
  ASSUME LifecycleInv, NEW c \in Consumers, RemoveExample(c)
  PROVE  /\ OnlyOne(c) /\ task[c].step = "delete" /\ task'[c].step = "event"
         /\ task'[c].ids = task[c].ids /\ task'[c].of = task[c].of
         /\ Live' = Live \ {Head(task[c].ids)} /\ UNCHANGED <<drawn, log, due, broken>>
<1>1. task \in [Workers -> Tasks(drawn)] /\ task[c] \in Tasks(drawn) /\ c \in Workers
  BY DEF LifecycleInv, TasksInv, Workers
<1>2. /\ task[c].step = "delete" /\ Goto(c, "event") /\ UNCHANGED <<exampleVars, broken>>
      /\ Live' = Live \ {Head(task[c].ids)}
  BY DEF RemoveExample, Restrict, Live
<1>3. OnlyOne(c) /\ task'[c].step = "event" /\ task'[c].ids = task[c].ids /\ task'[c].of = task[c].of
  BY <1>1, <1>2 DEF OnlyOne, Goto, Tasks
<1>4. QED
  BY <1>2, <1>3 DEF exampleVars

LEMMA SendRemoveEventStep ==
  ASSUME LifecycleInv, NEW c \in Consumers, SendRemoveEvent(c)
  PROVE  /\ OnlyOne(c) /\ task[c].step = "event"
         /\ Note("remove", {Head(task[c].ids)})
         /\ Live' = Live /\ UNCHANGED <<drawn, due, broken>>
         /\ \/ /\ Len(task[c].ids) > 1 /\ task'[c].step = "delete" /\ task'[c].ids = Tail(task[c].ids)
               /\ task'[c].of = task[c].of
            \/ ~(Len(task[c].ids) > 1) /\ task'[c].step = "idle"
<1>1. task \in [Workers -> Tasks(drawn)] /\ task[c] \in Tasks(drawn) /\ c \in Workers
  BY DEF LifecycleInv, TasksInv, Workers
<1>2. /\ task[c].step = "event" /\ UNCHANGED <<stored, drawn, due, broken>>
      /\ Note("remove", {Head(task[c].ids)})
      /\ \/ Len(task[c].ids) > 1 /\
            task' = [task EXCEPT ![c].step = "delete", ![c].ids = Tail(@)]
         \/ ~(Len(task[c].ids) > 1) /\ task' = [task EXCEPT ![c] = Idle]
  BY DEF SendRemoveEvent, Finish
<1>3. \/ /\ OnlyOne(c) /\ Len(task[c].ids) > 1 /\ task'[c].step = "delete"
         /\ task'[c].ids = Tail(task[c].ids) /\ task'[c].of = task[c].of
      \/ OnlyOne(c) /\ ~(Len(task[c].ids) > 1) /\ task'[c].step = "idle"
  BY <1>1, <1>2 DEF OnlyOne, Idle, Tasks
<1>4. QED
  BY <1>2, <1>3 DEF Live

\* A handler fails, or its consumer goes down.
Breaks(w) == Break(w, "crash") \/ Break(w, "failure")

LEMMA BreakStep ==
  ASSUME LifecycleInv, NEW w \in Workers, Breaks(w)
  PROVE  /\ OnlyOne(w) /\ task'[w].step = "idle"
         /\ Live' = Live /\ UNCHANGED <<drawn, log, due>>
         /\ \E b : b.task = task[w] /\ Range(broken') = Range(broken) \cup {b}
<1>1. task \in [Workers -> Tasks(drawn)]
  BY DEF LifecycleInv, TasksInv
<1>2. OnlyOne(w) /\ task'[w].step = "idle" /\ Live' = Live /\ UNCHANGED <<drawn, log, due>>
  BY <1>1 DEF Breaks, Break, OnlyOne, Finish, Idle, exampleVars, Live
<1>3. PICK how \in {"crash", "failure"} : Break(w, how)
  BY DEF Breaks
<1>4. Range(broken') = Range(broken) \cup {[how |-> how, task |-> task[w]]}
  BY <1>3, RangeOfBroken
<1>5. QED
  BY <1>2, <1>4

LEMMA StepsOfNext ==
  ASSUME LifecycleInv, [Next]_vars
  PROVE  \/ Aside
         \/ \E w \in Workers : CreateExample(w) \/ SendAddEvent(w) \/ Breaks(w)
         \/ \E c \in Consumers : \/ CreatePayment(c) \/ AskSellerName(c)
                                 \/ ListExamples(c) \/ RemoveExample(c) \/ SendRemoveEvent(c)
  BY SilentSteps DEF Breaks, Crash, Fail, Workers

-----------------------------------------------------------------------------
(* What was removed stays removed.                                         *)

\* What is about to be announced as removed, or was, is gone.
RemovedInv ==
    /\ \A w \in Workers : task[w].step = "event" => Head(task[w].ids) \notin Live
    /\ \A u \in 1..drawn : Count("remove", log[u]) # 0 => u \notin Live

LEMMA StepKeepsRemoved ==
  ASSUME LifecycleInv, RemovedInv, [Next]_vars
  PROVE  /\ RemovedInv'
         /\ \A u \in 1..drawn : Count("remove", log[u]) # 0 => u \notin Live'
<1>1. /\ drawn \in Nat /\ Payments \cap Nat = {} /\ Live \subseteq Payments \cup 1..drawn
      /\ \A w \in Workers : TaskOk(w, task[w], drawn) /\ RestInv
      /\ 1..drawn \subseteq Uuids(drawn) /\ RestInv
  BY LifecycleAssumption DEF LifecycleInv, TasksInv, DocumentsInv, Uuids
<1>2. \A w \in Workers : task[w].step = "event" => Head(task[w].ids) \in 1..drawn
  BY <1>1, FirstUuids
<1>3. CASE Silent
  <2>1. \A u \in 1..drawn : u \in Live' => u \in Live
    BY <1>1, <1>3 DEF Silent
  <2>2. QED
    BY <1>1, <1>2, <1>3, <2>1 DEF Silent, RemovedInv
<1>4. ASSUME NEW w \in Workers, CreateExample(w)
      PROVE  RemovedInv' /\ \A u \in 1..drawn : Count("remove", log[u]) # 0 => u \notin Live'
  <2>1. /\ OnlyOne(w) /\ task'[w].step = "add" /\ drawn' = drawn + 1
        /\ Live' = Live \cup {drawn + 1}
        /\ \A u \in Uuids(drawn) : u # drawn + 1 => log'[u] = log[u]
        /\ log'[drawn + 1] = <<>>
    BY <1>4, CreateExampleStep
  <2>2. drawn + 1 \notin Payments /\ drawn + 1 \notin 1..drawn /\ 1..(drawn + 1) = 1..drawn \cup {drawn + 1}
    BY <1>1
  <2>3. Count("remove", <<>>) = 0
    BY NothingToCount
  <2>4. \A u \in 1..drawn : u \in Live' => u \in Live
    BY <2>1, <2>2
  <2>5. \A v \in Workers : task'[v].step = "event" => Head(task'[v].ids) \notin Live'
    BY <1>2, <2>1, <2>4 DEF OnlyOne, RemovedInv
  <2>6. \A u \in 1..drawn : log'[u] = log[u]
    BY <1>1, <2>1, <2>2
  <2>7. QED
    BY <2>1, <2>2, <2>3, <2>4, <2>5, <2>6 DEF RemovedInv
<1>5. ASSUME NEW w \in Workers, SendAddEvent(w)
      PROVE  RemovedInv' /\ \A u \in 1..drawn : Count("remove", log[u]) # 0 => u \notin Live'
  <2>1. /\ OnlyOne(w) /\ task'[w].step \in {"insert", "idle"}
        /\ Note("add", {task[w].ids[1]}) /\ drawn' = drawn /\ Live' = Live
    BY <1>5, SendAddEventStep
  <2>2. \A u \in 1..drawn : Count("remove", log'[u]) = Count("remove", log[u])
    BY <1>1, <2>1, NotingCounts DEF Kinds
  <2>3. QED
    BY <2>1, <2>2 DEF OnlyOne, RemovedInv
<1>6. ASSUME NEW c \in Consumers, ListExamples(c)
      PROVE  RemovedInv' /\ \A u \in 1..drawn : Count("remove", log[u]) # 0 => u \notin Live'
  <2>1. /\ OnlyOne(c) /\ task'[c].step \in {"delete", "idle"}
        /\ Note("found", Examples) /\ drawn' = drawn /\ Live' = Live
    BY <1>6, ListExamplesStep
  <2>2. \A u \in 1..drawn : Count("remove", log'[u]) = Count("remove", log[u])
    BY <1>1, <2>1, NotingCounts DEF Kinds
  <2>3. QED
    BY <2>1, <2>2 DEF OnlyOne, RemovedInv
<1>7. ASSUME NEW c \in Consumers, RemoveExample(c)
      PROVE  RemovedInv' /\ \A u \in 1..drawn : Count("remove", log[u]) # 0 => u \notin Live'
  BY <1>7, RemoveExampleStep DEF OnlyOne, RemovedInv
<1>8. ASSUME NEW c \in Consumers, SendRemoveEvent(c)
      PROVE  RemovedInv' /\ \A u \in 1..drawn : Count("remove", log[u]) # 0 => u \notin Live'
  <2>1. /\ OnlyOne(c) /\ task[c].step = "event" /\ task'[c].step \in {"delete", "idle"}
        /\ Note("remove", {Head(task[c].ids)}) /\ drawn' = drawn /\ Live' = Live
    BY <1>8, SendRemoveEventStep
  <2>2. Head(task[c].ids) \notin Live
    BY <2>1 DEF RemovedInv, OnlyOne
  <2>3. \A u \in 1..drawn : u # Head(task[c].ids) => Count("remove", log'[u]) = Count("remove", log[u])
    BY <1>1, <2>1, NotingCounts DEF Kinds
  <2>4. QED
    BY <2>1, <2>2, <2>3 DEF OnlyOne, RemovedInv
<1>9. ASSUME NEW w \in Workers, Breaks(w)
      PROVE  RemovedInv' /\ \A u \in 1..drawn : Count("remove", log[u]) # 0 => u \notin Live'
  BY <1>9, BreakStep DEF OnlyOne, RemovedInv
<1>10. QED
  BY <1>3, <1>4, <1>5, <1>6, <1>7, <1>8, <1>9, StepsOfNext, CreatePaymentStep, AskSellerNameStep
  DEF Aside

\* An example that the statistics heard is gone is not written back, whatever the
\* action on it that was under way.
THEOREM RemovedExamplesStayRemoved == Spec => RemovedStaysRemoved
<1>1. Init => RemovedInv
  BY DEF Init, RemovedInv, Idle
<1>2. LifecycleInv /\ RemovedInv /\ [Next]_vars => RemovedInv'
  BY StepKeepsRemoved
<1>3. ASSUME LifecycleInv, NEW u \in 1..drawn
      PROVE  "remove" \in Range(log[u]) <=> Count("remove", log[u]) # 0
  <2>1. log[u] \in Seq(Kinds)
    BY <1>3 DEF LifecycleInv, RestInv, Uuids
  <2>2. QED
    BY <2>1, CountsAndRanges
<1>4. LifecycleInv /\ RemovedInv /\ [Next]_vars =>
        [\A u \in 1..drawn : "remove" \in Range(log[u]) => u \notin DOMAIN stored']_vars
  BY <1>3, StepKeepsRemoved DEF Live
<1>5. QED
  BY <1>1, <1>2, <1>4, LifecycleInvariant, PTL DEF Spec, RemovedStaysRemoved

-----------------------------------------------------------------------------
(* The statistics know the examples.                                       *)

LEMMA AllOfTheSet ==
  ASSUME NEW S, IsFiniteSet(S)
  PROVE  SetToSeq(S) \in Seq(S) /\ Range(SetToSeq(S)) = S /\ IsInjective(SetToSeq(S))
<1>1. Cardinality(S) \in Nat /\ ExistsBijection(1..Cardinality(S), S)
  BY FS_CardinalityType
<1> DEFINE n == Cardinality(S)
<1>2. \E f \in [1..n -> S] : IsInjective(f)
  BY <1>1 DEF ExistsBijection, Bijection, Injection
<1>3. SetToSeq(S) \in [1..n -> S] /\ IsInjective(SetToSeq(S))
  BY <1>2 DEF SetToSeq
<1>4. SetToSeq(S) \in Injection(1..n, S)
  BY <1>3 DEF Injection
<1>5. IsFiniteSet(1..n) /\ Cardinality(1..n) = n
  BY <1>1, FS_Interval
<1>6. SetToSeq(S) \in Surjection(1..n, S)
  BY <1>4, <1>5, FS_Injection
<1>7. Range(SetToSeq(S)) = S
  BY <1>3, <1>6 DEF Surjection, Range
<1>8. QED
  BY <1>1, <1>3, <1>7

LEMMA RangesOfSequences ==
  ASSUME NEW S, NEW s \in Seq(S)
  PROVE  Range(s) \subseteq S
<1>1. s \in [1..Len(s) -> S]
  OBVIOUS
<1>2. QED
  BY <1>1 DEF Range

LEMMA RestOfRange ==
  ASSUME NEW S, NEW s \in Seq(S), s # <<>>
  PROVE  /\ Range(s) = {Head(s)} \cup Range(Tail(s))
         /\ ~(Len(s) > 1) => Range(Tail(s)) = {}
         /\ IsInjective(s) => IsInjective(Tail(s)) /\ Head(s) \notin Range(Tail(s))
<1>1. Len(s) \in Nat /\ Len(s) # 0 /\ s \in [1..Len(s) -> S] /\ Head(s) = s[1]
  OBVIOUS
<1>2. /\ Tail(s) \in Seq(S) /\ Len(Tail(s)) = Len(s) - 1
      /\ \A i \in 1..Len(Tail(s)) : Tail(s)[i] = s[i + 1]
  BY HeadTailProperties
<1>3. DOMAIN Tail(s) = 1..(Len(s) - 1)
  <2>1. DOMAIN Tail(s) = 1..Len(Tail(s))
    BY <1>2
  <2>2. QED
    BY <1>2, <2>1, Zenon
<1>4. ASSUME NEW u \in Range(s)
      PROVE  u = Head(s) \/ u \in Range(Tail(s))
  <2>1. PICK i \in 1..Len(s) : u = s[i]
    BY <1>1, <1>4 DEF Range
  <2>2. CASE i = 1
    BY <1>1, <2>1, <2>2
  <2>3. CASE i # 1
    <3>1. i - 1 \in 1..(Len(s) - 1) /\ (i - 1) + 1 = i
      BY <1>1, <2>3
    <3>2. Tail(s)[i - 1] = u
      BY <1>2, <2>1, <3>1, Zenon
    <3>3. i - 1 \in DOMAIN Tail(s)
      BY <1>3, <3>1, Zenon
    <3>4. QED
      BY <3>2, <3>3 DEF Range
  <2>4. QED
    BY <2>2, <2>3
<1>5. ASSUME ~(Len(s) > 1)
      PROVE  Range(Tail(s)) = {}
  <2>1. DOMAIN Tail(s) = {}
    BY <1>1, <1>3, <1>5
  <2>2. QED
    BY <2>1 DEF Range
\* The rest of the sequence, place by place.
<1>6. ASSUME NEW i \in DOMAIN Tail(s)
      PROVE  i \in Nat /\ i # 0 /\ i + 1 \in DOMAIN s /\ Tail(s)[i] = s[i + 1]
  <2>1. i \in 1..(Len(s) - 1)
    BY <1>3, <1>6, Zenon
  <2>2. i \in Nat /\ i # 0 /\ i + 1 \in DOMAIN s
    BY <1>1, <2>1
  <2>3. Tail(s)[i] = s[i + 1]
    BY <1>2, <2>1, Zenon
  <2>4. QED
    BY <2>2, <2>3
<1>7. Head(s) \in Range(s) /\ Range(Tail(s)) \subseteq Range(s)
  <2>1. Head(s) \in Range(s)
    BY <1>1 DEF Range
  <2>2. Range(Tail(s)) \subseteq Range(s)
    BY <1>6 DEF Range
  <2>3. QED
    BY <2>1, <2>2
<1>8. ASSUME IsInjective(s)
      PROVE  IsInjective(Tail(s)) /\ Head(s) \notin Range(Tail(s))
  <2>1. \A i, j \in DOMAIN s : s[i] = s[j] => i = j
    BY <1>8 DEF IsInjective
  <2>2. ASSUME NEW i \in DOMAIN Tail(s), NEW j \in DOMAIN Tail(s), Tail(s)[i] = Tail(s)[j]
        PROVE  i = j
    <3>1. s[i + 1] = s[j + 1] /\ i + 1 \in DOMAIN s /\ j + 1 \in DOMAIN s
      BY <1>6, <2>2
    <3>2. i + 1 = j + 1
      BY <2>1, <3>1, Zenon
    <3>3. QED
      BY <1>6, <3>2
  <2>3. ASSUME NEW i \in DOMAIN Tail(s), Tail(s)[i] = Head(s)
        PROVE  FALSE
    <3>1. s[i + 1] = s[1] /\ i + 1 \in DOMAIN s /\ 1 \in DOMAIN s /\ i \in Nat /\ i # 0
      BY <1>1, <1>6, <2>3
    <3>2. i + 1 = 1
      BY <2>1, <3>1, Zenon
    <3>3. QED
      BY <3>1, <3>2
  <2>4. QED
    BY <2>2, <2>3 DEF IsInjective, Range
<1>9. QED
  BY <1>4, <1>5, <1>7, <1>8

\* A worker is about to announce this example.
Adds(w, u) == task[w].step = "add" /\ task[w].ids[1] = u

\* The consumers that found this example and have still to announce its removal.
Removers(u) ==
    {c \in Consumers : task[c].step \in {"delete", "event"} /\ u \in Range(task[c].ids)}

\* Each example is announced by the worker that stored it, once.
AddOk(u) ==
    /\ Count("add", log[u]) <= 1
    /\ \A w \in Workers : Adds(w, u) => Count("add", log[u]) = 0
    /\ \A v, w \in Workers : Adds(v, u) /\ Adds(w, u) => v = w
    /\ Count("add", log[u]) = 1 \/ (\E w \in Workers : Adds(w, u)) \/ Spoiled(u)

\* Who finds an example announces its removal once, or breaks off.
RemoveOk(u) ==
    /\ Founded(log[u])
    /\ Count("remove", log[u]) + Cardinality(Removers(u)) <= Count("found", log[u])
    /\ Spoiled(u) \/ Count("found", log[u]) <= Count("remove", log[u]) + Cardinality(Removers(u))
    /\ u \notin Live => Count("found", log[u]) # 0

StatisticsInv ==
    /\ \A u \in 1..drawn : AddOk(u) /\ RemoveOk(u)
    /\ \A c \in Consumers : task[c].step \in {"delete", "event"} => IsInjective(task[c].ids)

LEMMA FiniteRemovers ==
  ASSUME NEW u
  PROVE  IsFiniteSet(Removers(u)) /\ Cardinality(Removers(u)) \in Nat
<1>1. IsFiniteSet(Removers(u))
  BY LifecycleAssumption, FS_Subset DEF Removers
<1>2. QED
  BY <1>1, FS_CardinalityType

LEMMA AddsStay ==
  ASSUME NEW u, AddOk(u), Count("add", log'[u]) = Count("add", log[u]), broken' = broken,
         \A w \in Workers : Adds(w, u)' <=> Adds(w, u)
  PROVE  AddOk(u)'
  BY DEF AddOk, Spoiled

LEMMA RemovalsStay ==
  ASSUME NEW u, RemoveOk(u), broken' = broken, Removers(u)' = Removers(u),
         Founded(log[u]) => Founded(log'[u]), u \in Live => u \in Live',
         Count("found", log'[u]) = Count("found", log[u]),
         Count("remove", log'[u]) = Count("remove", log[u])
  PROVE  RemoveOk(u)'
  BY DEF RemoveOk, Spoiled

\* The log and the first uuid of a worker are as the types say.
LEMMA LogTypes ==
  ASSUME LifecycleInv
  PROVE  /\ drawn \in Nat /\ 1..drawn \subseteq Uuids(drawn) /\ RestInv
         /\ \A w \in Workers : TaskOk(w, task[w], drawn)
         /\ \A u \in 1..drawn : log[u] \in Seq(Kinds)
                /\ \A kind : Count(kind, log[u]) \in Nat
<1>1. /\ drawn \in Nat /\ 1..drawn \subseteq Uuids(drawn) /\ RestInv
      /\ \A w \in Workers : TaskOk(w, task[w], drawn)
  BY DEF LifecycleInv, TasksInv, Uuids
<1>2. \A u \in 1..drawn : log[u] \in Seq(Kinds)
  BY <1>1 DEF RestInv
<1>3. QED
  BY <1>1, <1>2, CountsAndRanges

LEMMA SilenceKeepsStatistics ==
  ASSUME LifecycleInv, StatisticsInv, Silent
  PROVE  StatisticsInv'
<1>1. drawn' = drawn /\ broken' = broken /\ 1..drawn \subseteq Uuids(drawn)
  BY LogTypes DEF Silent
<1>2. \A w \in Workers : task'[w] = task[w] \/
          (/\ task[w].step \notin {"add", "delete", "event"}
           /\ task'[w].step \notin {"add", "delete", "event"})
  BY DEF Silent
<1>3. ASSUME NEW u \in 1..drawn
      PROVE  AddOk(u)' /\ RemoveOk(u)'
  <2>1. /\ \A w \in Workers : Adds(w, u)' <=> Adds(w, u)
        /\ Removers(u)' = Removers(u)
    BY <1>2 DEF Adds, Removers, Workers
  <2>2. /\ \A kind \in {"add", "found", "remove"} : Count(kind, log'[u]) = Count(kind, log[u])
        /\ Founded(log[u]) => Founded(log'[u])
        /\ Live \subseteq Live'
    BY <1>1 DEF Silent
  <2>3. QED
    BY <1>1, <2>1, <2>2, AddsStay, RemovalsStay DEF StatisticsInv
<1>4. QED
  BY <1>1, <1>2, <1>3 DEF StatisticsInv, Workers

LEMMA CreatingKeepsStatistics ==
  ASSUME LifecycleInv, StatisticsInv, NEW w \in Workers, CreateExample(w)
  PROVE  StatisticsInv'
<1>1. /\ OnlyOne(w) /\ task[w].step = "insert"
      /\ task'[w].step = "add" /\ task'[w].ids[1] = drawn + 1
      /\ drawn' = drawn + 1 /\ Live' = Live \cup {drawn + 1} /\ broken' = broken
      /\ \A u \in Uuids(drawn) : u # drawn + 1 => log'[u] = log[u]
      /\ log'[drawn + 1] = <<>>
  BY CreateExampleStep
<1>2. /\ drawn \in Nat /\ 1..drawn \subseteq Uuids(drawn)
      /\ \A v \in Workers : TaskOk(v, task[v], drawn)
  BY LogTypes
<1>3. 1..(drawn + 1) = 1..drawn \cup {drawn + 1} /\ drawn + 1 \notin 1..drawn
  BY <1>2
<1>4. \A u \in 1..drawn : log'[u] = log[u]
  BY <1>1, <1>2, <1>3
<1>5. \A u : Removers(u)' = Removers(u)
  BY <1>1 DEF OnlyOne, Removers, Workers
<1>6. ASSUME NEW u \in 1..drawn
      PROVE  AddOk(u)' /\ RemoveOk(u)'
  <2>1. \A v \in Workers : Adds(v, u)' <=> Adds(v, u)
    BY <1>1, <1>3 DEF OnlyOne, Adds
  <2>2. QED
    BY <1>1, <1>4, <1>5, <2>1, AddsStay, RemovalsStay DEF StatisticsInv
<1>7. ASSUME NEW u, u = drawn + 1
      PROVE  AddOk(u)' /\ RemoveOk(u)'
  <2>1. Founded(log'[u]) /\ \A kind : Count(kind, log'[u]) = 0
    BY <1>1, <1>7, NothingToCount
  <2>2. \A v \in Workers : Adds(v, u)' <=> v = w
    <3>1. \A v \in Workers : ~Adds(v, u)
      <4>1. ASSUME NEW v \in Workers, task[v].step = "add"
            PROVE  task[v].ids[1] \in 1..drawn
        BY <1>2, <4>1, FirstUuids
      <4>2. QED
        BY <1>3, <1>7, <4>1 DEF Adds
    <3>2. QED
      BY <1>1, <1>7, <3>1 DEF OnlyOne, Adds
  <2>3. Removers(u) = {}
    <3>1. ASSUME NEW c \in Consumers, task[c].step \in {"delete", "event"}
          PROVE  u \notin Range(task[c].ids)
      <4>1. task[c].ids \in Seq(1..drawn)
        BY <1>2, <3>1 DEF TaskOk, Workers
      <4>2. Range(task[c].ids) \subseteq 1..drawn
        BY <4>1, RangesOfSequences
      <4>3. QED
        BY <1>3, <1>7, <4>2
    <3>2. QED
      BY <3>1 DEF Removers
  <2>4. Cardinality(Removers(u)') = 0
    BY <1>5, <2>3, FS_EmptySet
  <2>5. u \in Live'
    BY <1>1, <1>7
  <2>6. AddOk(u)'
    BY <2>1, <2>2 DEF AddOk
  <2>7. RemoveOk(u)'
    BY <2>1, <2>4, <2>5 DEF RemoveOk
  <2>8. QED
    BY <2>6, <2>7
<1>8. \A c \in Consumers : task'[c].step \in {"delete", "event"} => IsInjective(task'[c].ids)
  BY <1>1 DEF OnlyOne, StatisticsInv, Workers
<1>9. QED
  BY <1>1, <1>3, <1>6, <1>7, <1>8 DEF StatisticsInv

LEMMA AddingKeepsStatistics ==
  ASSUME LifecycleInv, StatisticsInv, NEW w \in Workers, SendAddEvent(w)
  PROVE  StatisticsInv'
<1>1. /\ OnlyOne(w) /\ task[w].step = "add" /\ task'[w].step \in {"insert", "idle"}
      /\ Note("add", {task[w].ids[1]})
      /\ drawn' = drawn /\ broken' = broken /\ Live' = Live
  BY SendAddEventStep
<1>2. \A u : Removers(u)' = Removers(u)
  BY <1>1 DEF OnlyOne, Removers, Workers
<1>3. ASSUME NEW u \in 1..drawn
      PROVE  AddOk(u)' /\ RemoveOk(u)'
  <2>1. u \in Uuids(drawn) /\ RestInv /\ Count("add", log[u]) \in Nat
    BY LogTypes
  <2>2. /\ Count("add", log'[u]) =
              IF u = task[w].ids[1] THEN Count("add", log[u]) + 1 ELSE Count("add", log[u])
        /\ Count("found", log'[u]) = Count("found", log[u])
        /\ Count("remove", log'[u]) = Count("remove", log[u])
        /\ Founded(log[u]) => Founded(log'[u])
    BY <1>1, <2>1, NotingCounts DEF Kinds
  <2>3. RemoveOk(u)'
    BY <1>1, <1>2, <2>2, RemovalsStay DEF StatisticsInv
  <2>4. AddOk(u)
    BY DEF StatisticsInv
  <2>5. CASE u = task[w].ids[1]
    <3>1. Adds(w, u)
      BY <1>1, <2>5 DEF Adds
    <3>2. Count("add", log'[u]) = 1
      BY <1>1, <2>1, <2>2, <2>4, <2>5, <3>1 DEF AddOk
    <3>3. \A v \in Workers : ~Adds(v, u)'
      <4>1. \A v \in Workers : Adds(v, u)' => v # w /\ Adds(v, u)
        BY <1>1 DEF OnlyOne, Adds
      <4>2. QED
        BY <2>4, <3>1, <4>1 DEF AddOk
    <3>4. QED
      BY <2>3, <3>2, <3>3 DEF AddOk
  <2>6. CASE u # task[w].ids[1]
    <3>1. \A v \in Workers : Adds(v, u)' <=> Adds(v, u)
      BY <1>1, <2>6 DEF OnlyOne, Adds
    <3>2. QED
      BY <1>1, <2>2, <2>3, <2>4, <2>6, <3>1, AddsStay
  <2>7. QED
    BY <2>5, <2>6
<1>4. \A c \in Consumers : task'[c].step \in {"delete", "event"} => IsInjective(task'[c].ids)
  BY <1>1 DEF OnlyOne, StatisticsInv, Workers
<1>5. QED
  BY <1>1, <1>3, <1>4 DEF StatisticsInv

LEMMA ListingKeepsStatistics ==
  ASSUME LifecycleInv, StatisticsInv, NEW c \in Consumers, ListExamples(c)
  PROVE  StatisticsInv'
<1>1. /\ OnlyOne(c) /\ task[c].step = "list" /\ drawn' = drawn /\ broken' = broken /\ Live' = Live
      /\ Note("found", Examples)
      /\ \/ Examples = {} /\ task'[c].step = "idle"
         \/ Examples # {} /\ task'[c].step = "delete" /\ task'[c].ids = SetToSeq(Examples)
  BY ListExamplesStep
<1>2. IsFiniteSet(Examples)
  BY ExamplesAreDrawn DEF LifecycleInv
<1>3. ASSUME NEW u \in 1..drawn
      PROVE  AddOk(u)' /\ RemoveOk(u)'
  <2>1. /\ u \in Uuids(drawn) /\ RestInv
        /\ Count("found", log[u]) \in Nat /\ Count("remove", log[u]) \in Nat
    BY LogTypes
  <2>2. /\ Count("add", log'[u]) = Count("add", log[u])
        /\ Count("found", log'[u]) =
              IF u \in Examples THEN Count("found", log[u]) + 1 ELSE Count("found", log[u])
        /\ Count("remove", log'[u]) = Count("remove", log[u])
        /\ Founded(log[u]) => Founded(log'[u])
    BY <1>1, <2>1, NotingCounts DEF Kinds
  <2>3. AddOk(u) /\ RemoveOk(u)
    BY DEF StatisticsInv
  <2>4. \A v \in Workers : Adds(v, u)' <=> Adds(v, u)
    BY <1>1 DEF OnlyOne, Adds
  <2>5. AddOk(u)'
    BY <1>1, <2>2, <2>3, <2>4, AddsStay
  <2>6. CASE u \in Examples
    <3>1. task'[c].step = "delete" /\ u \in Range(task'[c].ids)
      BY <1>1, <1>2, <2>6, AllOfTheSet
    <3>2. Removers(u)' = Removers(u) \cup {c} /\ c \notin Removers(u)
      BY <1>1, <3>1 DEF OnlyOne, Removers, Workers
    <3>3. Cardinality(Removers(u)') = Cardinality(Removers(u)) + 1
      BY <3>2, FiniteRemovers, FS_AddElement
    <3>4. Cardinality(Removers(u)) \in Nat
      BY FiniteRemovers
    <3>5. Spoiled(u)' <=> Spoiled(u)
      BY <1>1 DEF Spoiled
    <3>6. QED
      BY <1>1, <2>1, <2>2, <2>3, <2>5, <2>6, <3>3, <3>4, <3>5 DEF RemoveOk
  <2>7. CASE u \notin Examples
    <3>1. Removers(u)' = Removers(u)
      <4>1. c \notin Removers(u)
        BY <1>1 DEF Removers
      <4>2. task'[c].step = "idle" \/ u \notin Range(task'[c].ids)
        BY <1>1, <1>2, <2>7, AllOfTheSet
      <4>3. c \notin Removers(u)'
        BY <4>2 DEF Removers
      <4>4. \A d \in Consumers \ {c} : d \in Removers(u)' <=> d \in Removers(u)
        BY <1>1 DEF OnlyOne, Removers, Workers
      <4>5. Removers(u) \subseteq Consumers /\ Removers(u)' \subseteq Consumers
        BY DEF Removers
      <4>6. QED
        BY <4>1, <4>3, <4>4, <4>5
    <3>2. QED
      BY <1>1, <2>2, <2>3, <2>5, <2>7, <3>1, RemovalsStay
  <2>8. QED
    BY <2>6, <2>7
<1>4. \A d \in Consumers : task'[d].step \in {"delete", "event"} => IsInjective(task'[d].ids)
  BY <1>1, <1>2, AllOfTheSet DEF OnlyOne, StatisticsInv, Workers
<1>5. QED
  BY <1>1, <1>3, <1>4 DEF StatisticsInv

LEMMA DeletingKeepsStatistics ==
  ASSUME LifecycleInv, StatisticsInv, NEW c \in Consumers, RemoveExample(c)
  PROVE  StatisticsInv'
<1>1. /\ OnlyOne(c) /\ task[c].step = "delete" /\ task'[c].step = "event"
      /\ task'[c].ids = task[c].ids /\ Live' = Live \ {Head(task[c].ids)}
      /\ drawn' = drawn /\ log' = log /\ broken' = broken
  BY RemoveExampleStep
<1>2. \A u : Removers(u)' = Removers(u)
  BY <1>1 DEF OnlyOne, Removers, Workers
<1>3. ASSUME NEW u \in 1..drawn
      PROVE  AddOk(u)' /\ RemoveOk(u)'
  <2>1. AddOk(u) /\ RemoveOk(u)
    BY DEF StatisticsInv
  <2>2. \A v \in Workers : Adds(v, u)' <=> Adds(v, u)
    BY <1>1 DEF OnlyOne, Adds
  <2>3. AddOk(u)'
    BY <1>1, <2>1, <2>2, AddsStay
  <2>4. CASE u # Head(task[c].ids)
    BY <1>1, <1>2, <2>1, <2>3, <2>4, RemovalsStay
  <2>5. CASE u = Head(task[c].ids)
    <3>1. task[c].ids \in Seq(1..drawn) /\ task[c].ids # <<>>
      BY <1>1, LogTypes DEF TaskOk, OnlyOne
    <3>2. u \in Range(task[c].ids)
      BY <2>5, <3>1, RestOfRange
    <3>3. c \in Removers(u)
      BY <1>1, <3>2 DEF Removers
    <3>4. Cardinality(Removers(u)) \in Nat /\ Cardinality(Removers(u)) # 0
      BY <3>3, FiniteRemovers, FS_EmptySet
    <3>5. Count("found", log[u]) # 0
      <4>1. Count("found", log[u]) \in Nat /\ Count("remove", log[u]) \in Nat
        BY LogTypes
      <4>2. QED
        BY <2>1, <3>4, <4>1 DEF RemoveOk
    <3>6. QED
      BY <1>1, <1>2, <2>1, <2>3, <3>5 DEF RemoveOk, Spoiled
  <2>6. QED
    BY <2>4, <2>5
<1>4. \A d \in Consumers : task'[d].step \in {"delete", "event"} => IsInjective(task'[d].ids)
  BY <1>1 DEF OnlyOne, StatisticsInv, Workers
<1>5. QED
  BY <1>1, <1>3, <1>4 DEF StatisticsInv

LEMMA AnnouncingKeepsStatistics ==
  ASSUME LifecycleInv, StatisticsInv, NEW c \in Consumers, SendRemoveEvent(c)
  PROVE  StatisticsInv'
<1> DEFINE ids == task[c].ids
<1>1. /\ OnlyOne(c) /\ task[c].step = "event" /\ Note("remove", {Head(ids)})
      /\ Live' = Live /\ drawn' = drawn /\ broken' = broken
      /\ \/ Len(ids) > 1 /\ task'[c].step = "delete" /\ task'[c].ids = Tail(ids)
         \/ ~(Len(ids) > 1) /\ task'[c].step = "idle"
  BY SendRemoveEventStep
<1>2. ids \in Seq(1..drawn) /\ ids # <<>> /\ IsInjective(ids)
  BY <1>1, LogTypes DEF TaskOk, OnlyOne, StatisticsInv
<1>3. /\ Range(ids) = {Head(ids)} \cup Range(Tail(ids)) /\ Head(ids) \notin Range(Tail(ids))
      /\ ~(Len(ids) > 1) => Range(Tail(ids)) = {}
      /\ IsInjective(Tail(ids))
  BY <1>2, RestOfRange
<1>4. ASSUME NEW u
      PROVE  Removers(u)' = IF u = Head(ids) THEN Removers(u) \ {c} ELSE Removers(u)
  <2>1. c \in Removers(u) <=> u \in Range(ids)
    BY <1>1 DEF Removers
  <2>2. c \in Removers(u)' <=> u \in Range(Tail(ids))
    BY <1>1, <1>3 DEF Removers
  <2>3. \A d \in Consumers \ {c} : d \in Removers(u)' <=> d \in Removers(u)
    BY <1>1 DEF OnlyOne, Removers, Workers
  <2>4. Removers(u) \subseteq Consumers /\ Removers(u)' \subseteq Consumers
    BY DEF Removers
  <2> HIDE DEF ids
  <2>5. QED
    BY <1>3, <2>1, <2>2, <2>3, <2>4
<1>5. ASSUME NEW u \in 1..drawn
      PROVE  AddOk(u)' /\ RemoveOk(u)'
  <2>1. /\ u \in Uuids(drawn) /\ RestInv /\ log[u] \in Seq(Kinds)
        /\ Count("found", log[u]) \in Nat /\ Count("remove", log[u]) \in Nat
    BY LogTypes
  <2>2. AddOk(u) /\ RemoveOk(u)
    BY DEF StatisticsInv
  <2>3. /\ Count("add", log'[u]) = Count("add", log[u])
        /\ Count("found", log'[u]) = Count("found", log[u])
        /\ Count("remove", log'[u]) =
              IF u = Head(ids) THEN Count("remove", log[u]) + 1 ELSE Count("remove", log[u])
        /\ (Founded(log[u]) /\ (u = Head(ids) => "found" \in Range(log[u]))) => Founded(log'[u])
    <3> HIDE DEF ids
    <3>1. "remove" \in Kinds /\ (u \in {Head(ids)} <=> u = Head(ids))
      BY DEF Kinds
    <3>2. /\ \A kind : Count(kind, log'[u]) =
                IF kind = "remove" /\ u \in {Head(ids)}
                THEN Count(kind, log[u]) + 1 ELSE Count(kind, log[u])
          /\ Founded(log[u]) /\ ("remove" = "remove" /\ u \in {Head(ids)} =>
                "found" \in Range(log[u])) => Founded(log'[u])
      BY <1>1, <2>1, <3>1, NotingCounts
    <3>3. QED
      BY <3>1, <3>2
  <2>4. \A v \in Workers : Adds(v, u)' <=> Adds(v, u)
    BY <1>1 DEF OnlyOne, Adds
  <2>5. AddOk(u)'
    BY <1>1, <2>2, <2>3, <2>4, AddsStay
  <2>6. CASE u # Head(ids)
    BY <1>1, <1>4, <2>2, <2>3, <2>5, <2>6, RemovalsStay DEF RemoveOk
  <2>7. CASE u = Head(ids)
    <3>1. c \in Removers(u)
      BY <1>1, <1>3, <2>7 DEF Removers
    <3>2. Cardinality(Removers(u)') = Cardinality(Removers(u)) - 1
          /\ Cardinality(Removers(u)) \in Nat /\ Cardinality(Removers(u)) # 0
      <4>1. Removers(u)' = Removers(u) \ {c}
        BY <1>4, <2>7
      <4>2. Cardinality(Removers(u) \ {c}) = Cardinality(Removers(u)) - 1
        BY <3>1, FiniteRemovers, FS_RemoveElement
      <4>3. Cardinality(Removers(u)) # 0
        BY <3>1, FiniteRemovers, FS_EmptySet
      <4>4. QED
        BY <4>1, <4>2, <4>3, FiniteRemovers
    <3>3. "found" \in Range(log[u])
      BY <2>1, <2>2, <3>2, CountsAndRanges DEF RemoveOk
    <3>4. Spoiled(u)' <=> Spoiled(u)
      BY <1>1 DEF Spoiled
    <3> HIDE DEF ids
    <3>5. RemoveOk(u)'
      BY <1>1, <2>1, <2>2, <2>3, <2>7, <3>2, <3>3, <3>4 DEF RemoveOk
    <3>6. QED
      BY <2>5, <3>5
  <2>8. QED
    BY <2>6, <2>7
<1>6. \A d \in Consumers : task'[d].step \in {"delete", "event"} => IsInjective(task'[d].ids)
  BY <1>1, <1>3 DEF OnlyOne, StatisticsInv, Workers
<1>7. QED
  BY <1>1, <1>5, <1>6 DEF StatisticsInv

LEMMA BreakingKeepsStatistics ==
  ASSUME LifecycleInv, StatisticsInv, NEW w \in Workers, Breaks(w)
  PROVE  StatisticsInv'
<1>1. /\ OnlyOne(w) /\ task'[w].step = "idle" /\ Live' = Live /\ drawn' = drawn /\ log' = log
  BY BreakStep
<1>2. PICK b : b.task = task[w] /\ Range(broken') = Range(broken) \cup {b}
  BY BreakStep
<1>3. \A u : \/ Spoiled(u)
             \/ task[w].step \in {"add", "delete", "event"} /\ u \in Range(task[w].ids)
          => Spoiled(u)'
  BY <1>2 DEF Spoiled
<1>4. ASSUME NEW u \in 1..drawn
      PROVE  AddOk(u)' /\ RemoveOk(u)'
  <2>1. AddOk(u) /\ RemoveOk(u)
    BY DEF StatisticsInv
  <2>2. \A v \in Workers : Adds(v, u)' <=> v # w /\ Adds(v, u)
    BY <1>1 DEF OnlyOne, Adds
  <2>3. Adds(w, u) => Spoiled(u)'
    <3>1. ASSUME Adds(w, u)
          PROVE  u \in Range(task[w].ids)
      <4>1. task[w].ids \in Seq(1..drawn) /\ task[w].ids # <<>> /\ Head(task[w].ids) = u
        BY <3>1, LogTypes, FirstUuids DEF Adds, TaskOk
      <4>2. QED
        BY <4>1, RestOfRange
    <3>2. QED
      BY <1>3, <3>1 DEF Adds
  <2>4. AddOk(u)'
    BY <1>1, <1>3, <2>1, <2>2, <2>3 DEF AddOk
  <2>5. Removers(u)' = Removers(u) \ {w}
    BY <1>1 DEF OnlyOne, Removers, Workers
  <2>6. CASE w \in Removers(u)
    <3>1. Spoiled(u)'
      BY <1>3, <2>6 DEF Removers
    <3>2. Cardinality(Removers(u)') = Cardinality(Removers(u)) - 1
      BY <2>5, <2>6, FiniteRemovers, FS_RemoveElement
    <3>3. /\ Cardinality(Removers(u)) \in Nat
          /\ Count("found", log[u]) \in Nat /\ Count("remove", log[u]) \in Nat
      BY FiniteRemovers, LogTypes
    <3>4. RemoveOk(u)'
      BY <1>1, <2>1, <3>1, <3>2, <3>3 DEF RemoveOk
    <3>5. QED
      BY <2>4, <3>4
  <2>7. CASE w \notin Removers(u)
    <3>1. Removers(u)' = Removers(u)
      BY <2>5, <2>7
    <3>2. RemoveOk(u)'
      BY <1>1, <1>3, <2>1, <3>1 DEF RemoveOk
    <3>3. QED
      BY <2>4, <3>2
  <2>8. QED
    BY <2>6, <2>7
<1>5. \A d \in Consumers : task'[d].step \in {"delete", "event"} => IsInjective(task'[d].ids)
  BY <1>1 DEF OnlyOne, StatisticsInv, Workers
<1>6. QED
  BY <1>1, <1>4, <1>5 DEF StatisticsInv

\* Of each example: the statistics hear once that it is there, and of its removal, after
\* a handler found it, as often as handlers found it, unless one that dealt with it broke
\* off; and it is gone exactly if one found it.
THEOREM StatisticsAreComplete == Spec => []StatisticsKnowExamples
<1>1. Init => RemovedInv /\ StatisticsInv
  BY DEF Init, RemovedInv, StatisticsInv, Idle, Workers
<1>2. LifecycleInv /\ RemovedInv /\ StatisticsInv /\ [Next]_vars => (RemovedInv /\ StatisticsInv)'
  BY StepKeepsRemoved, SilenceKeepsStatistics, CreatingKeepsStatistics, AddingKeepsStatistics,
     ListingKeepsStatistics, DeletingKeepsStatistics, AnnouncingKeepsStatistics,
     BreakingKeepsStatistics, StepsOfNext, CreatePaymentStep, AskSellerNameStep DEF Aside
<1>3. ASSUME LifecycleInv, RemovedInv, StatisticsInv
      PROVE  StatisticsKnowExamples
  <2>1. ASSUME NEW u \in 1..drawn
        PROVE  /\ Times("add", u) <= 1
               /\ Times("remove", u) <= Times("found", u)
               /\ \A i \in DOMAIN log[u] : log[u][i] = "remove" =>
                    u \notin Live /\ \E j \in 1..(i - 1) : log[u][j] = "found"
               /\ Quiet /\ ~Spoiled(u) =>
                    /\ Times("add", u) = 1
                    /\ Times("remove", u) = Times("found", u)
                    /\ u \in Live <=> Times("found", u) = 0
    <3>1. \A kind : Times(kind, u) = Count(kind, log[u]) /\ Count(kind, log[u]) \in Nat
      BY <1>3, LogTypes DEF Times, Count
    <3>2. AddOk(u) /\ RemoveOk(u) /\ Cardinality(Removers(u)) \in Nat
      BY <1>3, FiniteRemovers DEF StatisticsInv
    <3>3. ASSUME NEW i \in DOMAIN log[u], log[u][i] = "remove"
          PROVE  u \notin Live /\ \E j \in 1..(i - 1) : log[u][j] = "found"
      <4>1. "remove" \in Range(log[u]) /\ log[u] \in Seq(Kinds)
        BY <1>3, <3>3, LogTypes DEF Range
      <4>2. Count("remove", log[u]) # 0
        BY <4>1, CountsAndRanges
      <4>3. QED
        BY <1>3, <3>2, <3>3, <4>2 DEF RemovedInv, RemoveOk, Founded
    <3>4. ASSUME Quiet, ~Spoiled(u)
          PROVE  /\ Count("add", log[u]) = 1
                 /\ Count("remove", log[u]) = Count("found", log[u])
                 /\ u \in Live <=> Count("found", log[u]) = 0
      <4>1. \A w \in Workers : task[w].step = "idle"
        BY <3>4 DEF Quiet, Idle
      <4>2. Removers(u) = {} /\ \A w \in Workers : ~Adds(w, u)
        BY <4>1 DEF Removers, Adds, Workers
      <4>3. Cardinality(Removers(u)) = 0
        BY <4>2, FS_EmptySet
      <4>4. Count("add", log[u]) = 1
        BY <3>2, <3>4, <4>2 DEF AddOk
      <4>5. Count("remove", log[u]) = Count("found", log[u])
        BY <3>1, <3>2, <3>4, <4>3 DEF RemoveOk
      <4>6. u \in Live <=> Count("found", log[u]) = 0
        BY <1>3, <3>2, <4>5 DEF RemoveOk, RemovedInv
      <4>7. QED
        BY <4>4, <4>5, <4>6
    <3>5. /\ Count("add", log[u]) <= 1
          /\ Count("remove", log[u]) <= Count("found", log[u])
      BY <3>1, <3>2 DEF AddOk, RemoveOk
    <3>6. QED
      BY <3>1, <3>3, <3>4, <3>5
  <2>2. QED
    BY <2>1 DEF StatisticsKnowExamples
<1>4. QED
  BY <1>1, <1>2, <1>3, LifecycleInvariant, PTL DEF Spec

-----------------------------------------------------------------------------
(* Payments clear the examples that were there.                            *)

\* A consumer still has to look for the examples, or has this one to remove.
Clears(c, u) ==
    \/ task[c].step \in {"ask", "list"}
    \/ task[c].step = "delete" /\ u \in Range(task[c].ids)
    \/ task[c].step = "event" /\ u \in Range(Tail(task[c].ids))

\* The consumer that handles this payment clears the example.
ClearsFor(c, p, u) == task[c].of = <<"payment", p>> /\ Clears(c, u)

BrokeOff(p) == \E b \in Range(broken) : b.task.of = <<"payment", p>>

ClearingInv ==
    \A p \in Payments :
        /\ Count("remove", log[p]) = 0
        /\ BrokeOff(p) \/ \A u \in due[p] \cap Live : \E c \in Consumers : ClearsFor(c, p, u)

\* What clears goes on to clear, when no example is found, removed or announced.
LEMMA ClearingGoesOn ==
  ASSUME ClearingInv, broken' = broken, due' = due,
         \A p \in Payments : due[p] \cap Live' \subseteq due[p] \cap Live,
         \A p \in Payments : Count("remove", log'[p]) = Count("remove", log[p]),
         \A c \in Consumers, p \in Payments : \A u :
             ClearsFor(c, p, u) => u \notin Live' \/ ClearsFor(c, p, u)'
  PROVE  ClearingInv'
  BY DEF ClearingInv, BrokeOff

LEMMA ClearingTypes ==
  ASSUME LifecycleInv
  PROVE  /\ drawn \in Nat /\ Payments \cap Nat = {} /\ Payments \subseteq Uuids(drawn) /\ RestInv
         /\ due \in [Payments -> SUBSET (1..drawn)] /\ IsFiniteSet(Live)
         /\ \A u \in Live : stored[u].example <=> u \notin Payments
         /\ \A w \in Workers : TaskOk(w, task[w], drawn)
  BY LifecycleAssumption DEF LifecycleInv, TasksInv, DocumentsInv, RestInv, Uuids

LEMMA PaymentKeepsClearing ==
  ASSUME LifecycleInv, ClearingInv, NEW c \in Consumers, CreatePayment(c)
  PROVE  ClearingInv'
<1>1. /\ Silent /\ OnlyOne(c) /\ task[c].step = "create"
      /\ \/ due' = due /\ Live' = Live
         \/ /\ due' = [due EXCEPT ![task[c].of[2]] = Examples]
            /\ task'[c].step = "ask" /\ task'[c].of = <<"payment", task[c].of[2]>>
  BY CreatePaymentStep
<1>2. \A d \in Consumers, p \in Payments : \A u : ClearsFor(d, p, u) => ClearsFor(d, p, u)'
  BY <1>1 DEF OnlyOne, ClearsFor, Clears, Workers
<1>3. broken' = broken /\ Live \subseteq Live' /\ Live' \subseteq Live \cup Payments
  BY <1>1 DEF Silent
<1>4. \A p \in Payments : Count("remove", log'[p]) = Count("remove", log[p])
  BY <1>1, ClearingTypes DEF Silent
<1>5. \A p \in Payments : due[p] \cap Live' \subseteq due[p] \cap Live
  BY <1>3, ClearingTypes
<1>6. CASE due' = due
  BY <1>2, <1>3, <1>4, <1>5, <1>6, ClearingGoesOn
<1>7. CASE /\ due' = [due EXCEPT ![task[c].of[2]] = Examples]
           /\ task'[c].step = "ask" /\ task'[c].of = <<"payment", task[c].of[2]>>
  <2>1. ASSUME NEW p \in Payments
        PROVE  BrokeOff(p)' \/ \A u \in due'[p] \cap Live' : \E d \in Consumers : ClearsFor(d, p, u)'
    <3>1. CASE p = task[c].of[2]
      BY <1>7, <3>1 DEF ClearsFor, Clears
    <3>2. CASE p # task[c].of[2]
      <4>1. due'[p] = due[p]
        BY <1>7, <3>2, ClearingTypes
      <4>2. BrokeOff(p)' <=> BrokeOff(p)
        BY <1>3 DEF BrokeOff
      <4>3. QED
        BY <1>2, <1>5, <4>1, <4>2 DEF ClearingInv
    <3>3. QED
      BY <3>1, <3>2
  <2>2. QED
    BY <1>4, <2>1 DEF ClearingInv
<1>8. QED
  BY <1>1, <1>6, <1>7

LEMMA ListingKeepsClearing ==
  ASSUME LifecycleInv, ClearingInv, NEW c \in Consumers, ListExamples(c)
  PROVE  ClearingInv'
<1>1. /\ OnlyOne(c) /\ task[c].step = "list" /\ due' = due /\ broken' = broken /\ Live' = Live
      /\ Note("found", Examples)
      /\ \/ Examples = {}
         \/ /\ task'[c].step = "delete" /\ task'[c].ids = SetToSeq(Examples)
            /\ task'[c].of = task[c].of
  BY ListExamplesStep
<1>2. \A p \in Payments : Count("remove", log'[p]) = Count("remove", log[p])
  BY <1>1, ClearingTypes, NotingCounts DEF Kinds
<1>3. \A p \in Payments : due[p] \cap Live \subseteq Examples
  BY ClearingTypes DEF Examples
<1>4. IsFiniteSet(Examples)
  BY ClearingTypes, FS_Subset DEF Examples
<1>5. CASE Examples = {}
  BY <1>1, <1>2, <1>3, <1>5 DEF ClearingInv
<1>6. CASE /\ task'[c].step = "delete" /\ task'[c].ids = SetToSeq(Examples)
           /\ task'[c].of = task[c].of
  <2>1. Range(task'[c].ids) = Examples
    BY <1>4, <1>6, AllOfTheSet
  <2>2. ASSUME NEW d \in Consumers, NEW p \in Payments, NEW u \in due[p] \cap Live, ClearsFor(d, p, u)
        PROVE  ClearsFor(d, p, u)'
    <3>1. CASE d # c
      BY <1>1, <2>2, <3>1 DEF OnlyOne, ClearsFor, Clears, Workers
    <3>2. CASE d = c
      BY <1>3, <1>6, <2>1, <2>2, <3>2 DEF ClearsFor, Clears
    <3>3. QED
      BY <3>1, <3>2
  <2>3. \A p \in Payments : BrokeOff(p)' <=> BrokeOff(p)
    BY <1>1 DEF BrokeOff
  <2>4. QED
    BY <1>1, <1>2, <2>2, <2>3 DEF ClearingInv
<1>7. QED
  BY <1>1, <1>5, <1>6

LEMMA DeletingKeepsClearing ==
  ASSUME LifecycleInv, ClearingInv, NEW c \in Consumers, RemoveExample(c)
  PROVE  ClearingInv'
<1>1. /\ OnlyOne(c) /\ task[c].step = "delete" /\ task'[c].step = "event"
      /\ task'[c].ids = task[c].ids /\ task'[c].of = task[c].of
      /\ Live' = Live \ {Head(task[c].ids)} /\ log' = log /\ due' = due /\ broken' = broken
  BY RemoveExampleStep
<1>2. task[c].ids \in Seq(1..drawn) /\ task[c].ids # <<>>
  BY <1>1, ClearingTypes DEF TaskOk, OnlyOne
<1>3. Range(task[c].ids) = {Head(task[c].ids)} \cup Range(Tail(task[c].ids))
  BY <1>2, RestOfRange
<1>4. ASSUME NEW d \in Consumers, NEW p \in Payments, NEW u, ClearsFor(d, p, u)
      PROVE  u \notin Live' \/ ClearsFor(d, p, u)'
  <2>1. CASE d # c
    BY <1>1, <1>4, <2>1 DEF OnlyOne, ClearsFor, Clears, Workers
  <2>2. CASE d = c
    BY <1>1, <1>3, <1>4, <2>2 DEF ClearsFor, Clears
  <2>3. QED
    BY <2>1, <2>2
<1>5. QED
  BY <1>1, <1>4, ClearingGoesOn

LEMMA AnnouncingKeepsClearing ==
  ASSUME LifecycleInv, ClearingInv, NEW c \in Consumers, SendRemoveEvent(c)
  PROVE  ClearingInv'
<1> DEFINE ids == task[c].ids
<1>1. /\ OnlyOne(c) /\ task[c].step = "event" /\ Note("remove", {Head(ids)})
      /\ Live' = Live /\ due' = due /\ broken' = broken
      /\ \/ Len(ids) > 1 /\ task'[c].step = "delete" /\ task'[c].ids = Tail(ids)
            /\ task'[c].of = task[c].of
         \/ ~(Len(ids) > 1)
  BY SendRemoveEventStep
<1>2. ids \in Seq(1..drawn) /\ ids # <<>> /\ Head(ids) \in 1..drawn
  BY <1>1, ClearingTypes, FirstUuids DEF TaskOk, OnlyOne
<1>3. ~(Len(ids) > 1) => Range(Tail(ids)) = {}
  BY <1>2, RestOfRange
<1>4. ASSUME NEW d \in Consumers, NEW p \in Payments, NEW u, ClearsFor(d, p, u)
      PROVE  ClearsFor(d, p, u)'
  <2>1. CASE d # c
    BY <1>1, <1>4, <2>1 DEF OnlyOne, ClearsFor, Clears, Workers
  <2>2. CASE d = c
    BY <1>1, <1>3, <1>4, <2>2 DEF ClearsFor, Clears
  <2>3. QED
    BY <2>1, <2>2
<1>5. ASSUME NEW p \in Payments
      PROVE  Count("remove", log'[p]) = Count("remove", log[p])
  <2>1. p \notin {Head(ids)}
    BY <1>2, ClearingTypes
  <2> HIDE DEF ids
  <2>2. QED
    BY <1>1, <2>1, ClearingTypes, NotingCounts DEF Kinds
<1>6. QED
  BY <1>1, <1>4, <1>5, ClearingGoesOn

LEMMA BreakingKeepsClearing ==
  ASSUME LifecycleInv, ClearingInv, NEW w \in Workers, Breaks(w)
  PROVE  ClearingInv'
<1>1. OnlyOne(w) /\ Live' = Live /\ log' = log /\ due' = due
  BY BreakStep
<1>2. PICK b : b.task = task[w] /\ Range(broken') = Range(broken) \cup {b}
  BY BreakStep
<1>3. \A p \in Payments : BrokeOff(p) \/ task[w].of = <<"payment", p>> => BrokeOff(p)'
  BY <1>2 DEF BrokeOff
<1>4. \A d \in Consumers \ {w}, p \in Payments : \A u : ClearsFor(d, p, u) => ClearsFor(d, p, u)'
  BY <1>1 DEF OnlyOne, ClearsFor, Clears, Workers
<1>5. ASSUME NEW p \in Payments
      PROVE  BrokeOff(p)' \/ \A u \in due[p] \cap Live : \E c \in Consumers : ClearsFor(c, p, u)'
  <2>1. CASE BrokeOff(p) \/ task[w].of = <<"payment", p>>
    BY <1>3, <2>1
  <2>2. CASE ~BrokeOff(p) /\ task[w].of # <<"payment", p>>
    <3>1. \A u \in due[p] \cap Live : \E c \in Consumers \ {w} : ClearsFor(c, p, u)
      BY <2>2 DEF ClearingInv, ClearsFor
    <3>2. QED
      BY <1>4, <3>1
  <2>3. QED
    BY <2>1, <2>2
<1>6. QED
  BY <1>1, <1>5 DEF ClearingInv

LEMMA StepKeepsClearing ==
  ASSUME LifecycleInv, ClearingInv, [Next]_vars
  PROVE  ClearingInv'
<1>1. CASE Aside
  <2>1. \A c \in Consumers, p \in Payments : \A u : ClearsFor(c, p, u) => ClearsFor(c, p, u)'
    BY <1>1 DEF Aside, ClearsFor, Clears, Clearing
  <2>2. \A p \in Payments : Count("remove", log'[p]) = Count("remove", log[p])
    BY <1>1, ClearingTypes DEF Aside, Silent
  <2>3. QED
    BY <1>1, <2>1, <2>2, ClearingGoesOn DEF Aside, Silent
<1>2. ASSUME NEW w \in Workers, CreateExample(w)
      PROVE  ClearingInv'
  <2>1. /\ OnlyOne(w) /\ task[w].step = "insert" /\ Live' = Live \cup {drawn + 1}
        /\ \A u \in Uuids(drawn) : u # drawn + 1 => log'[u] = log[u]
        /\ UNCHANGED <<due, broken>>
    BY <1>2, CreateExampleStep
  <2>2. \A c \in Consumers, p \in Payments : \A u : ClearsFor(c, p, u) => ClearsFor(c, p, u)'
    BY <2>1 DEF OnlyOne, ClearsFor, Clears, Workers
  <2>3. drawn + 1 \notin 1..drawn /\ drawn + 1 \notin Payments
    BY ClearingTypes
  <2>4. \A p \in Payments : due[p] \cap Live' \subseteq due[p] \cap Live
    BY <2>1, <2>3, ClearingTypes
  <2>5. \A p \in Payments : log'[p] = log[p]
    BY <2>1, <2>3, ClearingTypes
  <2>6. QED
    BY <2>1, <2>2, <2>4, <2>5, ClearingGoesOn
<1>3. ASSUME NEW w \in Workers, SendAddEvent(w)
      PROVE  ClearingInv'
  <2>1. /\ OnlyOne(w) /\ task[w].step = "add" /\ UNCHANGED <<due, broken>> /\ Live' = Live
        /\ Note("add", {task[w].ids[1]})
    BY <1>3, SendAddEventStep
  <2>2. \A c \in Consumers, p \in Payments : \A u : ClearsFor(c, p, u) => ClearsFor(c, p, u)'
    BY <2>1 DEF OnlyOne, ClearsFor, Clears, Workers
  <2>3. \A p \in Payments : Count("remove", log'[p]) = Count("remove", log[p])
    BY <2>1, ClearingTypes, NotingCounts DEF Kinds
  <2>4. QED
    BY <2>1, <2>2, <2>3, ClearingGoesOn
<1>4. ASSUME NEW c \in Consumers, AskSellerName(c)
      PROVE  ClearingInv'
  <2>1. /\ Silent /\ OnlyOne(c) /\ task[c].step = "ask" /\ task'[c].step = "list"
        /\ task'[c].of = task[c].of /\ due' = due /\ Live' = Live
    BY <1>4, AskSellerNameStep
  <2>2. \A d \in Consumers, p \in Payments : \A u : ClearsFor(d, p, u) => ClearsFor(d, p, u)'
    BY <2>1 DEF OnlyOne, ClearsFor, Clears, Workers
  <2>3. \A p \in Payments : Count("remove", log'[p]) = Count("remove", log[p])
    BY <2>1, ClearingTypes DEF Silent
  <2>4. QED
    BY <2>1, <2>2, <2>3, ClearingGoesOn DEF Silent
<1>5. QED
  BY <1>1, <1>2, <1>3, <1>4, StepsOfNext, PaymentKeepsClearing, ListingKeepsClearing,
     DeletingKeepsClearing, AnnouncingKeepsClearing, BreakingKeepsClearing

\* When all is handled, no example is left that was there when a payment was stored,
\* unless the handler of that payment broke off; and no payment is ever announced as
\* removed.
THEOREM PaymentsClearAllExamples == Spec => []PaymentsClearExamples
<1>1. Init => ClearingInv
  BY NothingToCount DEF Init, ClearingInv
<1>2. LifecycleInv /\ ClearingInv /\ [Next]_vars => ClearingInv'
  BY StepKeepsClearing
<1>3. ASSUME ClearingInv, NEW p \in Payments
      PROVE  /\ Times("remove", p) = 0
             /\ Quiet /\ (\A b \in Range(broken) : b.task.of # <<"payment", p>>)
                    => due[p] \cap Live = {}
  <2>1. Times("remove", p) = 0
    BY <1>3 DEF ClearingInv, Times, Count
  <2>2. ASSUME Quiet
        PROVE  \A c \in Consumers : \A u : ~Clears(c, u)
    BY <2>2 DEF Quiet, Idle, Workers, Clears
  <2>3. QED
    BY <1>3, <2>1, <2>2 DEF ClearingInv, BrokeOff, ClearsFor
<1>4. ClearingInv => PaymentsClearExamples
  BY <1>3 DEF PaymentsClearExamples
<1>5. QED
  BY <1>1, <1>2, <1>4, LifecycleInvariant, PTL DEF Spec
=============================================================================
