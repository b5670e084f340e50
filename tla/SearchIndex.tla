---------------------------- MODULE SearchIndex ----------------------------
(***************************************************************************)
(* One transaction in MongoDB and its copies in two Elasticsearch indexes. *)
(*                                                                         *)
(* TransactionsService writes the document under a lock, which returns the *)
(* document as written, and dispatches it to TransactionElasticListener    *)
(* and FolderDocumentsListener after the lock is released.  Each listener  *)
(* puts that document in its index, or takes the transaction out of it.    *)
(* Other writers may have written, and indexed, in between.                *)
(*                                                                         *)
(* A writer here is one such write, of an http server or a consumer.  A    *)
(* handler that writes several times is several writers one after another, *)
(* and so is a message that is delivered again.                            *)
(***************************************************************************)
EXTENDS Integers

CONSTANTS
    Writers,
    NoWriter    \* stands for the writer of a transaction never written

ASSUME WritersAssumption == NoWriter \notin Writers

Indexes == {"transactions", "folders"}

VARIABLES
    stored,     \* the version in MongoDB, 0 if there is no document
    writes,     \* how many versions have been written
    indexed,    \* the version in each index, 0 if it has none
    pc,         \* where each writer is
    carried,    \* the version it passes to the listeners, 0 for a removal
    todo,       \* the indexes its listeners have not written yet
    last,       \* the writer of the last write
    rivals      \* per index, what other writers still had to index at that time

writerVars == <<pc, carried, todo>>
observerVars == <<last, rivals>>
vars == <<stored, writes, indexed, writerVars, observerVars>>

Init ==
    /\ stored = 0
    /\ writes = 0
    /\ indexed = [x \in Indexes |-> 0]
    /\ pc = [w \in Writers |-> "idle"]
    /\ carried = [w \in Writers |-> 0]
    /\ todo = [w \in Writers |-> {}]
    /\ last = NoWriter
    /\ rivals = [x \in Indexes |-> {}]

-----------------------------------------------------------------------------

\* The observer notes what a write of w may be overwritten with.
Observe(w) ==
    /\ last' = w
    /\ rivals' = [x \in Indexes |-> {carried[v] : v \in {u \in Writers : x \in todo[u]}}]

\* Mutant of Dispatch: FolderDocumentsListener is not in EventListenersList.
MutantNoFolderListener(w, version) ==
    /\ pc' = [pc EXCEPT ![w] = "dispatching"]
    /\ carried' = [carried EXCEPT ![w] = version]
    /\ todo' = [todo EXCEPT ![w] = {"transactions"}]

\* w goes on to dispatch the given version to the listeners.
Dispatch(w, version) ==
    /\ pc' = [pc EXCEPT ![w] = "dispatching"]
    /\ carried' = [carried EXCEPT ![w] = version]
    /\ todo' = [todo EXCEPT ![w] = Indexes]

End(w, state) ==
    /\ pc' = [pc EXCEPT ![w] = state]
    /\ UNCHANGED <<carried, todo>>

\* Mutant of Write: findOneAndUpdate without { new: true } returns what was there.
MutantReturnsOldDocument(w) ==
    /\ writes' = writes + 1
    /\ stored' = writes + 1
    /\ Dispatch(w, stored)
    /\ Observe(w)

Write(w) ==
    /\ writes' = writes + 1
    /\ stored' = writes + 1
    /\ Dispatch(w, writes + 1)
    /\ Observe(w)

\* Nothing is written, and the writer ends.
NoWrite(w, state) ==
    /\ End(w, state)
    /\ UNCHANGED <<stored, writes, observerVars>>

\* create: a second document with the uuid violates the unique index.
Create(w) ==
    /\ pc[w] = "idle"
    /\ \/ stored = 0 /\ Write(w)
       \/ stored # 0 /\ NoWrite(w, "failed")
    /\ UNCHANGED indexed

\* updateByUuid inserts what is not there.
UpdateByUuid(w) ==
    /\ pc[w] = "idle"
    /\ Write(w)
    /\ UNCHANGED indexed

\* pushHistoryRecord, updateHistoryByUuid, applyPaymentProperties and
\* applyPaymentItems do not: the listeners get null, and throw.
UpdateExisting(w) ==
    /\ pc[w] = "idle"
    /\ \/ stored # 0 /\ Write(w)
       \/ stored = 0 /\ NoWrite(w, "failed")
    /\ UNCHANGED indexed

\* setShippingOrderProcessed and the save of doFakeAction dispatch nothing.
UpdateSilently(w) ==
    /\ pc[w] = "idle"
    /\ \/ /\ stored # 0
          /\ writes' = writes + 1
          /\ stored' = writes + 1
          /\ Observe(w)
          /\ End(w, "silent")
       \/ stored = 0 /\ NoWrite(w, "done")
    /\ UNCHANGED indexed

\* removeByUuid, which takes no lock.
RemoveByUuid(w) ==
    /\ pc[w] = "idle"
    /\ \/ /\ stored # 0
          /\ stored' = 0
          /\ Dispatch(w, 0)
          /\ Observe(w)
          /\ UNCHANGED writes
       \/ stored = 0 /\ NoWrite(w, "done")
    /\ UNCHANGED indexed

\* Mutant of IndexDocument: dispatch does not wait for the listeners.
MutantDoesNotWait(w, x) ==
    /\ x \in todo[w]
    /\ indexed' = [indexed EXCEPT ![x] = carried[w]]
    /\ todo' = [todo EXCEPT ![w] = @ \ {x}]
    /\ pc' = [pc EXCEPT ![w] = "done"]
    /\ UNCHANGED <<stored, writes, carried, observerVars>>

\* The listener of index x: the document replaces what the index has for the
\* transaction, or the transaction is deleted from the index, whatever the
\* version there.  The delayed removal of DelayRemoveClient is this step, late.
IndexDocument(w, x) ==
    /\ x \in todo[w]
    /\ indexed' = [indexed EXCEPT ![x] = carried[w]]
    /\ todo' = [todo EXCEPT ![w] = @ \ {x}]
    /\ pc' = [pc EXCEPT ![w] = IF todo[w] = {x} THEN "done" ELSE @]
    /\ UNCHANGED <<stored, writes, carried, observerVars>>

\* Elasticsearch refuses the write, or the process goes down: the listeners
\* that are left do not run.
Fail(w) ==
    /\ pc[w] = "dispatching"
    /\ pc' = [pc EXCEPT ![w] = "failed"]
    /\ todo' = [todo EXCEPT ![w] = {}]
    /\ UNCHANGED <<stored, writes, indexed, carried, observerVars>>

-----------------------------------------------------------------------------

Listen(w) == \E x \in Indexes : IndexDocument(w, x)

Next ==
    \E w \in Writers :
        \/ Create(w) \/ UpdateByUuid(w) \/ UpdateExisting(w)
        \/ UpdateSilently(w) \/ RemoveByUuid(w)
        \/ Listen(w) \/ Fail(w)

Spec == Init /\ [][Next]_vars

\* A write of an index ends; nothing makes a new writer start.
Fairness == \A w \in Writers : WF_vars(Listen(w))

FairSpec == Spec /\ Fairness

-----------------------------------------------------------------------------
(* Properties.                                                             *)

\* The versions there are so far, 0 for no document.
Versions == 0..writes

\* Every variable has its type: nothing holds a version that was never written,
\* and a writer is dispatching just as long as it has listeners to run.
TypeOK ==
    /\ writes \in Nat
    /\ stored \in Versions
    /\ indexed \in [Indexes -> Versions]
    /\ pc \in [Writers -> {"idle", "dispatching", "silent", "done", "failed"}]
    /\ carried \in [Writers -> Versions]
    /\ todo \in [Writers -> SUBSET Indexes]
    /\ \A w \in Writers : todo[w] # {} <=> pc[w] = "dispatching"
    /\ last \in Writers \cup {NoWriter}
    /\ rivals \in [Indexes -> SUBSET Versions]

\* Has the listener of x run for the last write?
LastIsIndexed(x) ==
    /\ last # NoWriter
    /\ pc[last] \in {"dispatching", "done"}
    /\ x \notin todo[last]

\* A copy is behind the document, once the listener has run for the last write,
\* only if another writer was between its write and its indexing at the time of
\* that write; and then it has what one of those writers wrote.  A removed
\* transaction comes back to an index, and an update is undone there, no other
\* way, whichever handlers fail or go down.
OnlyRivalsOverwrite ==
    \A x \in Indexes : LastIsIndexed(x) => indexed[x] \in {stored} \cup rivals[x]

\* A write that nothing overlaps gets to both indexes, unless it fails.
LoneWritesAreIndexed ==
    \A w \in Writers :
        (last = w /\ pc[w] = "dispatching" /\ \A x \in Indexes : rivals[x] = {})
            ~> (last # w \/ pc[w] = "failed" \/ \A x \in Indexes : indexed[x] = stored)
=============================================================================
