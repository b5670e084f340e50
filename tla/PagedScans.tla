----------------------------- MODULE PagedScans -----------------------------
(***************************************************************************)
(* The loops that go through a collection page by page while the service   *)
(* keeps changing it, over the transactions of MongoDB and of the index:   *)
(*                                                                         *)
(*   reindex      transactions:es:export                                   *)
(*   reindex_old  the same with remove_old                                 *)
(*   rebuild      transactions:es:business-update                          *)
(*   replay       transactions:export (and transactions:blank-migrate)     *)
(*   check        transactions:es:fix-diff (and es:business-check)         *)
(*   file         ExporterService.exportToFile                             *)
(*                                                                         *)
(* Each counts first, and then reads until it has seen as many.  They      *)
(* differ in what they count as seen: the documents that came, or the size *)
(* of the page.  A transaction is a number, its place in the order of _id  *)
(* and of created_at.  Elasticsearch shows a write at once here, and the   *)
(* service changes document and copy in one step (see SearchIndex).        *)
(*                                                                         *)
(* Four of the loops have criteria a change can make true or false: a      *)
(* status, the time of the last change, the filters of a user.             *)
(***************************************************************************)
EXTENDS Integers, Sequences, FiniteSets, Functions, FiniteSetsExt

CONSTANTS
    Scans,          \* the loops to look at
    InitialIds,     \* the transactions there may be in the beginning
    Ids,            \* those and the ones that may be created
    PageSize,       \* limit, 1000 in the source
    MaxPage,        \* where exportToFile stops, 1000 in the source
    ResultWindow,   \* max_result_window, 500000 in transactions:es:setup
    MaxChanges      \* bound: how often the service changes a transaction

ASSUME ScansAssumption ==
    /\ Scans \subseteq {"reindex", "reindex_old", "rebuild", "replay", "check", "file"}
    /\ InitialIds \subseteq Ids
    /\ Ids \subseteq Nat /\ IsFiniteSet(Ids)
    /\ PageSize \in Nat \ {0}
    /\ MaxPage \in Nat \ {0}
    /\ ResultWindow \in Nat
    /\ MaxChanges \in Nat

VARIABLES
    mongo,      \* the version of each transaction, 0 if it is not there
    index,      \* the version of its copy
    matching,   \* the transactions that meet the criteria of the loop
    scan,       \* the loop that runs
    descending, \* does an export to a file sort that way?
    pc,         \* where it is
    total,      \* what it counted
    position,   \* how much of it is through: processed or start
    page,       \* listDto.page
    batch,      \* the page it has read, pairs of id and version
    todo,       \* the part of the page that is still to be handled
    handled,    \* how often each transaction was sent or written to the file
    counted,    \* observer: the transactions there when it counted
    added, left,    \* observers: what came to what the loop reads, and went, since then
    between,    \* observer: what of it came in before something there or already read
    raced,      \* observer: what it changed between a read and the write after it
    changes

scanVars == <<pc, total, position, page, batch, todo, handled, counted>>
sinceCount == <<added, left, between>>
observerVars == <<sinceCount, raced, changes>>
vars == <<mongo, index, matching, scan, descending, scanVars, observerVars>>

Rewrites == {"reindex", "reindex_old", "rebuild"}
Selective == {"reindex", "reindex_old", "replay", "file"}
ReadsIndex == scan \in {"check", "file"}

Present(collection) == {i \in Ids : collection[i] # 0}

Ended == pc \in {"done", "refused", "aborted"}

Source == IF ReadsIndex THEN index ELSE mongo

\* What the loop counts and reads.
Selected == Present(Source) \cap matching

Init ==
    /\ scan \in Scans
    /\ descending \in IF scan = "file" THEN BOOLEAN ELSE {FALSE}
    /\ mongo \in [Ids -> {0, 2}]
    /\ index \in [Ids -> 0..2]
    /\ Present(mongo) \cup Present(index) \subseteq InitialIds
    /\ matching \in
          IF scan \in Selective THEN SUBSET (Present(mongo) \cup Present(index)) ELSE {Ids}
    /\ pc = IF scan = "rebuild" THEN "clear" ELSE "count"
    /\ total = 0
    /\ position = 0
    /\ page = 1
    /\ batch = <<>>
    /\ todo = <<>>
    /\ handled = [i \in Ids |-> 0]
    /\ counted = {}
    /\ added = {}
    /\ left = {}
    /\ between = {}
    /\ raced = {}
    /\ changes = 0

\* Does i come before j in the order of the loop?
Precedes(i, j) == IF descending THEN i > j ELSE i < j

-----------------------------------------------------------------------------
(* The service.                                                            *)

InBatch == {batch[k].id : k \in DOMAIN batch}

\* What is there to be read, or was.
Reached == Selected \cup InBatch \cup {i \in Ids : handled[i] > 0}

\* The service gives transaction i the given version, 0 to remove it, after
\* which it may meet the criteria or not.
Change(i, version) ==
    /\ ~Ended
    /\ changes < MaxChanges
    /\ UNCHANGED <<scan, descending, scanVars>>
    /\ changes' = changes + 1
    /\ mongo' = [mongo EXCEPT ![i] = version]
    /\ index' = [index EXCEPT ![i] = version]
    /\ matching' \in {matching \cup {i}} \cup (IF scan \in Selective THEN {matching \ {i}} ELSE {})
    /\ added' = added \cup (Selected' \ Selected)
    /\ left' = left \cup (Selected \ Selected')
    /\ between' = between \cup {j \in Selected' \ Selected : \E k \in Reached : Precedes(j, k)}
    /\ raced' = IF i \in InBatch THEN raced \cup {i} ELSE raced

CreateTransaction ==
    \E i \in Ids :
        /\ \A j \in Present(mongo) \cup Present(index) \cup InitialIds \cup left : j < i
        /\ Change(i, 1)

\* A transaction that was missing in the index is there afterwards.
UpdateTransaction == \E i \in Present(mongo) : Change(i, mongo[i] + 1)

RemoveTransaction == \E i \in Present(mongo) : Change(i, 0)

-----------------------------------------------------------------------------
(* The loops.                                                              *)

unchangedBySteps == <<scan, matching, descending, raced, changes>>

Clear ==
    /\ pc = "clear"
    /\ index' = [i \in Ids |-> 0]
    /\ pc' = "count"
    /\ UNCHANGED <<mongo, total, position, page, batch, todo, handled, counted,
                   sinceCount, unchangedBySteps>>

\* An export to a file counts when it is asked for, and may run much later.
Count ==
    /\ pc = "count"
    /\ total' = Cardinality(Selected)
    /\ counted' = Selected
    /\ added' = {}
    /\ left' = {}
    /\ between' = {}
    /\ pc' = "read"
    /\ UNCHANGED <<mongo, index, position, page, batch, todo, handled, unchangedBySteps>>

Earlier(i, S) == {j \in S : Precedes(j, i)}

\* The members of S in the order of the loop.
Ordered(S) == [n \in 1..Cardinality(S) |-> CHOOSE i \in S : Cardinality(Earlier(i, S)) = n - 1]

\* exportToFile asks for no more than there was.
Limit == IF scan = "file" THEN Min({PageSize, total}) ELSE PageSize

Skip == IF ReadsIndex THEN Limit * (page - 1) ELSE position

\* Mutants of Page: the first document skipped, the last one of the previous
\* page read again, and no limit.
MutantSkipsOne(S) == SubSeq(Ordered(S), Skip + 2, Min({Skip + 1 + Limit, Cardinality(S)}))
MutantOverlaps(S) ==
    SubSeq(Ordered(S), Max({1, Skip}), Min({Skip + Limit, Cardinality(S)}))
MutantNoLimit(S) == SubSeq(Ordered(S), Skip + 1, Cardinality(S))

Page(S) == SubSeq(Ordered(S), Skip + 1, Min({Skip + Limit, Cardinality(S)}))

Read(S) == LET ids == Page(S) IN
    [k \in DOMAIN ids |-> [id |-> ids[k], version |-> Source[ids[k]]]]

\* One page of the collection as it is now.
ReadPage ==
    /\ pc = "read"
    /\ position < total
    /\ ReadsIndex => Skip + Limit <= ResultWindow
    /\ batch' = Read(Selected)
    /\ todo' = batch'
    /\ pc' = "handle"
    /\ UNCHANGED <<mongo, index, total, position, page, handled, counted,
                   sinceCount, unchangedBySteps>>

\* Elasticsearch answers a page beyond its window with an error.
Refuse ==
    /\ pc = "read"
    /\ position < total
    /\ ReadsIndex /\ Skip + Limit > ResultWindow
    /\ pc' = "refused"
    /\ UNCHANGED <<mongo, index, total, position, page, batch, todo, handled, counted,
                   sinceCount, unchangedBySteps>>

\* The next document of the page is dealt with in the given way.
Handles(scans) ==
    /\ pc = "handle"
    /\ scan \in scans
    /\ todo # <<>>
    /\ todo' = Tail(todo)
    /\ UNCHANGED <<mongo, total, position, page, batch, counted, sinceCount, unchangedBySteps>>

\* remove_old deletes the copy first; reindex and rebuild just go on.
Prepare ==
    /\ Handles(Rewrites)
    /\ index' = IF scan = "reindex_old" THEN [index EXCEPT ![Head(todo).id] = 0] ELSE index
    /\ UNCHANGED <<pc, handled>>

\* processMigratedTransaction, or a row of the file.
Send ==
    /\ Handles({"replay", "file"})
    /\ handled' = [handled EXCEPT ![Head(todo).id] = @ + 1]
    /\ UNCHANGED <<pc, index>>

\* Mutant of IsOrphan: a copy that is behind is kept as well as one that is not.
MutantKeepsOldCopies(i) == mongo[i] = 0 /\ index[i] = 2

\* Is a transaction of the index not in MongoDB?
IsOrphan(i) == mongo[i] = 0

\* fix-diff looks the transaction up in MongoDB,
LookUp ==
    /\ pc = "handle"
    /\ scan = "check"
    /\ todo # <<>>
    /\ \/ /\ IsOrphan(Head(todo).id)
          /\ pc' = "delete"
          /\ UNCHANGED todo
       \/ /\ ~IsOrphan(Head(todo).id)
          /\ todo' = Tail(todo)
          /\ UNCHANGED pc
    /\ UNCHANGED <<mongo, index, total, position, page, batch, handled, counted,
                   sinceCount, unchangedBySteps>>

\* and deletes its copy if it is not there.
Delete ==
    /\ pc = "delete"
    /\ index' = [index EXCEPT ![Head(todo).id] = 0]
    /\ todo' = Tail(todo)
    /\ pc' = "handle"
    /\ UNCHANGED <<mongo, total, position, page, batch, handled, counted,
                   sinceCount, unchangedBySteps>>

\* start += limit, or processed += transactions.length.
NextPosition == IF scan = "replay" THEN position + PageSize ELSE position + Len(batch)

\* Mutant of BreaksOff: the loop only ends by its count.
MutantNeverBreaksOff == FALSE

\* Does exportToFile leave its loop early?
BreaksOff == scan = "file" /\ (page + 1 > MaxPage \/ batch = <<>>)

\* The page is done: bulkIndex, for those that rewrite copies, and the counters.
FinishPage ==
    /\ pc = "handle"
    /\ todo = <<>>
    /\ index' = IF scan \in Rewrites
                THEN [i \in Ids |-> IF \E k \in DOMAIN batch : batch[k].id = i
                        THEN (CHOOSE b \in Range(batch) : b.id = i).version ELSE index[i]]
                ELSE index
    /\ position' = NextPosition
    /\ page' = IF ReadsIndex THEN page + 1 ELSE page
    /\ pc' = IF BreaksOff THEN "done" ELSE "read"
    /\ batch' = <<>>
    /\ UNCHANGED <<mongo, total, todo, handled, counted, sinceCount, unchangedBySteps>>

Finish ==
    /\ pc = "read"
    /\ position >= total
    /\ pc' = "done"
    /\ UNCHANGED <<mongo, index, total, position, page, batch, todo, handled, counted,
                   sinceCount, unchangedBySteps>>

\* MongoDB or Elasticsearch answers with an error, which nothing catches.
Abort ==
    /\ ~Ended
    /\ pc' = "aborted"
    /\ UNCHANGED <<mongo, index, total, position, page, batch, todo, handled, counted,
                   sinceCount, unchangedBySteps>>

-----------------------------------------------------------------------------

Step ==
    \/ Clear \/ Count \/ ReadPage \/ Refuse \/ Prepare \/ Send \/ LookUp \/ Delete
    \/ FinishPage \/ Finish

Next == Step \/ Abort \/ CreateTransaction \/ UpdateTransaction \/ RemoveTransaction

Spec == Init /\ [][Next]_vars

\* A loop that was started goes on.
FairSpec == Spec /\ WF_vars(Step)

-----------------------------------------------------------------------------
(* Properties.                                                             *)

\* What is still to be handled is the end of the page.
EndOfPage == \E k \in 1..(Len(batch) + 1) : todo = SubSeq(batch, k, Len(batch))

\* Every variable has its type; a page is never longer than the limit, and
\* nothing else is still to be handled.
TypeOK ==
    /\ mongo \in [Ids -> Nat] /\ index \in [Ids -> Nat]
    /\ matching \subseteq Ids
    /\ scan \in Scans /\ descending \in BOOLEAN
    /\ pc \in {"clear", "count", "read", "handle", "delete", "done", "refused", "aborted"}
    /\ total \in Nat /\ position \in Nat /\ page \in Nat \ {0}
    /\ batch \in Seq([id: Ids, version: Nat]) /\ Len(batch) <= PageSize
    /\ EndOfPage
    /\ handled \in [Ids -> Nat]
    /\ counted \subseteq Ids
    /\ added \subseteq Ids /\ left \subseteq Ids /\ between \subseteq Ids /\ raced \subseteq Ids
    /\ changes \in 0..MaxChanges

\* What came after the count came at the end of what the loop reads.
OnlyAppended == between = {}

\* While none goes and none comes in between, a loop that writes the index again
\* leaves it with the stored version of every transaction it selects, created and
\* updated ones included, unless one was updated just between the read and the
\* bulk write; and after a rebuild with nothing else.
RewritesCatchUp ==
    (pc = "done" /\ scan \in Rewrites /\ left = {} /\ OnlyAppended) =>
        /\ \A i \in Selected \ raced : index[i] = mongo[i]
        /\ scan = "rebuild" => Present(index) = Present(mongo)

\* A replay never sends a transaction twice, nor does a file have one twice, even
\* while others go, unless one came in between: a new one where the newest come
\* first, or one that did not meet the criteria, or that the index had missed.
NothingTwice == OnlyAppended => \A i \in Ids : handled[i] <= 1

\* Nor do they leave one out that was there when they counted, unless others go
\* or come in between meanwhile, or MaxPage pages cannot hold them.
NothingMissed ==
    (pc = "done" /\ scan \in {"replay", "file"} /\ left = {} /\ OnlyAppended)
        => \/ \A i \in counted : handled[i] >= 1
           \/ scan = "file" /\ total > MaxPage * PageSize

\* The index has a copy of a transaction that is not in MongoDB.
HasOrphans == \E i \in Present(index) : mongo[i] = 0

\* When fix-diff has come to an end, and nothing else removed a copy nor, unless
\* at the end of the only page, added one, the index has only what MongoDB has.
FinishedChecksClean ==
    /\ pc = "done" /\ scan = "check" /\ left = {}
    /\ added = {} \/ (OnlyAppended /\ total <= PageSize)
    => ~HasOrphans

\* A loop whose count can be reached comes to an end: a replay and a file always,
\* a rewrite while nothing goes, and a check on top of that only if what it
\* deletes does not move the pages it has not read, as when there is one page.
ReachableCountsEnd ==
    (pc = "read") ~>
        \/ pc \in {"done", "aborted"}
        \/ left # {} /\ scan \in Rewrites \cup {"check"}
        \/ scan = "check" /\ total > PageSize

\* fix-diff removes every copy of a transaction that is not in MongoDB.
ChecksClean == (pc = "count" /\ scan = "check") ~> (pc = "aborted" \/ ~HasOrphans)
=============================================================================
