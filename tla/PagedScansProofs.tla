-------------------------- MODULE PagedScansProofs --------------------------
(***************************************************************************)
(* What PagedScans promises, for any transactions, page size and number of *)
(* changes.                                                                *)
(***************************************************************************)
EXTENDS PagedScans, FiniteSetTheorems, SequenceTheorems, TLAPS

(***************************************************************************)
(* The order of the loop.                                                  *)
(***************************************************************************)

\* The transactions that come before one are among those there are.
LEMMA EarlierIsFinite ==
    ASSUME NEW S \in SUBSET Ids, NEW i \in Ids
    PROVE  /\ IsFiniteSet(S) /\ IsFiniteSet(Earlier(i, S))
           /\ Cardinality(S) \in Nat /\ Cardinality(Earlier(i, S)) \in Nat
<1>1. IsFiniteSet(S)
    BY ScansAssumption, FS_Subset DEF ScansAssumption
<1>2. IsFiniteSet(Earlier(i, S))
    BY <1>1, FS_Subset DEF Earlier
<1>. QED BY <1>1, <1>2, FS_CardinalityType

\* A transaction has fewer before it than there are.
LEMMA RankIsBelow ==
    ASSUME NEW S \in SUBSET Ids, NEW i \in S
    PROVE  Cardinality(Earlier(i, S)) < Cardinality(S)
<1>1. Earlier(i, S) \subseteq S /\ i \notin Earlier(i, S)
    BY ScansAssumption DEF ScansAssumption, Earlier, Precedes
<1>. QED BY <1>1, EarlierIsFinite, FS_Subset

\* More come before a later one.
LEMMA RanksGrow ==
    ASSUME NEW S \in SUBSET Ids, NEW i \in S, NEW j \in S, Precedes(i, j)
    PROVE  Cardinality(Earlier(i, S)) < Cardinality(Earlier(j, S))
<1>1. Earlier(i, S) \subseteq Earlier(j, S)
    <2>1. S \subseteq Nat
        BY ScansAssumption DEF ScansAssumption
    <2>2. \A k \in S : Precedes(k, i) => Precedes(k, j)
        BY <2>1 DEF Precedes
    <2>. QED BY <2>2 DEF Earlier
<1>2. i \in Earlier(j, S) /\ i \notin Earlier(i, S)
    BY ScansAssumption DEF ScansAssumption, Earlier, Precedes
<1>. QED BY <1>1, <1>2, EarlierIsFinite, FS_Subset

\* No two have the same number before them.
LEMMA RanksDiffer ==
    ASSUME NEW S \in SUBSET Ids, NEW i \in S, NEW j \in S,
           Cardinality(Earlier(i, S)) = Cardinality(Earlier(j, S))
    PROVE  i = j
<1>1. i = j \/ Precedes(i, j) \/ Precedes(j, i)
    BY ScansAssumption DEF ScansAssumption, Precedes
<1>2. Cardinality(Earlier(i, S)) \in Nat
    BY EarlierIsFinite
<1>. QED BY <1>1, <1>2, RanksGrow

\* So each number below the count is that of one of them.
LEMMA RanksAreTaken ==
    ASSUME NEW S \in SUBSET Ids, NEW n \in 0..(Cardinality(S) - 1)
    PROVE  \E i \in S : Cardinality(Earlier(i, S)) = n
<1>. DEFINE T == 0..(Cardinality(S) - 1)
            f == [i \in S |-> Cardinality(Earlier(i, S))]
<1>1. IsFiniteSet(S) /\ Cardinality(S) \in Nat
    BY ScansAssumption, FS_Subset, FS_CardinalityType DEF ScansAssumption
<1>2. IsFiniteSet(T) /\ Cardinality(T) = Cardinality(S)
    BY <1>1, FS_Interval
<1>3. f \in [S -> T]
    BY <1>1, RankIsBelow, EarlierIsFinite
<1>4. \A i, j \in S : f[i] = f[j] => i = j
    BY RanksDiffer
<1>5. f \in Injection(S, T)
    BY <1>3, <1>4 DEF Injection, IsInjective
<1>6. f \in Surjection(S, T)
    BY <1>1, <1>2, <1>5, FS_Injection
<1>7. \A t \in T : \E s \in S : f[s] = t
    BY <1>6 DEF Surjection
<1>. QED BY <1>7

\* The sequence of the members has each where its number says.
LEMMA OrderedMembers ==
    ASSUME NEW S \in SUBSET Ids
    PROVE  \A n \in 1..Cardinality(S) :
               /\ Ordered(S)[n] \in S
               /\ Cardinality(Earlier(Ordered(S)[n], S)) = n - 1
<1>1. IsFiniteSet(S) /\ Cardinality(S) \in Nat
    BY ScansAssumption, FS_Subset, FS_CardinalityType DEF ScansAssumption
<1>2. SUFFICES ASSUME NEW n \in 1..Cardinality(S)
               PROVE  /\ Ordered(S)[n] \in S
                      /\ Cardinality(Earlier(Ordered(S)[n], S)) = n - 1
    OBVIOUS
<1>3. n - 1 \in 0..(Cardinality(S) - 1)
    BY <1>1
<1>4. \E i \in S : Cardinality(Earlier(i, S)) = n - 1
    BY <1>3, RanksAreTaken
<1>. QED BY <1>4 DEF Ordered

(***************************************************************************)
(* A page.                                                                 *)
(***************************************************************************)

\* The smaller of two numbers.
LEMMA SmallerOfTwo ==
    ASSUME NEW m \in Nat, NEW n \in Nat
    PROVE  Min({m, n}) = IF m <= n THEN m ELSE n
<1>. DEFINE x == IF m <= n THEN m ELSE n
<1>1. x \in {m, n} /\ \A y \in {m, n} : x <= y
    OBVIOUS
<1>2. \A z \in {m, n} : (\A y \in {m, n} : z <= y) => z = x
    OBVIOUS
<1>. QED BY <1>1, <1>2 DEF Min

\* How long a page is.
PageLength(S) ==
    IF Skip + Limit <= Cardinality(S) THEN Limit
    ELSE IF Skip <= Cardinality(S) THEN Cardinality(S) - Skip ELSE 0

\* A page has, in their order, the members whose numbers are from Skip on.
LEMMA PageMembers ==
    ASSUME NEW S \in SUBSET Ids, Skip \in Nat, Limit \in Nat
    PROVE  /\ Page(S) \in Seq(S)
           /\ Len(Page(S)) = PageLength(S)
           /\ \A k \in 1..PageLength(S) :
                  Page(S)[k] \in S /\ Cardinality(Earlier(Page(S)[k], S)) = Skip + k - 1
           /\ \A i \in S :
                  Cardinality(Earlier(i, S)) >= Skip /\ Cardinality(Earlier(i, S)) < Skip + Limit
                  => \E k \in 1..PageLength(S) : Page(S)[k] = i
<1>. DEFINE c == Cardinality(S)
            m == Skip + 1
            n == Min({Skip + Limit, c})
<1>1. IsFiniteSet(S) /\ c \in Nat
    BY ScansAssumption, FS_Subset, FS_CardinalityType DEF ScansAssumption
<1>2. n = IF Skip + Limit <= c THEN Skip + Limit ELSE c
    BY <1>1, SmallerOfTwo
<1>3. m \in Int /\ n \in Int /\ m = Skip + 1
    BY <1>1, <1>2
<1>4. \A k \in m..n : k \in 1..c
    BY <1>1, <1>2
<1>5. Page(S) = SubSeq(Ordered(S), m, n)
    BY DEF Page
<1>. HIDE DEF m, n
<1>6. /\ Page(S) \in Seq(S)
      /\ Len(Page(S)) = IF m <= n THEN n - m + 1 ELSE 0
      /\ \A k \in 1..(n - m + 1) : Page(S)[k] = Ordered(S)[m + k - 1]
    <2>. DEFINE s == Ordered(S)
    <2>1. \A k \in m..n : s[k] \in S
        BY <1>4, OrderedMembers
    <2>2. Page(S) = SubSeq(s, m, n)
        BY <1>5
    <2>. HIDE DEF s
    <2>3. /\ SubSeq(s, m, n) \in Seq(S)
          /\ Len(SubSeq(s, m, n)) = IF m <= n THEN n - m + 1 ELSE 0
          /\ \A k \in 1..(n - m + 1) : SubSeq(s, m, n)[k] = s[m + k - 1]
        BY <1>3, <2>1, SubSeqProperties
    <2>. QED BY <2>2, <2>3 DEF s
<1>7. Len(Page(S)) = PageLength(S)
    BY <1>1, <1>2, <1>3, <1>6 DEF PageLength
<1>8. ASSUME NEW k \in 1..PageLength(S)
      PROVE  Page(S)[k] \in S /\ Cardinality(Earlier(Page(S)[k], S)) = Skip + k - 1
    <2>1. k \in 1..(n - m + 1) /\ m + k - 1 = Skip + k /\ Skip + k \in 1..c
        BY <1>1, <1>2, <1>3 DEF PageLength
    <2>2. Page(S)[k] = Ordered(S)[Skip + k]
        BY <1>6, <2>1
    <2>. QED BY <2>1, <2>2, OrderedMembers
<1>9. ASSUME NEW i \in S,
             Cardinality(Earlier(i, S)) >= Skip, Cardinality(Earlier(i, S)) < Skip + Limit
      PROVE  \E k \in 1..PageLength(S) : Page(S)[k] = i
    <2>. DEFINE k == Cardinality(Earlier(i, S)) - Skip + 1
    <2>1. Cardinality(Earlier(i, S)) \in Nat /\ Cardinality(Earlier(i, S)) < c
        BY EarlierIsFinite, RankIsBelow
    <2>2. k \in 1..PageLength(S)
        BY <1>1, <1>9, <2>1 DEF PageLength
    <2>3. Page(S)[k] \in S /\ Cardinality(Earlier(Page(S)[k], S)) = Skip + k - 1
        BY <1>8, <2>2
    <2>4. Skip + k - 1 = Cardinality(Earlier(i, S))
        BY <2>1
    <2>. QED BY <2>2, <2>3, <2>4, RanksDiffer
<1>. QED BY <1>6, <1>7, <1>8, <1>9

(***************************************************************************)
(* The types, and where a loop is.                                         *)
(***************************************************************************)

\* What holds of the counters and of the page in each phase of a loop.
PhaseInv ==
    /\ pc = "clear" => scan = "rebuild"
    /\ pc = "delete" => scan = "check" /\ todo # <<>>
    /\ pc \in {"clear", "count"} =>
          position = 0 /\ page = 1 /\ handled = [i \in Ids |-> 0]
    /\ pc \in {"clear", "count", "read"} => batch = <<>>
    /\ ~ReadsIndex => page = 1
    /\ scan \notin Selective => matching = Ids
    /\ pc \in {"read", "handle", "delete", "done"} => total = Cardinality(counted)

LoopInv == TypeOK /\ PhaseInv

\* A document as it was read.
Copy == [id: Ids, version: Nat]

\* How many of what the loop reads come before a transaction.
Rank(i) == Cardinality(Earlier(i, Selected))

\* What a loop reads are transactions.
LEMMA SelectedAreIds == Selected \in SUBSET Ids
BY DEF Selected, Present

\* The limit is a number, at most PageSize; and so is the first place of a page.
LEMMA LimitIsNatural ==
    ASSUME TypeOK
    PROVE  Limit \in Nat /\ Limit <= PageSize /\ (total > 0 => Limit > 0)
BY ScansAssumption, SmallerOfTwo DEF ScansAssumption, TypeOK, Limit

\* So is the first place of a page.
LEMMA SkipIsNatural ==
    ASSUME TypeOK
    PROVE  Skip \in Nat
<1>1. Limit \in Nat /\ page - 1 \in Nat
    BY LimitIsNatural DEF TypeOK
<1>2. Limit * (page - 1) \in Nat
    BY <1>1
<1>. QED BY <1>2 DEF Skip, TypeOK

\* The page that is read.
LEMMA PageRead ==
    ASSUME TypeOK
    PROVE  /\ Read(Selected) \in Seq(Copy)
           /\ Len(Read(Selected)) = PageLength(Selected)
           /\ PageLength(Selected) \in 0..PageSize
           /\ \A k \in 1..PageLength(Selected) :
                  /\ Read(Selected)[k].id \in Selected
                  /\ Rank(Read(Selected)[k].id) = Skip + k - 1
                  /\ Read(Selected)[k].version = Source[Read(Selected)[k].id]
           /\ \A i \in Selected :
                  Rank(i) >= Skip /\ Rank(i) < Skip + Limit
                  => \E k \in 1..PageLength(Selected) : Read(Selected)[k].id = i
<1>. DEFINE S == Selected
            ids == Page(S)
            n == PageLength(S)
<1>1. S \in SUBSET Ids
    BY SelectedAreIds
<1>2. Skip \in Nat /\ Limit \in Nat /\ Limit <= PageSize
    BY SkipIsNatural, LimitIsNatural
<1>. HIDE DEF S
<1>3. /\ ids \in Seq(S) /\ Len(ids) = n
      /\ \A k \in 1..n : ids[k] \in S /\ Cardinality(Earlier(ids[k], S)) = Skip + k - 1
      /\ \A i \in S :
             Cardinality(Earlier(i, S)) >= Skip /\ Cardinality(Earlier(i, S)) < Skip + Limit
             => \E k \in 1..n : ids[k] = i
    BY <1>1, <1>2, PageMembers
<1>4. n \in 0..PageSize
    <2>1. Cardinality(S) \in Nat
        BY <1>1, ScansAssumption, FS_Subset, FS_CardinalityType DEF ScansAssumption
    <2>. QED BY <1>2, <2>1, ScansAssumption DEF PageLength, ScansAssumption
<1>5. Read(S) = [k \in DOMAIN ids |-> [id |-> ids[k], version |-> Source[ids[k]]]]
    BY DEF Read
<1>. HIDE DEF n, ids
<1>6. DOMAIN ids = 1..n
    BY <1>3
<1>7. \A k \in 1..n : Read(S)[k] = [id |-> ids[k], version |-> Source[ids[k]]]
    BY <1>5, <1>6
<1>8. Source \in [Ids -> Nat]
    BY DEF Source, TypeOK
<1>9. \A k \in 1..n : Read(S)[k] \in Copy
    <2>1. ASSUME NEW k \in 1..n PROVE Read(S)[k] \in Copy
        <3>1. ids[k] \in Ids
            BY <1>1, <1>3
        <3>2. Source[ids[k]] \in Nat
            BY <1>8, <3>1
        <3>3. [id |-> ids[k], version |-> Source[ids[k]]] \in Copy
            BY <3>1, <3>2 DEF Copy
        <3>4. Read(S)[k] = [id |-> ids[k], version |-> Source[ids[k]]]
            BY <1>7
        <3>. QED BY <3>3, <3>4
    <2>. QED BY <2>1
<1>10. Read(S) \in Seq(Copy) /\ Len(Read(S)) = n
    <2>1. Read(S) \in [1..n -> Copy]
        BY <1>5, <1>6, <1>9
    <2>2. n \in Nat
        BY <1>4
    <2>. HIDE DEF Copy
    <2>3. Read(S) \in Seq(Copy)
        BY <2>1, <2>2, SeqDef
    <2>4. DOMAIN Read(S) = 1..n
        BY <2>1
    <2>5. Len(Read(S)) \in Nat /\ DOMAIN Read(S) = 1..Len(Read(S))
        BY <2>3, LenProperties
    <2>6. \A k \in Nat : k \in 1..n <=> k \in 1..Len(Read(S))
        BY <2>4, <2>5
    <2>7. ASSUME NEW l \in Nat, \A k \in Nat : k \in 1..n <=> k \in 1..l
          PROVE  l = n
        <3>1. n \in 1..n <=> n \in 1..l
            BY <2>2, <2>7
        <3>2. l \in 1..n <=> l \in 1..l
            BY <2>7
        <3>. QED BY <2>2, <3>1, <3>2
    <2>8. Len(Read(S)) = n
        BY <2>5, <2>6, <2>7
    <2>. QED BY <2>3, <2>8
<1>11. \A k \in 1..n : Read(S)[k].id = ids[k] /\ Read(S)[k].version = Source[ids[k]]
    <2>1. ASSUME NEW k \in 1..n
          PROVE  Read(S)[k].id = ids[k] /\ Read(S)[k].version = Source[ids[k]]
        <3>1. Read(S)[k] = [id |-> ids[k], version |-> Source[ids[k]]]
            BY <1>7
        <3>. QED BY <3>1
    <2>. QED BY <2>1
<1>12. \A i \in S : (\E k \in 1..n : ids[k] = i) => \E k \in 1..n : Read(S)[k].id = i
    BY <1>11
<1>13. \A i : Rank(i) = Cardinality(Earlier(i, S))
    BY DEF Rank, S
<1>. QED BY <1>3, <1>4, <1>10, <1>11, <1>12, <1>13 DEF n, S

\* The next document of a page is one of the page, and what follows is its end.
LEMMA TodoShrinks ==
    ASSUME TypeOK, todo # <<>>
    PROVE  /\ todo \in Seq(Copy) /\ Tail(todo) \in Seq(Copy)
           /\ Head(todo) \in Copy
           /\ \E k \in 1..Len(batch) : Head(todo) = batch[k]
           /\ \E k \in 1..(Len(batch) + 1) : Tail(todo) = SubSeq(batch, k, Len(batch))
<1>1. batch \in Seq(Copy)
    BY DEF TypeOK, Copy
<1>2. PICK k \in 1..(Len(batch) + 1) : todo = SubSeq(batch, k, Len(batch))
    BY DEF TypeOK, EndOfPage
<1>3. k # Len(batch) + 1
    BY <1>1, <1>2, SubSeqEmpty
<1>4. k \in 1..Len(batch) /\ Len(batch) \in k..Len(batch)
    BY <1>1, <1>3
<1>5. Head(todo) = batch[k] /\ Tail(todo) = SubSeq(batch, k + 1, Len(batch))
    BY <1>1, <1>2, <1>4, HeadTailOfSubSeq
<1>6. k + 1 \in 1..(Len(batch) + 1)
    BY <1>4
<1>7. batch[k] \in Copy
    BY <1>1, <1>4
<1>8. todo \in Seq(Copy)
    BY <1>1, <1>2, <1>4, SubSeqProperties
<1>9. Tail(todo) \in Seq(Copy)
    BY <1>8
<1>. QED BY <1>4, <1>5, <1>6, <1>7, <1>8, <1>9

\* The service gives some transaction some version.
LEMMA ServiceChanges ==
    ASSUME TypeOK, CreateTransaction \/ UpdateTransaction \/ RemoveTransaction
    PROVE  \E i \in Ids, v \in Nat : Change(i, v)
<1>1. CASE CreateTransaction
    BY <1>1 DEF CreateTransaction
<1>2. CASE UpdateTransaction
    <2>1. PICK i \in Present(mongo) : Change(i, mongo[i] + 1)
        BY <1>2 DEF UpdateTransaction
    <2>2. i \in Ids /\ mongo[i] + 1 \in Nat
        BY DEF Present, TypeOK
    <2>. QED BY <2>1, <2>2
<1>3. CASE RemoveTransaction
    BY <1>3 DEF RemoveTransaction, Present
<1>. QED BY <1>1, <1>2, <1>3

\* The versions that a bulk write stores are numbers.
LEMMA BulkVersions ==
    ASSUME TypeOK, NEW i \in Ids, \E k \in DOMAIN batch : batch[k].id = i
    PROVE  \E k \in DOMAIN batch :
              batch[k].id = i /\ (CHOOSE b \in Range(batch) : b.id = i) = batch[k]
<1>1. \E b \in Range(batch) : b.id = i
    BY DEF Range
<1>2. /\ (CHOOSE b \in Range(batch) : b.id = i) \in Range(batch)
      /\ (CHOOSE b \in Range(batch) : b.id = i).id = i
    BY <1>1
<1>. QED BY <1>2 DEF Range

\* The values one loop starts with.
LEMMA LoopStarts == Init => LoopInv
<1>. SUFFICES ASSUME Init PROVE LoopInv
    OBVIOUS
<1>1. matching \subseteq Ids /\ (scan \notin Selective => matching = Ids)
    BY DEF Init, Present
<1>2. EndOfPage
    <2>1. SubSeq(batch, 1, Len(batch)) = <<>>
        BY SubSeqEmpty DEF Init
    <2>. QED BY <2>1 DEF Init, EndOfPage
<1>3. TypeOK
    <2>1. mongo \in [Ids -> Nat] /\ index \in [Ids -> Nat] /\ handled \in [Ids -> Nat]
        BY DEF Init
    <2>2. batch \in Seq([id: Ids, version: Nat]) /\ Len(batch) <= PageSize
        BY ScansAssumption DEF ScansAssumption, Init
    <2>3. changes \in 0..MaxChanges
        BY ScansAssumption DEF ScansAssumption, Init
    <2>4. scan \in Scans /\ descending \in BOOLEAN
        BY DEF Init
    <2>5. pc \in {"clear", "count"} /\ total = 0 /\ position = 0 /\ page = 1
        BY DEF Init
    <2>6. counted = {} /\ added = {} /\ left = {} /\ between = {} /\ raced = {}
        BY DEF Init
    <2>. QED BY <1>1, <1>2, <2>1, <2>2, <2>3, <2>4, <2>5, <2>6 DEF TypeOK
<1>4. PhaseInv
    BY <1>1 DEF PhaseInv, Init
<1>. QED BY <1>3, <1>4 DEF LoopInv

\* An index whose entries are numbers keeps them when one is removed.
LEMMA EntryRemoved ==
    ASSUME TypeOK, NEW i \in Ids
    PROVE  [index EXCEPT ![i] = 0] \in [Ids -> Nat]
BY DEF TypeOK

\* A change by the service leaves the loop where it is.
LEMMA LoopSeesChange ==
    ASSUME LoopInv, NEW i \in Ids, NEW v \in Nat, Change(i, v)
    PROVE  LoopInv'
<1>. USE DEF LoopInv, Change, scanVars
<1>1. mongo' \in [Ids -> Nat] /\ index' \in [Ids -> Nat]
    BY DEF TypeOK
<1>2. matching' \subseteq Ids /\ (scan \notin Selective => matching' = Ids)
    <2>1. matching' = matching \cup {i} \/ (scan \in Selective /\ matching' = matching \ {i})
        OBVIOUS
    <2>. QED BY <2>1 DEF TypeOK, PhaseInv
<1>3. added' \subseteq Ids /\ left' \subseteq Ids /\ between' \subseteq Ids /\ raced' \subseteq Ids
    <2>1. Selected \subseteq Ids /\ Selected' \subseteq Ids
        BY DEF Selected, Present
    <2>. QED BY <2>1 DEF TypeOK
<1>4. changes' \in 0..MaxChanges
    BY ScansAssumption DEF TypeOK, ScansAssumption
<1>5. TypeOK'
    BY <1>1, <1>2, <1>3, <1>4 DEF TypeOK, EndOfPage
<1>6. PhaseInv'
    BY <1>2 DEF PhaseInv, ReadsIndex
<1>. QED BY <1>5, <1>6

\* Clear, Count and the ways to an end.
LEMMA LoopTurns ==
    ASSUME LoopInv, Clear \/ Count \/ Refuse \/ Finish \/ Abort
    PROVE  LoopInv'
<1>. USE DEF LoopInv, unchangedBySteps
<1>1. CASE Clear
    BY <1>1 DEF Clear, sinceCount, TypeOK, EndOfPage, PhaseInv, ReadsIndex
<1>2. CASE Count
    <2>1. Cardinality(Selected) \in Nat /\ Selected \subseteq Ids
        BY SelectedAreIds, ScansAssumption, FS_Subset, FS_CardinalityType DEF ScansAssumption
    <2>. QED BY <1>2, <2>1 DEF Count, TypeOK, EndOfPage, PhaseInv, ReadsIndex
<1>3. CASE Refuse
    BY <1>3 DEF Refuse, sinceCount, TypeOK, EndOfPage, PhaseInv, ReadsIndex
<1>4. CASE Finish
    BY <1>4 DEF Finish, sinceCount, TypeOK, EndOfPage, PhaseInv, ReadsIndex
<1>5. CASE Abort
    BY <1>5 DEF Abort, sinceCount, TypeOK, EndOfPage, PhaseInv, ReadsIndex
<1>. QED BY <1>1, <1>2, <1>3, <1>4, <1>5

\* The page that is read is one, and all of it is to be handled.
LEMMA LoopReads ==
    ASSUME LoopInv, ReadPage
    PROVE  LoopInv'
<1>. USE DEF LoopInv, unchangedBySteps
<1>1. batch' \in Seq(Copy) /\ Len(batch') <= PageSize
    BY PageRead, ScansAssumption DEF ReadPage, ScansAssumption
<1>2. EndOfPage'
    <2>1. batch' = SubSeq(batch', 1, Len(batch'))
        BY <1>1, SubSeqFull
    <2>2. todo' = batch'
        BY DEF ReadPage
    <2>3. 1 \in 1..(Len(batch') + 1)
        BY <1>1
    <2>. QED BY <2>1, <2>2, <2>3 DEF EndOfPage
<1>3. TypeOK'
    BY <1>1, <1>2 DEF ReadPage, sinceCount, TypeOK, Copy
<1>. QED BY <1>3 DEF ReadPage, PhaseInv, ReadsIndex

\* The steps through a page.
LEMMA LoopHandles ==
    ASSUME LoopInv, Prepare \/ Send \/ LookUp \/ Delete
    PROVE  LoopInv'
<1>. USE DEF LoopInv, unchangedBySteps
<1>1. todo # <<>>
    BY DEF Prepare, Send, LookUp, Delete, Handles, PhaseInv
<1>2. Head(todo).id \in Ids /\ EndOfPage /\ batch \in Seq(Copy)
    BY <1>1, TodoShrinks DEF Copy, TypeOK
<1>3. \E k \in 1..(Len(batch) + 1) : Tail(todo) = SubSeq(batch, k, Len(batch))
    BY <1>1, TodoShrinks
<1>4. EndOfPage'
    BY <1>2, <1>3 DEF EndOfPage, Prepare, Send, LookUp, Delete, Handles
<1>5. index' \in [Ids -> Nat]
    <2>1. index' = index \/ index' = [index EXCEPT ![Head(todo).id] = 0]
        BY DEF Prepare, Send, LookUp, Delete, Handles
    <2>2. [index EXCEPT ![Head(todo).id] = 0] \in [Ids -> Nat]
        BY <1>2, EntryRemoved
    <2>. QED BY <2>1, <2>2 DEF TypeOK
<1>6. handled' \in [Ids -> Nat]
    <2>1. handled' = handled \/ handled' = [handled EXCEPT ![Head(todo).id] = @ + 1]
        BY DEF Prepare, Send, LookUp, Delete, Handles
    <2>2. \A i \in Ids : [handled EXCEPT ![i] = @ + 1] \in [Ids -> Nat]
        BY DEF TypeOK
    <2>3. [handled EXCEPT ![Head(todo).id] = @ + 1] \in [Ids -> Nat]
        BY <1>2, <2>2
    <2>. QED BY <2>1, <2>3 DEF TypeOK
<1>7. TypeOK'
    BY <1>4, <1>5, <1>6 DEF TypeOK, Prepare, Send, LookUp, Delete, Handles, sinceCount
<1>8. PhaseInv'
    <2>1. CASE Prepare
        BY <2>1 DEF Prepare, Handles, PhaseInv, ReadsIndex
    <2>2. CASE Send
        BY <2>2 DEF Send, Handles, PhaseInv, ReadsIndex
    <2>3. CASE LookUp
        BY <2>3 DEF LookUp, PhaseInv, ReadsIndex
    <2>4. CASE Delete
        BY <2>4 DEF Delete, PhaseInv, ReadsIndex
    <2>. QED BY <2>1, <2>2, <2>3, <2>4
<1>. QED BY <1>7, <1>8

\* After a page there is none until the next is read.
LEMMA LoopFinishesPage ==
    ASSUME LoopInv, FinishPage
    PROVE  LoopInv'
<1>. USE DEF LoopInv, unchangedBySteps
<1>1. index' \in [Ids -> Nat]
    <2>. DEFINE written(i) ==
            IF \E k \in DOMAIN batch : batch[k].id = i
            THEN (CHOOSE b \in Range(batch) : b.id = i).version ELSE index[i]
    <2>1. ASSUME NEW i \in Ids
          PROVE  written(i) \in Nat
        <3>1. CASE \E k \in DOMAIN batch : batch[k].id = i
            <4>1. PICK k \in DOMAIN batch :
                    (CHOOSE b \in Range(batch) : b.id = i) = batch[k]
                BY <3>1, BulkVersions
            <4>2. batch[k] \in Copy
                <5>1. batch \in Seq(Copy)
                    BY DEF TypeOK, Copy
                <5>. HIDE DEF Copy
                <5>. QED BY <5>1
            <4>. QED BY <3>1, <4>1, <4>2 DEF Copy
        <3>2. CASE ~\E k \in DOMAIN batch : batch[k].id = i
            BY <3>2 DEF TypeOK
        <3>. QED BY <3>1, <3>2
    <2>2. index' = IF scan \in Rewrites THEN [i \in Ids |-> written(i)] ELSE index
        BY DEF FinishPage
    <2>. HIDE DEF written
    <2>. QED BY <2>1, <2>2 DEF TypeOK
<1>2. EndOfPage'
    <2>1. batch' = <<>> /\ todo' = <<>>
        BY DEF FinishPage
    <2>2. SubSeq(batch', 1, Len(batch')) = <<>> /\ 1 \in 1..(Len(batch') + 1)
        BY <2>1, SubSeqEmpty
    <2>. QED BY <2>1, <2>2 DEF EndOfPage
<1>3. position' \in Nat /\ page' \in Nat \ {0}
    BY ScansAssumption DEF FinishPage, NextPosition, TypeOK, ScansAssumption
<1>4. batch' \in Seq(Copy) /\ Len(batch') <= PageSize
    BY ScansAssumption DEF FinishPage, ScansAssumption
<1>5. TypeOK'
    BY <1>1, <1>2, <1>3, <1>4 DEF TypeOK, FinishPage, sinceCount, Copy
<1>6. PhaseInv'
    BY DEF FinishPage, PhaseInv, ReadsIndex
<1>. QED BY <1>5, <1>6

\* Every step keeps the types and the phases.
LEMMA LoopStep == LoopInv /\ [Next]_vars => LoopInv'
<1>. SUFFICES ASSUME LoopInv, [Next]_vars PROVE LoopInv'
    OBVIOUS
<1>1. CASE UNCHANGED vars
    BY <1>1 DEF vars, scanVars, observerVars, sinceCount, LoopInv, TypeOK, EndOfPage, PhaseInv,
        ReadsIndex
<1>2. CASE CreateTransaction \/ UpdateTransaction \/ RemoveTransaction
    BY <1>2, ServiceChanges, LoopSeesChange DEF LoopInv
<1>3. CASE Step \/ Abort
    BY <1>3, LoopTurns, LoopReads, LoopHandles, LoopFinishesPage DEF Step
<1>. QED BY <1>1, <1>2, <1>3 DEF Next

\* Whatever is changed meanwhile, a loop that runs is in one of its phases, its
\* page is no longer than the limit, and what it has still to handle is the end of
\* that page.
THEOREM TypeCorrect == Spec => []TypeOK
<1>1. LoopInv => TypeOK
    BY DEF LoopInv
<1>. QED BY <1>1, LoopStarts, LoopStep, PTL DEF Spec

(***************************************************************************)
(* Places in what the loop reads.                                          *)
(***************************************************************************)

\* What is still to be handled is of the page, and so are transactions.
LEMMA TodoInBatch ==
    ASSUME TypeOK
    PROVE  /\ InBatch \subseteq Ids
           /\ todo \in Seq(Copy)
           /\ \A k \in DOMAIN todo : todo[k].id \in InBatch
<1>1. batch \in Seq(Copy)
    BY DEF TypeOK, Copy
<1>2. InBatch \subseteq Ids
    <2>1. \A k \in DOMAIN batch : batch[k] \in Copy
        <3>. HIDE DEF Copy
        <3>. QED BY <1>1
    <2>. QED BY <2>1 DEF InBatch, Copy
<1>3. PICK k \in 1..(Len(batch) + 1) : todo = SubSeq(batch, k, Len(batch))
    BY DEF TypeOK, EndOfPage
<1>. DEFINE n == Len(batch)
<1>4. \A m \in k..n : batch[m] \in Copy
    <2>. HIDE DEF Copy
    <2>. QED BY <1>1
<1>5. n \in Nat /\ k \in Int
    BY <1>1
<1>6. /\ todo \in Seq(Copy)
      /\ Len(todo) = IF k <= n THEN n - k + 1 ELSE 0
      /\ \A m \in 1..(n - k + 1) : todo[m] = batch[k + m - 1]
    <2>. HIDE DEF n
    <2>1. todo = SubSeq(batch, k, n)
        BY <1>3 DEF n
    <2>. QED BY <1>4, <1>5, <2>1, SubSeqProperties
<1>7. ASSUME NEW m \in DOMAIN todo
      PROVE  todo[m].id \in InBatch
    <2>1. m \in 1..(n - k + 1)
        BY <1>5, <1>6
    <2>2. todo[m] = batch[k + m - 1] /\ k + m - 1 \in 1..n
        BY <1>3, <1>5, <1>6, <2>1
    <2>. QED BY <1>1, <2>2 DEF InBatch
<1>. QED BY <1>2, <1>6, <1>7

\* A number of transactions is no larger than that of some more.
LEMMA FewerEarlier ==
    ASSUME NEW S \in SUBSET Ids, NEW T \in SUBSET S
    PROVE  Cardinality(T) \in Nat /\ Cardinality(S) \in Nat /\ Cardinality(T) <= Cardinality(S)
<1>1. IsFiniteSet(S)
    BY ScansAssumption, FS_Subset DEF ScansAssumption
<1>. QED BY <1>1, FS_Subset, FS_CardinalityType

\* How many come before a transaction is a number.
LEMMA RankIsNatural == \A i : Rank(i) \in Nat
BY SelectedAreIds, FewerEarlier DEF Rank, Earlier

\* What a change by the service does to the order in which a loop reads.
LEMMA ChangeAndOrder ==
    ASSUME TypeOK, NEW i \in Ids, NEW v \in Nat, Change(i, v)
    PROVE  /\ left' = {} => left = {} /\ Selected \subseteq Selected'
           /\ added' = {} => added = {} /\ Selected' \subseteq Selected
           /\ Selected' \subseteq Selected \cup added'
           /\ between' = {} =>
                /\ between = {}
                /\ \A k \in Reached : Earlier(k, Selected)' \subseteq Earlier(k, Selected)
           /\ between' = {} /\ left' = {} =>
                \A k \in Selected : Earlier(k, Selected)' = Earlier(k, Selected)
<1>1. /\ added' = added \cup (Selected' \ Selected)
      /\ left' = left \cup (Selected \ Selected')
      /\ between' = between \cup {j \in Selected' \ Selected : \E k \in Reached : Precedes(j, k)}
      /\ descending' = descending
    BY DEF Change
<1>2. \A k : /\ Earlier(k, Selected) = {j \in Selected : Precedes(j, k)}
             /\ Earlier(k, Selected)' = {j \in Selected' : Precedes(j, k)}
    BY <1>1 DEF Earlier, Precedes
<1>3. Selected \subseteq Reached
    BY DEF Reached
<1>4. ASSUME between' = {}
      PROVE  \A k \in Reached : Earlier(k, Selected)' \subseteq Earlier(k, Selected)
    <2>1. ASSUME NEW k \in Reached, NEW j \in Earlier(k, Selected)'
          PROVE  j \in Earlier(k, Selected)
        <3>1. j \in Selected' /\ Precedes(j, k)
            BY <1>2
        <3>2. j \in Selected
            BY <1>1, <1>4, <3>1
        <3>. QED BY <1>2, <3>1, <3>2
    <2>. QED BY <2>1
<1>5. ASSUME between' = {}, left' = {}, NEW k \in Selected
      PROVE  Earlier(k, Selected)' = Earlier(k, Selected)
    <2>1. Earlier(k, Selected)' \subseteq Earlier(k, Selected)
        BY <1>3, <1>4, <1>5
    <2>2. Selected \subseteq Selected'
        BY <1>1, <1>5
    <2>3. Earlier(k, Selected) \subseteq Earlier(k, Selected)'
        BY <1>2, <2>2
    <2>. QED BY <2>1, <2>3
<1>. QED BY <1>1, <1>4, <1>5

\* The ranks after it.
LEMMA ChangeAndRanks ==
    ASSUME TypeOK, NEW i \in Ids, NEW v \in Nat, Change(i, v), between' = {}
    PROVE  /\ \A k \in Reached : Rank(k)' \in Nat /\ Rank(k)' <= Rank(k)
           /\ left' = {} => \A k \in Selected : Rank(k)' = Rank(k)
<1>1. ASSUME NEW k \in Reached
      PROVE  Rank(k)' \in Nat /\ Rank(k)' <= Rank(k)
    <2>1. Earlier(k, Selected)' \subseteq Earlier(k, Selected)
        BY ChangeAndOrder
    <2>2. Earlier(k, Selected) \in SUBSET Ids
        BY SelectedAreIds DEF Earlier
    <2>3. /\ Cardinality(Earlier(k, Selected)') \in Nat
          /\ Cardinality(Earlier(k, Selected)') <= Cardinality(Earlier(k, Selected))
        BY <2>1, <2>2, FewerEarlier
    <2>. QED BY <2>3 DEF Rank
<1>2. ASSUME left' = {}, NEW k \in Selected
      PROVE  Rank(k)' = Rank(k)
    <2>1. Earlier(k, Selected)' = Earlier(k, Selected)
        BY <1>2, ChangeAndOrder
    <2>. QED BY <2>1 DEF Rank
<1>. QED BY <1>1, <1>2

\* The loops themselves change it only where fix-diff deletes.
LEMMA StepsKeepOrder ==
    ASSUME LoopInv, Step \/ Abort, ~Delete
    PROVE  /\ Selected' = Selected
           /\ \A k : Earlier(k, Selected)' = Earlier(k, Selected) /\ Rank(k)' = Rank(k)
<1>1. scan' = scan /\ descending' = descending /\ matching' = matching /\ mongo' = mongo
    BY DEF Step, Clear, Count, ReadPage, Refuse, Prepare, Send, LookUp, Handles, FinishPage,
        Finish, Abort, unchangedBySteps
<1>2. ReadsIndex => index' = index
    BY DEF LoopInv, PhaseInv, Step, Clear, Count, ReadPage, Refuse, Prepare, Send, LookUp,
        Handles, FinishPage, Finish, Abort, ReadsIndex, Rewrites
<1>3. Selected' = Selected
    BY <1>1, <1>2 DEF Selected, Source, ReadsIndex, Present
<1>4. \A k : Earlier(k, Selected)' = Earlier(k, Selected)
    BY <1>1, <1>3 DEF Earlier, Precedes
<1>. QED BY <1>3, <1>4 DEF Rank

\* Nor do they, after the count, change the place of the page before it is done.
LEMMA SkipStays ==
    ASSUME total' = total, position' = position, page' = page, scan' = scan
    PROVE  Skip' = Skip /\ Limit' = Limit
BY DEF Skip, Limit, ReadsIndex

\* They begin at the first place.
LEMMA SkipAtStart ==
    ASSUME LoopInv, Count
    PROVE  position' = 0 /\ Skip' = 0
<1>1. position' = 0 /\ page' = 1
    BY DEF Count, LoopInv, PhaseInv
<1>2. Limit' \in Nat
    <2>1. TypeOK'
        BY LoopStep DEF LoopInv, Next, Step
    <2>. QED BY <2>1, ScansAssumption, SmallerOfTwo DEF ScansAssumption, TypeOK, Limit
<1>3. Limit' * (page' - 1) = 0
    <2>1. page' - 1 = 0 /\ \A n \in Nat : n * 0 = 0
        BY <1>1
    <2>. QED BY <1>2, <2>1
<1>. QED BY <1>1, <1>3 DEF Skip

\* When it is, a replay and a loop over the index go on by the limit.
LEMMA SkipMoves ==
    ASSUME LoopInv, FinishPage, scan = "replay" \/ ReadsIndex
    PROVE  Skip' = Skip + Limit /\ Limit' = Limit
<1>1. Limit' = Limit
    BY DEF FinishPage, unchangedBySteps, Limit
<1>2. CASE scan = "replay"
    BY <1>1, <1>2 DEF FinishPage, NextPosition, unchangedBySteps, Skip, Limit, ReadsIndex
<1>3. CASE ReadsIndex
    <2>1. Limit \in Nat /\ page \in Nat \ {0}
        BY LimitIsNatural DEF LoopInv, TypeOK
    <2>2. Limit * ((page + 1) - 1) = Limit * (page - 1) + Limit
        BY <2>1
    <2>3. page' = page + 1 /\ scan' = scan
        BY <1>3 DEF FinishPage, unchangedBySteps
    <2>. QED BY <1>1, <1>3, <2>2, <2>3 DEF Skip, ReadsIndex
<1>. QED BY <1>2, <1>3

\* Nothing of an empty page is to be handled.
LEMMA EmptyPage ==
    ASSUME TypeOK, batch = <<>>
    PROVE  todo = <<>> /\ InBatch = {}
<1>1. PICK k \in 1..(Len(batch) + 1) : todo = SubSeq(batch, k, Len(batch))
    BY DEF TypeOK, EndOfPage
<1>2. k = 1 /\ Len(batch) = 0
    BY <1>1
<1>. QED BY <1>1, <1>2, SubSeqEmpty DEF InBatch

(***************************************************************************)
(* Nothing twice.                                                          *)
(***************************************************************************)

\* How far the pages reach that were read.
Bound == IF pc = "handle" THEN Skip + Limit ELSE Skip

Distinct(copies) == \A k, l \in DOMAIN copies : copies[k].id = copies[l].id => k = l

\* What was sent, or is to be, has its place before the next page.
WithinBound == \A i \in Ids : handled[i] > 0 \/ i \in InBatch => Rank(i) < Bound

NotSentYet == \A k \in DOMAIN todo : handled[todo[k].id] = 0

SentOnce == \A i \in Ids : handled[i] <= 1

Sends == scan \in {"replay", "file"} /\ pc \in {"read", "handle"}

TwiceInv ==
    between = {} => SentOnce /\ (Sends => WithinBound /\ NotSentYet /\ Distinct(todo))

\* At first nothing is sent.
LEMMA TwiceStarts == Init => TwiceInv
<1>1. Init => SentOnce /\ ~Sends
    BY DEF Init, SentOnce, Sends
<1>. QED BY <1>1 DEF TwiceInv

\* A change by the service moves nothing that was read behind the next page.
LEMMA TwiceSeesChange ==
    ASSUME LoopInv, TwiceInv, NEW i \in Ids, NEW v \in Nat, Change(i, v)
    PROVE  TwiceInv'
<1>. SUFFICES ASSUME between' = {}
              PROVE  SentOnce' /\ (Sends' => (WithinBound /\ NotSentYet /\ Distinct(todo))')
    BY DEF TwiceInv
<1>1. UNCHANGED <<scan, scanVars>>
    BY DEF Change
<1>. USE <1>1 DEF scanVars
<1>2. between = {}
    BY ChangeAndOrder DEF LoopInv
<1>3. SentOnce' /\ (Sends' => Sends)
    BY <1>2 DEF TwiceInv, SentOnce, Sends
<1>4. ASSUME Sends'
      PROVE  (WithinBound /\ NotSentYet /\ Distinct(todo))'
    <2>1. WithinBound /\ NotSentYet /\ Distinct(todo)
        BY <1>2, <1>3, <1>4 DEF TwiceInv
    <2>2. Bound' = Bound /\ InBatch' = InBatch
        BY SkipStays DEF Bound, InBatch
    <2>3. ASSUME NEW j \in Ids, handled[j] > 0 \/ j \in InBatch
          PROVE  Rank(j)' < Bound
        <3>1. j \in Reached
            BY <2>3 DEF Reached
        <3>2. Rank(j)' \in Nat /\ Rank(j)' <= Rank(j) /\ Rank(j) < Bound
            BY <2>1, <2>3, <3>1, ChangeAndRanks DEF WithinBound, LoopInv
        <3>3. Rank(j) \in Nat /\ Bound \in Nat
            BY RankIsNatural, SkipIsNatural, LimitIsNatural DEF Bound, LoopInv
        <3>. QED BY <3>2, <3>3
    <2>4. WithinBound'
        BY <2>2, <2>3 DEF WithinBound
    <2>. QED BY <2>1, <2>4 DEF NotSentYet, Distinct
<1>. QED BY <1>3, <1>4

\* A page has none that was sent before, as those have their places before it.
LEMMA TwiceReads ==
    ASSUME LoopInv, TwiceInv, ReadPage
    PROVE  TwiceInv'
<1>. SUFFICES ASSUME between' = {}, Sends'
              PROVE  (WithinBound /\ NotSentYet /\ Distinct(todo))'
    BY DEF TwiceInv, ReadPage, sinceCount, SentOnce
<1>. DEFINE r == Read(Selected)
            n == PageLength(Selected)
<1>1. /\ batch' = r /\ todo' = r /\ handled' = handled /\ pc = "read" /\ pc' = "handle"
      /\ between = {} /\ Sends
    BY DEF ReadPage, sinceCount, unchangedBySteps, Sends
<1>2. Skip' = Skip /\ Limit' = Limit /\ \A k : Rank(k)' = Rank(k)
    BY StepsKeepOrder, SkipStays DEF ReadPage, Step, Delete, unchangedBySteps
<1>3. /\ r \in Seq(Copy) /\ Len(r) = n /\ n \in 0..PageSize
      /\ \A k \in 1..n : r[k].id \in Selected /\ Rank(r[k].id) = Skip + k - 1
    BY PageRead DEF LoopInv
<1>4. Skip \in Nat /\ Limit \in Nat /\ n <= Limit
    <2>1. Cardinality(Selected) \in Nat
        BY SelectedAreIds, FewerEarlier
    <2>. QED BY <2>1, SkipIsNatural, LimitIsNatural DEF LoopInv, PageLength
<1>5. WithinBound /\ \A i \in Ids : handled[i] > 0 => Rank(i) < Skip
    BY <1>1 DEF TwiceInv, WithinBound, Bound
<1>. HIDE DEF r, n
<1>6. DOMAIN r = 1..n
    BY <1>3
<1>7. Selected \subseteq Ids
    BY SelectedAreIds
<1>8. handled \in [Ids -> Nat]
    BY DEF LoopInv, TypeOK
<1>9. WithinBound'
    <2>1. ASSUME NEW i \in Ids, handled[i] > 0 \/ \E k \in 1..n : r[k].id = i
          PROVE  Rank(i) < Skip + Limit
        <3>1. CASE handled[i] > 0
            BY <1>4, <1>5, <3>1, RankIsNatural
        <3>2. CASE \E k \in 1..n : r[k].id = i
            BY <1>3, <1>4, <3>2
        <3>. QED BY <2>1, <3>1, <3>2
    <2>2. InBatch' = {r[k].id : k \in 1..n}
        BY <1>1, <1>6 DEF InBatch
    <2>3. Bound' = Skip + Limit
        BY <1>1, <1>2 DEF Bound
    <2>. QED BY <1>1, <1>2, <2>1, <2>2, <2>3 DEF WithinBound
<1>10. NotSentYet'
    <2>1. ASSUME NEW k \in 1..n
          PROVE  handled[r[k].id] = 0
        <3>1. r[k].id \in Ids /\ Rank(r[k].id) >= Skip
            BY <1>3, <1>4, <1>7
        <3>2. ~(handled[r[k].id] > 0)
            BY <1>4, <1>5, <3>1, RankIsNatural
        <3>. QED BY <1>8, <3>1, <3>2
    <2>. QED BY <1>1, <1>6, <2>1 DEF NotSentYet
<1>11. Distinct(r)
    <2>1. ASSUME NEW k \in 1..n, NEW l \in 1..n, r[k].id = r[l].id
          PROVE  k = l
        <3>1. Skip + k - 1 = Skip + l - 1
            BY <1>3, <2>1
        <3>. QED BY <1>3, <1>4, <3>1
    <2>. QED BY <1>6, <2>1 DEF Distinct
<1>12. Distinct(todo)'
    BY <1>1, <1>11 DEF Distinct
<1>. QED BY <1>9, <1>10, <1>12

\* What is sent was not, and is not to be sent again.
LEMMA TwiceSends ==
    ASSUME LoopInv, TwiceInv, Send
    PROVE  TwiceInv'
<1>. SUFFICES ASSUME between' = {}
              PROVE  SentOnce' /\ (WithinBound /\ NotSentYet /\ Distinct(todo))'
    BY DEF TwiceInv
<1>. DEFINE h == Head(todo).id
<1>1. /\ between = {} /\ Sends /\ todo # <<>> /\ todo' = Tail(todo)
      /\ handled' = [handled EXCEPT ![h] = @ + 1]
      /\ UNCHANGED <<batch, pc, position, page, total, scan>>
    BY DEF Send, Handles, sinceCount, unchangedBySteps, Sends
<1>2. SentOnce /\ WithinBound /\ NotSentYet /\ Distinct(todo)
    BY <1>1 DEF TwiceInv
<1>3. todo \in Seq(Copy) /\ InBatch \subseteq Ids /\ h \in InBatch
    <2>1. /\ todo \in Seq(Copy) /\ InBatch \subseteq Ids
          /\ \A k \in DOMAIN todo : todo[k].id \in InBatch
        BY TodoInBatch DEF LoopInv
    <2>2. 1 \in DOMAIN todo /\ Head(todo) = todo[1]
        <3>. HIDE DEF Copy
        <3>. QED BY <1>1, <2>1
    <2>. QED BY <2>1, <2>2
<1>4. /\ Len(todo) >= 1 /\ Head(todo) = todo[1]
      /\ DOMAIN todo = 1..Len(todo) /\ DOMAIN Tail(todo) = 1..(Len(todo) - 1)
      /\ \A k \in DOMAIN Tail(todo) : Tail(todo)[k] = todo[k + 1]
    <2>. HIDE DEF Copy
    <2>. QED BY <1>1, <1>3
<1>5. handled \in [Ids -> Nat] /\ h \in Ids /\ handled[h] = 0
    <2>1. 1 \in DOMAIN todo
        BY <1>4
    <2>. QED BY <1>2, <1>3, <1>4, <2>1 DEF LoopInv, TypeOK, NotSentYet
<1>6. \A k \in DOMAIN Tail(todo) :
          k + 1 \in DOMAIN todo /\ 1 \in DOMAIN todo /\ todo[k + 1].id # h
    BY <1>2, <1>4 DEF Distinct
<1>7. \A k \in DOMAIN todo : todo[k].id \in Ids
    BY <1>3, TodoInBatch DEF LoopInv
<1>. HIDE DEF h
<1>8. SentOnce'
    BY <1>1, <1>2, <1>5 DEF SentOnce
<1>9. NotSentYet'
    <2>1. ASSUME NEW k \in DOMAIN Tail(todo)
          PROVE  handled'[Tail(todo)[k].id] = 0
        <3>1. /\ Tail(todo)[k] = todo[k + 1] /\ k + 1 \in DOMAIN todo
              /\ todo[k + 1].id # h /\ todo[k + 1].id \in Ids
            BY <1>4, <1>6, <1>7
        <3>2. handled[todo[k + 1].id] = 0
            BY <1>2, <3>1 DEF NotSentYet
        <3>. QED BY <1>1, <1>5, <3>1, <3>2
    <2>. QED BY <1>1, <2>1 DEF NotSentYet
<1>10. Distinct(todo)'
    <2>1. ASSUME NEW k \in DOMAIN Tail(todo), NEW l \in DOMAIN Tail(todo),
                 Tail(todo)[k].id = Tail(todo)[l].id
          PROVE  k = l
        <3>1. todo[k + 1].id = todo[l + 1].id /\ k + 1 \in DOMAIN todo /\ l + 1 \in DOMAIN todo
            BY <1>4, <1>6, <2>1
        <3>2. k + 1 = l + 1
            BY <1>2, <3>1 DEF Distinct
        <3>. QED BY <1>4, <3>2
    <2>. QED BY <1>1, <2>1 DEF Distinct
<1>11. WithinBound'
    <2>1. Bound' = Bound /\ InBatch' = InBatch
        BY <1>1, SkipStays DEF Bound, InBatch
    <2>2. \A k : Rank(k)' = Rank(k)
        BY StepsKeepOrder DEF Step, Send, Handles, Delete
    <2>3. ASSUME NEW j \in Ids, handled'[j] > 0
          PROVE  handled[j] > 0 \/ j \in InBatch
        BY <1>1, <1>3, <1>5, <2>3
    <2>. QED BY <1>2, <2>1, <2>2, <2>3 DEF WithinBound
<1>. QED BY <1>8, <1>9, <1>10, <1>11

\* The next page begins where this one ends.
LEMMA TwiceFinishesPage ==
    ASSUME LoopInv, TwiceInv, FinishPage
    PROVE  TwiceInv'
<1>. SUFFICES ASSUME between' = {}
              PROVE  SentOnce' /\ (Sends' => (WithinBound /\ NotSentYet /\ Distinct(todo))')
    BY DEF TwiceInv
<1>1. /\ between = {} /\ todo = <<>> /\ todo' = <<>> /\ handled' = handled /\ pc = "handle"
      /\ batch' = <<>> /\ scan' = scan /\ pc' # "handle"
    BY DEF FinishPage, sinceCount, unchangedBySteps
<1>2. SentOnce'
    BY <1>1 DEF TwiceInv, SentOnce
<1>3. ASSUME Sends'
      PROVE  (WithinBound /\ NotSentYet /\ Distinct(todo))'
    <2>1. Sends /\ (scan = "replay" \/ ReadsIndex)
        BY <1>1, <1>3 DEF Sends, ReadsIndex
    <2>2. WithinBound
        BY <1>1, <2>1 DEF TwiceInv
    <2>3. Bound' = Bound
        BY <1>1, <2>1, SkipMoves DEF Bound
    <2>4. \A k : Rank(k)' = Rank(k)
        BY <1>1, StepsKeepOrder DEF Step, FinishPage, Delete
    <2>5. InBatch' = {}
        BY <1>1 DEF InBatch
    <2>6. WithinBound'
        BY <1>1, <2>2, <2>3, <2>4, <2>5 DEF WithinBound
    <2>. QED BY <1>1, <2>6 DEF NotSentYet, Distinct
<1>. QED BY <1>2, <1>3

\* The other steps send nothing, and only Count starts to.
LEMMA TwiceElse ==
    ASSUME LoopInv, TwiceInv,
           Clear \/ Count \/ Refuse \/ Prepare \/ LookUp \/ Delete \/ Finish \/ Abort
    PROVE  TwiceInv'
<1>. SUFFICES ASSUME between' = {}
              PROVE  SentOnce' /\ (Sends' => (WithinBound /\ NotSentYet /\ Distinct(todo))')
    BY DEF TwiceInv
<1>1. CASE Count
    <2>1. /\ handled' = handled /\ handled = [i \in Ids |-> 0]
          /\ batch = <<>> /\ batch' = batch /\ todo' = todo
        BY <1>1 DEF Count, LoopInv, PhaseInv
    <2>2. todo = <<>> /\ InBatch = {}
        BY <2>1, EmptyPage DEF LoopInv
    <2>3. InBatch' = {}
        BY <2>1, <2>2 DEF InBatch
    <2>4. \A i \in Ids : handled'[i] = 0
        BY <2>1
    <2>. QED BY <2>1, <2>2, <2>3, <2>4 DEF SentOnce, WithinBound, NotSentYet, Distinct
<1>2. CASE ~Count
    <2>1. between' = between /\ handled' = handled
        BY <1>2 DEF Clear, Refuse, Prepare, LookUp, Delete, Finish, Abort, Handles, sinceCount
    <2>2. ~Sends'
        BY <1>2 DEF Clear, Refuse, Prepare, LookUp, Delete, Finish, Abort, Handles, Sends,
            unchangedBySteps, Rewrites, LoopInv, PhaseInv
    <2>. QED BY <2>1, <2>2 DEF TwiceInv, SentOnce
<1>. QED BY <1>1, <1>2

\* Every step keeps what is sent before the next page.
LEMMA TwiceStep == LoopInv /\ TwiceInv /\ [Next]_vars => TwiceInv'
<1>. SUFFICES ASSUME LoopInv, TwiceInv, [Next]_vars PROVE TwiceInv'
    OBVIOUS
<1>1. CASE UNCHANGED vars
    BY <1>1 DEF vars, scanVars, observerVars, sinceCount, TwiceInv, SentOnce, Sends,
        WithinBound, NotSentYet, Distinct, InBatch, Bound, Skip, Limit, ReadsIndex, Rank,
        Earlier, Precedes, Selected, Source, Present
<1>2. CASE CreateTransaction \/ UpdateTransaction \/ RemoveTransaction
    BY <1>2, ServiceChanges, TwiceSeesChange DEF LoopInv
<1>3. CASE Step \/ Abort
    BY <1>3, TwiceReads, TwiceSends, TwiceFinishesPage, TwiceElse DEF Step
<1>. QED BY <1>1, <1>2, <1>3 DEF Next

\* A replay sends no transaction twice, and a file has none twice, however many go
\* or are changed, as long as none came in before one that is there or was read.
THEOREM NothingIsSentTwice == Spec => []NothingTwice
<1>1. TypeOK /\ TwiceInv => NothingTwice
    BY DEF TwiceInv, SentOnce, NothingTwice, OnlyAppended
<1>2. LoopInv => TypeOK
    BY DEF LoopInv
<1>. QED BY <1>1, <1>2, LoopStarts, LoopStep, TwiceStarts, TwiceStep, PTL DEF Spec

(***************************************************************************)
(* What was counted stays first.                                           *)
(***************************************************************************)

\* Nothing went, and nothing came in before something else.
Steady == left = {} /\ between = {}

\* What was counted is there and nothing else is before it; the rest was added.
CountedFirst ==
    /\ counted \subseteq Selected /\ Selected \subseteq counted \cup added
    /\ \A k \in counted : Earlier(k, Selected) \subseteq counted

PrefixInv == scan # "check" /\ pc \in {"read", "handle", "done"} /\ Steady => CountedFirst

\* Before the count there is nothing to say.
LEMMA PrefixStarts == Init => PrefixInv
BY DEF Init, PrefixInv

\* What the service does in the meantime leaves it so.
LEMMA CountedFirstStays ==
    ASSUME LoopInv, CountedFirst, NEW i \in Ids, NEW v \in Nat, Change(i, v), Steady'
    PROVE  CountedFirst'
<1>1. counted' = counted /\ added \subseteq added'
    BY DEF Change, scanVars
<1>2. /\ Selected \subseteq Selected' /\ Selected' \subseteq Selected \cup added'
      /\ \A k \in Selected : Earlier(k, Selected)' = Earlier(k, Selected)
    BY ChangeAndOrder DEF Steady, LoopInv
<1>. QED BY <1>1, <1>2 DEF CountedFirst

\* A change by the service leaves what was counted first.
LEMMA PrefixSeesChange ==
    ASSUME LoopInv, PrefixInv, NEW i \in Ids, NEW v \in Nat, Change(i, v)
    PROVE  PrefixInv'
<1>. SUFFICES ASSUME scan # "check", pc \in {"read", "handle", "done"}, Steady'
              PROVE  CountedFirst'
    BY DEF PrefixInv, Change, scanVars
<1>1. Steady
    BY ChangeAndOrder DEF Steady, LoopInv
<1>. QED BY <1>1, CountedFirstStays DEF PrefixInv

\* So do the steps of the loop, and the count makes it so.
LEMMA PrefixSeesStep ==
    ASSUME LoopInv, PrefixInv, Step \/ Abort
    PROVE  PrefixInv'
<1>. SUFFICES ASSUME scan' # "check", pc' \in {"read", "handle", "done"}, Steady'
              PROVE  CountedFirst'
    BY DEF PrefixInv
<1>1. ~Delete
    BY DEF Delete, LoopInv, PhaseInv, unchangedBySteps
<1>2. Selected' = Selected /\ \A k : Earlier(k, Selected)' = Earlier(k, Selected)
    BY <1>1, StepsKeepOrder
<1>3. CASE Count
    <2>1. counted' = Selected
        BY <1>3 DEF Count
    <2>2. \A k : Earlier(k, Selected) \subseteq Selected
        BY DEF Earlier
    <2>. QED BY <1>2, <2>1, <2>2 DEF CountedFirst
<1>4. CASE ~Count
    <2>1. /\ counted' = counted /\ added' = added /\ left' = left /\ between' = between
          /\ scan' = scan /\ pc \in {"read", "handle"}
        BY <1>1, <1>4 DEF Step, Clear, ReadPage, Refuse, Prepare, Send, LookUp, Handles, FinishPage,
            Finish, Abort, unchangedBySteps, sinceCount
    <2>2. CountedFirst
        BY <2>1 DEF PrefixInv, Steady
    <2>. QED BY <1>2, <2>1, <2>2 DEF CountedFirst
<1>. QED BY <1>3, <1>4

\* Every step leaves what was counted first.
LEMMA PrefixStep == LoopInv /\ PrefixInv /\ [Next]_vars => PrefixInv'
<1>. SUFFICES ASSUME LoopInv, PrefixInv, [Next]_vars PROVE PrefixInv'
    OBVIOUS
<1>1. CASE UNCHANGED vars
    BY <1>1 DEF vars, scanVars, observerVars, sinceCount, PrefixInv, Steady, CountedFirst,
        Earlier, Precedes, Selected, Source, ReadsIndex, Present
<1>2. CASE CreateTransaction \/ UpdateTransaction \/ RemoveTransaction
    BY <1>2, ServiceChanges, PrefixSeesChange DEF LoopInv
<1>3. CASE Step \/ Abort
    BY <1>3, PrefixSeesStep
<1>. QED BY <1>1, <1>2, <1>3 DEF Next

\* So what was counted has the first places, as many as were counted.
LEMMA CountedRanks ==
    ASSUME LoopInv, CountedFirst, pc \in {"read", "handle", "delete", "done"}
    PROVE  /\ \A k \in counted : Rank(k) < total
           /\ total <= Cardinality(Selected) /\ Cardinality(Selected) \in Nat
<1>1. total = Cardinality(counted) /\ counted \in SUBSET Ids
    BY DEF LoopInv, PhaseInv, TypeOK
<1>2. ASSUME NEW k \in counted
      PROVE  Rank(k) < total
    <2>1. Earlier(k, Selected) \subseteq Earlier(k, counted)
        BY DEF CountedFirst, Earlier
    <2>2. Cardinality(Earlier(k, counted)) < Cardinality(counted)
        BY <1>1, RankIsBelow
    <2>3. Earlier(k, counted) \in SUBSET Ids
        BY <1>1 DEF Earlier
    <2>. QED BY <1>1, <2>1, <2>2, <2>3, FewerEarlier DEF Rank
<1>3. counted \subseteq Selected
    BY DEF CountedFirst
<1>. QED BY <1>1, <1>2, <1>3, SelectedAreIds, FewerEarlier

\* Behind each of the others come all that were counted.
LEMMA AddedRanks ==
    ASSUME LoopInv, CountedFirst, pc \in {"read", "handle", "delete", "done"},
           NEW i \in Selected, Rank(i) < total
    PROVE  i \in counted
<1>. SUFFICES ASSUME i \notin counted PROVE FALSE
    OBVIOUS
<1>1. total = Cardinality(counted) /\ counted \in SUBSET Ids /\ Selected \in SUBSET Ids
    BY SelectedAreIds DEF LoopInv, PhaseInv, TypeOK
<1>2. counted \subseteq Earlier(i, Selected)
    <2>1. ASSUME NEW k \in counted
          PROVE  k \in Earlier(i, Selected)
        <3>1. i \in Nat /\ k \in Nat /\ k \in Selected /\ i # k
            BY <1>1, ScansAssumption DEF ScansAssumption, CountedFirst
        <3>2. Precedes(i, k) \/ Precedes(k, i)
            BY <3>1 DEF Precedes
        <3>3. ~Precedes(i, k)
            BY DEF CountedFirst, Earlier
        <3>. QED BY <3>1, <3>2, <3>3 DEF Earlier
    <2>. QED BY <2>1
<1>3. Earlier(i, Selected) \in SUBSET Ids
    BY <1>1 DEF Earlier
<1>4. Cardinality(counted) <= Rank(i)
    BY <1>2, <1>3, FewerEarlier DEF Rank
<1>. QED BY <1>1, <1>4, RankIsNatural, FewerEarlier

(***************************************************************************)
(* The counter of a replay, a file or a check does not run ahead.          *)
(***************************************************************************)

PlaceInv ==
    (scan = "replay" \/ ReadsIndex) =>
        /\ pc \in {"read", "handle", "delete"} => position <= Skip
        /\ pc \in {"handle", "delete"} => Len(batch) <= Limit

\* The counter begins at the first place.
LEMMA PlaceStarts == Init => PlaceInv
BY DEF Init, PlaceInv

\* Every step leaves the counter behind the place of the page.
LEMMA PlaceStep == LoopInv /\ PlaceInv /\ [Next]_vars => PlaceInv'
<1>. SUFFICES ASSUME LoopInv, PlaceInv, [Next]_vars, (scan = "replay" \/ ReadsIndex)'
              PROVE  /\ pc' \in {"read", "handle", "delete"} => position' <= Skip'
                     /\ pc' \in {"handle", "delete"} => Len(batch') <= Limit'
    BY DEF PlaceInv
<1>0. scan' = scan /\ (scan = "replay" \/ ReadsIndex)
    BY DEF Next, Step, Clear, Count, ReadPage, Refuse, Prepare, Send, LookUp, Handles, Delete,
        FinishPage, Finish, Abort, CreateTransaction, UpdateTransaction, RemoveTransaction, Change,
        unchangedBySteps, vars, scanVars, ReadsIndex
<1>1. CASE Clear
    BY <1>0, <1>1 DEF Clear, LoopInv, PhaseInv, ReadsIndex
<1>2. CASE Count
    <2>1. position' = 0 /\ Skip' = 0
        BY <1>2, SkipAtStart
    <2>. QED BY <1>2, <2>1 DEF Count
<1>3. CASE ReadPage
    <2>1. Skip' = Skip /\ Limit' = Limit
        BY <1>3, SkipStays DEF ReadPage, unchangedBySteps
    <2>2. Len(batch') <= Limit
        <3>1. Len(batch') = PageLength(Selected) /\ Cardinality(Selected) \in Nat
            BY <1>3, PageRead, SelectedAreIds, FewerEarlier DEF ReadPage, LoopInv
        <3>. QED BY <3>1, SkipIsNatural, LimitIsNatural DEF LoopInv, PageLength
    <2>. QED BY <1>0, <1>3, <2>1, <2>2 DEF ReadPage, PlaceInv
<1>4. CASE FinishPage
    <2>1. Skip' = Skip + Limit
        BY <1>0, <1>4, SkipMoves
    <2>2. position <= Skip /\ Len(batch) <= Limit
        BY <1>0, <1>4 DEF FinishPage, PlaceInv
    <2>3. NextPosition <= Skip + Limit
        <3>1. /\ Skip \in Nat /\ Limit \in Nat /\ position \in Nat /\ Len(batch) \in Nat
              /\ PageSize \in Nat
            <4>1. batch \in Seq(Copy) /\ position \in Nat
                BY DEF LoopInv, TypeOK, Copy
            <4>2. Len(batch) \in Nat
                BY <4>1, LenProperties
            <4>. QED BY <4>1, <4>2, SkipIsNatural, LimitIsNatural, ScansAssumption
                    DEF LoopInv, ScansAssumption
        <3>2. scan = "replay" => Limit = PageSize
            BY DEF Limit
        <3>. QED BY <2>2, <3>1, <3>2 DEF NextPosition
    <2>. QED BY <1>4, <2>1, <2>3 DEF FinishPage
<1>5. CASE Refuse \/ Prepare \/ Send \/ LookUp \/ Delete \/ Finish \/ Abort
           \/ CreateTransaction \/ UpdateTransaction \/ RemoveTransaction \/ UNCHANGED vars
    <2>1. /\ UNCHANGED <<scan, total, position, page, batch>>
          /\ pc' = "read" => pc = "read"
          /\ pc' \in {"handle", "delete"} => pc \in {"handle", "delete"}
        BY <1>5 DEF Refuse, Prepare, Send, LookUp, Handles, Delete, Finish, Abort,
            CreateTransaction, UpdateTransaction, RemoveTransaction, Change, unchangedBySteps,
            vars, scanVars
    <2>2. Skip' = Skip /\ Limit' = Limit
        BY <2>1, SkipStays
    <2>. QED BY <1>0, <2>1, <2>2 DEF PlaceInv
<1>. QED BY <1>1, <1>2, <1>3, <1>4, <1>5 DEF Next, Step

(***************************************************************************)
(* Nothing missed.                                                         *)
(***************************************************************************)

TodoIds == {todo[k].id : k \in DOMAIN todo}

\* Of what was counted, what has its place before the next page was sent or is
\* about to be.
ReachedSent == \A k \in counted : Rank(k) < Bound => handled[k] > 0 \/ k \in TodoIds

\* What NothingMissed says of the end.
AllSent ==
    (\A i \in counted : handled[i] >= 1) \/ (scan = "file" /\ total > MaxPage * PageSize)

MissedInv ==
    scan \in {"replay", "file"} /\ Steady =>
        /\ pc \in {"read", "handle"} => ReachedSent
        /\ pc = "handle" /\ batch = <<>> => total <= Skip
        /\ pc = "done" => AllSent

\* Before the count there is nothing to miss.
LEMMA MissedStarts == Init => MissedInv
BY DEF Init, MissedInv

\* The next document is one of those to be handled, the others stay.
LEMMA TodoSplits ==
    ASSUME TypeOK, todo # <<>>
    PROVE  TodoIds = {Head(todo).id} \cup {Tail(todo)[k].id : k \in DOMAIN Tail(todo)}
<1>1. todo \in Seq(Copy)
    BY TodoInBatch
<1>2. /\ Len(todo) \in Nat /\ Len(todo) >= 1 /\ Head(todo) = todo[1]
      /\ DOMAIN todo = 1..Len(todo) /\ DOMAIN Tail(todo) = 1..(Len(todo) - 1)
      /\ \A k \in 1..(Len(todo) - 1) : Tail(todo)[k] = todo[k + 1]
    <2>. HIDE DEF Copy
    <2>. QED BY <1>1
<1>3. ASSUME NEW k \in DOMAIN todo
      PROVE  todo[k].id \in {Head(todo).id} \cup {Tail(todo)[l].id : l \in DOMAIN Tail(todo)}
    <2>1. CASE k = 1
        BY <1>2, <2>1
    <2>2. CASE k # 1
        <3>1. k - 1 \in 1..(Len(todo) - 1) /\ (k - 1) + 1 = k
            BY <1>2, <2>2
        <3>2. Tail(todo)[k - 1] = todo[k]
            BY <1>2, <3>1
        <3>. QED BY <1>2, <3>1, <3>2
    <2>. QED BY <2>1, <2>2
<1>4. ASSUME NEW k \in DOMAIN Tail(todo)
      PROVE  Tail(todo)[k].id \in TodoIds
    BY <1>2 DEF TodoIds
<1>5. Head(todo).id \in TodoIds
    BY <1>2 DEF TodoIds
<1>. QED BY <1>3, <1>4, <1>5 DEF TodoIds

\* A change by the service moves nothing that was counted.
LEMMA MissedSeesChange ==
    ASSUME LoopInv, PrefixInv, MissedInv, NEW i \in Ids, NEW v \in Nat, Change(i, v)
    PROVE  MissedInv'
<1>. SUFFICES ASSUME scan \in {"replay", "file"}, Steady', pc \in {"read", "handle"}
              PROVE  ReachedSent' /\ (pc = "handle" /\ batch = <<>> => total' <= Skip')
    BY DEF MissedInv, Change, scanVars, Ended
<1>1. UNCHANGED <<scan, scanVars>>
    BY DEF Change
<1>2. Steady /\ CountedFirst
    BY ChangeAndOrder DEF Steady, LoopInv, PrefixInv
<1>3. \A k \in counted : Rank(k)' = Rank(k)
    BY <1>2, ChangeAndRanks DEF Steady, CountedFirst, LoopInv
<1>4. Skip' = Skip /\ Bound' = Bound /\ TodoIds' = TodoIds
    BY <1>1, SkipStays DEF scanVars, Bound, TodoIds
<1>5. ReachedSent /\ (pc = "handle" /\ batch = <<>> => total <= Skip)
    BY <1>2 DEF MissedInv
<1>. QED BY <1>1, <1>3, <1>4, <1>5 DEF scanVars, ReachedSent

\* A page has all that was counted of its places, and is empty only behind them.
LEMMA MissedReads ==
    ASSUME LoopInv, PrefixInv, MissedInv, ReadPage
    PROVE  MissedInv'
<1>. SUFFICES ASSUME scan \in {"replay", "file"}, Steady
              PROVE  ReachedSent' /\ (batch' = <<>> => total' <= Skip')
    BY DEF MissedInv, ReadPage, unchangedBySteps, sinceCount, Steady
<1>. DEFINE r == Read(Selected)
            n == PageLength(Selected)
<1>1. /\ batch' = r /\ todo' = r /\ pc = "read" /\ pc' = "handle" /\ position < total
      /\ UNCHANGED <<handled, counted, total>>
    BY DEF ReadPage
<1>2. Skip' = Skip /\ Limit' = Limit /\ \A k : Rank(k)' = Rank(k)
    BY StepsKeepOrder, SkipStays DEF ReadPage, Step, Delete, unchangedBySteps
<1>3. /\ r \in Seq(Copy) /\ Len(r) = n /\ n \in 0..PageSize
      /\ \A i \in Selected : Rank(i) >= Skip /\ Rank(i) < Skip + Limit
                             => \E k \in 1..n : r[k].id = i
    BY PageRead DEF LoopInv
<1>4. CountedFirst /\ ReachedSent
    BY <1>1 DEF PrefixInv, MissedInv
<1>5. Cardinality(Selected) \in Nat /\ total <= Cardinality(Selected)
    BY <1>1, <1>4, CountedRanks
<1>6. Skip \in Nat /\ Limit \in Nat /\ total \in Nat /\ position \in Nat /\ (total > 0 => Limit > 0)
    BY SkipIsNatural, LimitIsNatural DEF LoopInv, TypeOK
<1>7. todo = <<>>
    BY <1>1, EmptyPage DEF LoopInv, PhaseInv
<1>. HIDE DEF r
<1>8. n = 0 => total <= Skip
    BY <1>1, <1>5, <1>6 DEF PageLength
<1>. HIDE DEF n
<1>9. ReachedSent'
    <2>1. ASSUME NEW k \in counted, Rank(k) < Skip + Limit
          PROVE  handled[k] > 0 \/ \E l \in 1..n : r[l].id = k
        <3>1. CASE Rank(k) < Skip
            <4>1. TodoIds = {} /\ Bound = Skip
                BY <1>1, <1>7 DEF TodoIds, Bound
            <4>. QED BY <1>4, <3>1, <4>1 DEF ReachedSent
        <3>2. CASE ~(Rank(k) < Skip)
            <4>1. k \in Selected /\ Rank(k) >= Skip
                BY <1>4, <1>6, <3>2, RankIsNatural DEF CountedFirst
            <4>. QED BY <1>3, <2>1, <4>1
        <3>. QED BY <3>1, <3>2
    <2>2. TodoIds' = {r[l].id : l \in 1..n}
        BY <1>1, <1>3 DEF TodoIds
    <2>3. Bound' = Skip + Limit
        BY <1>1, <1>2 DEF Bound
    <2>. QED BY <1>1, <1>2, <2>1, <2>2, <2>3 DEF ReachedSent
<1>10. r = <<>> => n = 0
    BY <1>3
<1>. QED BY <1>1, <1>2, <1>8, <1>9, <1>10

\* What is taken from the page is sent.
LEMMA MissedSends ==
    ASSUME LoopInv, MissedInv, Send
    PROVE  MissedInv'
<1>. SUFFICES ASSUME scan \in {"replay", "file"}, Steady
              PROVE  ReachedSent' /\ (batch = <<>> => total' <= Skip')
    BY DEF MissedInv, Send, Handles, unchangedBySteps, sinceCount, Steady
<1>. DEFINE h == Head(todo).id
<1>1. /\ todo # <<>> /\ todo' = Tail(todo) /\ handled' = [handled EXCEPT ![h] = @ + 1]
      /\ UNCHANGED <<batch, pc, position, page, total, scan, counted>> /\ pc = "handle"
    BY DEF Send, Handles, unchangedBySteps
<1>2. ReachedSent /\ (batch = <<>> => total <= Skip)
    BY <1>1 DEF MissedInv
<1>3. Skip' = Skip /\ Bound' = Bound
    BY <1>1, SkipStays DEF Bound
<1>4. \A k : Rank(k)' = Rank(k)
    BY StepsKeepOrder DEF Step, Send, Handles, Delete
<1>5. TodoIds = {h} \cup TodoIds'
    BY <1>1, TodoSplits DEF LoopInv, TodoIds
<1>6. handled \in [Ids -> Nat] /\ counted \subseteq Ids
    BY DEF LoopInv, TypeOK
<1>. HIDE DEF h
<1>7. \A k \in counted : handled[k] > 0 \/ k \in TodoIds => handled'[k] > 0 \/ k \in TodoIds'
    BY <1>1, <1>5, <1>6
<1>. QED BY <1>1, <1>2, <1>3, <1>4, <1>7 DEF ReachedSent

\* As many pages as there may be, of no more than was counted, reach as far.
LEMMA PagesReach ==
    ASSUME TypeOK, page + 1 > MaxPage, total <= MaxPage * PageSize, scan = "file"
    PROVE  total <= Limit * page
<1>1. Limit = IF PageSize <= total THEN PageSize ELSE total
    BY SmallerOfTwo, ScansAssumption DEF Limit, TypeOK, ScansAssumption
<1>2. /\ page \in Nat /\ page >= 1 /\ page >= MaxPage /\ total \in Nat
      /\ PageSize \in Nat /\ MaxPage \in Nat
    BY ScansAssumption DEF TypeOK, ScansAssumption
<1>3. \A a, b, c \in Nat : a <= b => c * a <= c * b
    OBVIOUS
<1>4. CASE PageSize <= total
    <2>1. PageSize * MaxPage <= PageSize * page
        BY <1>2, <1>3
    <2>2. MaxPage * PageSize = PageSize * MaxPage
        BY <1>2
    <2>3. PageSize * MaxPage \in Nat /\ PageSize * page \in Nat
        BY <1>2
    <2>. QED BY <1>1, <1>2, <1>4, <2>1, <2>2, <2>3
<1>5. CASE ~(PageSize <= total)
    <2>1. total * 1 <= total * page
        BY <1>2, <1>3
    <2>. QED BY <1>1, <1>2, <1>5, <2>1
<1>. QED BY <1>4, <1>5

\* After a page all before the next is sent; after the last that there may be, all.
LEMMA MissedFinishesPage ==
    ASSUME LoopInv, PrefixInv, MissedInv, FinishPage
    PROVE  MissedInv'
<1>. SUFFICES ASSUME scan \in {"replay", "file"}, Steady
              PROVE  /\ pc' = "read" => ReachedSent'
                     /\ pc' = "done" => AllSent'
    BY DEF MissedInv, FinishPage, unchangedBySteps, sinceCount, Steady
<1>1. /\ todo = <<>> /\ todo' = <<>> /\ pc = "handle" /\ pc' \in {"read", "done"}
      /\ UNCHANGED <<handled, counted, total, scan>> /\ (pc' = "done" => BreaksOff)
    BY DEF FinishPage, unchangedBySteps
<1>2. ReachedSent /\ (batch = <<>> => total <= Skip) /\ CountedFirst
    BY <1>1 DEF MissedInv, PrefixInv
<1>3. TodoIds = {} /\ TodoIds' = {}
    BY <1>1 DEF TodoIds
<1>4. \A k \in counted : Rank(k) < Skip + Limit => handled[k] > 0
    BY <1>1, <1>2, <1>3 DEF ReachedSent, Bound
<1>5. ASSUME pc' = "read"
      PROVE  ReachedSent'
    <2>1. Bound' = Skip + Limit
        BY <1>5, SkipMoves DEF Bound, ReadsIndex
    <2>2. \A k : Rank(k)' = Rank(k)
        BY <1>1, StepsKeepOrder DEF Step, FinishPage, Delete
    <2>. QED BY <1>1, <1>4, <2>1, <2>2 DEF ReachedSent
<1>6. ASSUME pc' = "done"
      PROVE  AllSent'
    <2>1. \A k \in counted : Rank(k) < total
        BY <1>1, <1>2, CountedRanks
    <2>2. scan = "file" /\ (page + 1 > MaxPage \/ batch = <<>>)
        BY <1>1, <1>6 DEF BreaksOff
    <2>3. /\ Skip \in Nat /\ Limit \in Nat /\ total \in Nat /\ page \in Nat
          /\ handled \in [Ids -> Nat] /\ counted \subseteq Ids
        BY SkipIsNatural, LimitIsNatural DEF LoopInv, TypeOK
    <2>4. Skip + Limit = Limit * page
        <3>1. Skip = Limit * (page - 1)
            BY <2>2 DEF Skip, ReadsIndex
        <3>. QED BY <2>3, <3>1
    <2>5. total > MaxPage * PageSize \/ total <= Skip + Limit
        <3>1. CASE batch = <<>>
            BY <1>2, <2>3, <3>1
        <3>2. CASE page + 1 > MaxPage
            <4>1. MaxPage * PageSize \in Nat
                BY ScansAssumption DEF ScansAssumption
            <4>2. total <= MaxPage * PageSize => total <= Limit * page
                BY <2>2, <3>2, PagesReach DEF LoopInv
            <4>. QED BY <2>3, <2>4, <4>1, <4>2
        <3>. QED BY <2>2, <3>1, <3>2
    <2>6. CASE total <= Skip + Limit
        <3>1. \A k \in counted : handled[k] > 0
            BY <1>4, <2>1, <2>3, <2>6, RankIsNatural
        <3>. QED BY <1>1, <2>3, <3>1 DEF AllSent
    <2>7. CASE total > MaxPage * PageSize
        BY <1>1, <2>2, <2>7 DEF AllSent
    <2>. QED BY <2>5, <2>6, <2>7
<1>. QED BY <1>5, <1>6

\* When the counter has reached the count, so have the pages.
LEMMA MissedFinishes ==
    ASSUME LoopInv, PrefixInv, PlaceInv, MissedInv, Finish
    PROVE  MissedInv'
<1>. SUFFICES ASSUME scan \in {"replay", "file"}, Steady
              PROVE  AllSent'
    BY DEF MissedInv, Finish, unchangedBySteps, sinceCount, Steady
<1>1. /\ pc = "read" /\ position >= total
      /\ UNCHANGED <<handled, counted, total, scan>>
    BY DEF Finish, unchangedBySteps
<1>2. ReachedSent /\ CountedFirst /\ position <= Skip
    BY <1>1 DEF MissedInv, PrefixInv, PlaceInv, ReadsIndex
<1>3. TodoIds = {} /\ Bound = Skip
    BY <1>1, EmptyPage DEF LoopInv, PhaseInv, TodoIds, Bound
<1>4. \A k \in counted : Rank(k) < total
    BY <1>1, <1>2, CountedRanks
<1>5. /\ Skip \in Nat /\ total \in Nat /\ position \in Nat
      /\ handled \in [Ids -> Nat] /\ counted \subseteq Ids
    BY SkipIsNatural DEF LoopInv, TypeOK
<1>6. \A k \in counted : handled[k] > 0
    BY <1>1, <1>2, <1>3, <1>4, <1>5, RankIsNatural DEF ReachedSent
<1>. QED BY <1>1, <1>5, <1>6 DEF AllSent

\* A replay and a file take no other steps than to count and to give up.
LEMMA MissedElse ==
    ASSUME LoopInv, MissedInv, Clear \/ Count \/ Refuse \/ Prepare \/ LookUp \/ Delete \/ Abort
    PROVE  MissedInv'
<1>1. CASE Count
    <2>1. pc' = "read" /\ Skip' = 0
        BY <1>1, SkipAtStart DEF Count
    <2>5. Bound' = 0
        BY <2>1 DEF Bound
    <2>6. \A k : Rank(k)' = Rank(k)
        BY <1>1, StepsKeepOrder DEF Step, Count, Delete
    <2>7. ReachedSent'
        BY <2>5, <2>6, RankIsNatural DEF ReachedSent
    <2>. QED BY <2>1, <2>7 DEF MissedInv
<1>2. CASE ~Count
    BY <1>2 DEF Clear, Refuse, Prepare, LookUp, Delete, Abort, Handles, MissedInv,
        unchangedBySteps, Rewrites, LoopInv, PhaseInv
<1>. QED BY <1>1, <1>2

\* Every step keeps what was counted sent up to the next page.
LEMMA MissedStep == LoopInv /\ PrefixInv /\ PlaceInv /\ MissedInv /\ [Next]_vars => MissedInv'
<1>. SUFFICES ASSUME LoopInv, PrefixInv, PlaceInv, MissedInv, [Next]_vars PROVE MissedInv'
    OBVIOUS
<1>1. CASE UNCHANGED vars
    BY <1>1 DEF vars, scanVars, observerVars, sinceCount, MissedInv, Steady, ReachedSent, AllSent,
        TodoIds, Bound, Skip, Limit, ReadsIndex, Rank, Earlier, Precedes, Selected, Source, Present
<1>2. CASE CreateTransaction \/ UpdateTransaction \/ RemoveTransaction
    BY <1>2, ServiceChanges, MissedSeesChange DEF LoopInv
<1>3. CASE Step \/ Abort
    BY <1>3, MissedReads, MissedSends, MissedFinishesPage, MissedFinishes, MissedElse DEF Step
<1>. QED BY <1>1, <1>2, <1>3 DEF Next

\* A replay sends, and a file has, every transaction that was there when it counted,
\* as long as none goes and none comes in between, and MaxPage pages can hold them.
THEOREM NothingIsMissed == Spec => []NothingMissed
<1>1. MissedInv => NothingMissed
    BY DEF MissedInv, AllSent, NothingMissed, OnlyAppended, Steady
<1>. QED BY <1>1, LoopStarts, LoopStep, PrefixStarts, PrefixStep, PlaceStarts, PlaceStep,
            MissedStarts, MissedStep, PTL DEF Spec

(***************************************************************************)
(* Loops that write the index again.                                       *)
(***************************************************************************)

\* A copy is the stored document, or the document was changed while it was read.
IsCopy(i, version) == version # 0 /\ (i \in raced \/ version = mongo[i])

\* What the page has is there, as it was read.
Fresh == \A k \in DOMAIN batch : batch[k].id \in Selected /\ IsCopy(batch[k].id, batch[k].version)

\* What was read before the next page, and what came since, is written or will be
\* with this page.
Covered ==
    \A i \in Selected :
        i \in added \/ Rank(i) < position + Len(batch) => i \in InBatch \/ IsCopy(i, index[i])

OnlyStored == Present(index) \subseteq Present(mongo)

RewriteInv ==
    scan \in Rewrites =>
        /\ pc = "count" /\ scan = "rebuild" => OnlyStored
        /\ pc \in {"read", "handle", "done"} /\ Steady =>
              /\ scan = "rebuild" => OnlyStored
              /\ Fresh
              /\ pc # "done" => Covered
              /\ pc = "done" => \A i \in Selected : IsCopy(i, index[i])

\* Before the count there is nothing to say.
LEMMA RewriteStarts == Init => RewriteInv
BY DEF Init, RewriteInv, Rewrites

\* Those loops read MongoDB.
LEMMA RewritesReadMongo ==
    ASSUME scan \in Rewrites
    PROVE  ~ReadsIndex /\ Source = mongo /\ Selected \subseteq Present(mongo)
BY DEF Rewrites, ReadsIndex, Source, Selected

\* A change by the service writes the document and its copy, and is noted if the
\* document was just read.
LEMMA RewriteSeesChange ==
    ASSUME LoopInv, RewriteInv, NEW i \in Ids, NEW v \in Nat, Change(i, v)
    PROVE  RewriteInv'
<1>. SUFFICES ASSUME scan \in Rewrites
              PROVE  /\ pc = "count" /\ scan = "rebuild" => OnlyStored'
                     /\ pc \in {"read", "handle"} /\ Steady' =>
                           (scan = "rebuild" => OnlyStored') /\ Fresh' /\ Covered'
    BY DEF RewriteInv, Change, scanVars, Ended
<1>1. /\ UNCHANGED <<scan, scanVars>>
      /\ mongo' = [mongo EXCEPT ![i] = v] /\ index' = [index EXCEPT ![i] = v]
      /\ raced' = IF i \in InBatch THEN raced \cup {i} ELSE raced
      /\ added' = added \cup (Selected' \ Selected)
      /\ matching' \subseteq matching \cup {i}
    BY DEF Change
<1>2. /\ mongo \in [Ids -> Nat] /\ index \in [Ids -> Nat] /\ InBatch \subseteq Ids
      /\ mongo' \in [Ids -> Nat] /\ index' \in [Ids -> Nat]
    BY <1>1, TodoInBatch DEF LoopInv, TypeOK
<1>3. /\ mongo'[i] = v /\ index'[i] = v
      /\ \A j \in Ids \ {i} : mongo'[j] = mongo[j] /\ index'[j] = index[j]
    BY <1>1, <1>2
<1>4. OnlyStored => OnlyStored'
    BY <1>2, <1>3 DEF OnlyStored, Present
<1>5. ASSUME pc \in {"read", "handle"}, Steady'
      PROVE  (scan = "rebuild" => OnlyStored') /\ Fresh' /\ Covered'
    <2>1. /\ Steady /\ Selected \subseteq Selected'
          /\ \A k \in Selected : Rank(k)' = Rank(k)
        BY <1>5, ChangeAndOrder, ChangeAndRanks DEF Steady, LoopInv
    <2>2. (scan = "rebuild" => OnlyStored) /\ Fresh /\ Covered
        BY <1>5, <2>1 DEF RewriteInv
    <2>3. ASSUME NEW j \in Ids \ {i}, NEW w, IsCopy(j, w)
          PROVE  IsCopy(j, w)'
        BY <1>1, <1>3, <2>3 DEF IsCopy
    <2>4. Fresh'
        <3>1. ASSUME NEW k \in DOMAIN batch
              PROVE  batch[k].id \in Selected' /\ IsCopy(batch[k].id, batch[k].version)'
            <4>1. /\ batch[k].id \in Selected /\ IsCopy(batch[k].id, batch[k].version)
                  /\ batch[k].id \in InBatch
                BY <2>2 DEF Fresh, InBatch
            <4>2. CASE batch[k].id = i
                BY <1>1, <2>1, <4>1, <4>2 DEF IsCopy, scanVars
            <4>3. CASE batch[k].id # i
                BY <1>1, <1>2, <2>1, <2>3, <4>1, <4>3 DEF IsCopy, scanVars
            <4>. QED BY <4>2, <4>3
        <3>2. batch' = batch
            BY <1>1 DEF scanVars
        <3>. QED BY <3>1, <3>2 DEF Fresh, IsCopy
    <2>5. Covered'
        <3>1. ASSUME NEW j \in Selected', j \in added' \/ Rank(j)' < position + Len(batch)
              PROVE  j \in InBatch \/ IsCopy(j, index[j])'
            <4>1. j \in Ids /\ mongo'[j] # 0
                BY <1>1, <3>1 DEF Selected, Source, ReadsIndex, Rewrites, Present
            <4>2. CASE j = i
                BY <1>3, <4>1, <4>2 DEF IsCopy
            <4>3. CASE j # i
                <5>1. j \in Selected
                    BY <1>1, <1>3, <3>1, <4>1, <4>3
                        DEF Selected, Source, ReadsIndex, Rewrites, Present
                <5>2. j \in added \/ Rank(j) < position + Len(batch)
                    BY <1>1, <2>1, <3>1, <5>1
                <5>3. j \in InBatch \/ IsCopy(j, index[j])
                    BY <2>2, <5>1, <5>2 DEF Covered
                <5>. QED BY <1>1, <1>3, <4>1, <4>3, <5>3 DEF IsCopy
            <4>. QED BY <4>2, <4>3
        <3>2. batch' = batch /\ position' = position /\ InBatch' = InBatch
            BY <1>1 DEF scanVars, InBatch
        <3>. QED BY <3>1, <3>2 DEF Covered
    <2>. QED BY <1>4, <2>2, <2>4, <2>5
<1>6. pc = "count" /\ scan = "rebuild" => OnlyStored'
    BY <1>4 DEF RewriteInv
<1>. QED BY <1>5, <1>6

\* A rebuild counts after it has emptied the index.
LEMMA RewriteCounts ==
    ASSUME LoopInv, RewriteInv, Clear \/ Count
    PROVE  RewriteInv'
<1>1. CASE Clear
    BY <1>1 DEF Clear, RewriteInv, OnlyStored, Present
<1>2. CASE Count
    <2>. SUFFICES ASSUME scan \in Rewrites
                  PROVE  (scan = "rebuild" => OnlyStored') /\ Fresh' /\ Covered'
        BY <1>2 DEF Count, RewriteInv, unchangedBySteps
    <2>1. /\ batch' = <<>> /\ position' = 0 /\ added' = {} /\ index' = index /\ mongo' = mongo
          /\ pc = "count"
        BY <1>2 DEF Count, LoopInv, PhaseInv
    <2>2. \A k : Rank(k)' = Rank(k)
        BY <1>2, StepsKeepOrder DEF Step, Count, Delete
    <2>3. Fresh'
        BY <2>1 DEF Fresh
    <2>4. Covered'
        BY <2>1, <2>2, RankIsNatural DEF Covered
    <2>5. scan = "rebuild" => OnlyStored'
        BY <2>1 DEF RewriteInv, OnlyStored, Present
    <2>. QED BY <2>3, <2>4, <2>5
<1>. QED BY <1>1, <1>2

\* A page has the stored documents of its places.
LEMMA RewriteReads ==
    ASSUME LoopInv, RewriteInv, ReadPage
    PROVE  RewriteInv'
<1>. SUFFICES ASSUME scan \in Rewrites, Steady
              PROVE  (scan = "rebuild" => OnlyStored') /\ Fresh' /\ Covered'
    BY DEF RewriteInv, ReadPage, unchangedBySteps, sinceCount, Steady
<1>. DEFINE r == Read(Selected)
            n == PageLength(Selected)
<1>1. /\ batch' = r /\ pc = "read"
      /\ UNCHANGED <<mongo, index, position, page, total, scan, added, raced>>
    BY DEF ReadPage, sinceCount, unchangedBySteps
<1>2. Selected' = Selected /\ \A k : Rank(k)' = Rank(k)
    BY StepsKeepOrder DEF ReadPage, Step, Delete
<1>3. /\ r \in Seq(Copy) /\ Len(r) = n /\ n \in 0..PageSize
      /\ \A k \in 1..n : r[k].id \in Selected /\ r[k].version = mongo[r[k].id]
      /\ \A i \in Selected : Rank(i) >= Skip /\ Rank(i) < Skip + Limit
                             => \E k \in 1..n : r[k].id = i
    BY PageRead, RewritesReadMongo DEF LoopInv
<1>4. /\ Skip = position /\ position \in Nat /\ Limit \in Nat /\ n <= Limit /\ batch = <<>>
    <2>1. Cardinality(Selected) \in Nat
        BY SelectedAreIds, FewerEarlier
    <2>2. Skip = position /\ Skip \in Nat /\ Limit \in Nat
        BY RewritesReadMongo, SkipIsNatural, LimitIsNatural DEF LoopInv, Skip
    <2>. QED BY <1>1, <2>1, <2>2 DEF PageLength, LoopInv, PhaseInv
<1>5. (scan = "rebuild" => OnlyStored) /\ Covered /\ InBatch = {} /\ Len(batch) = 0
    BY <1>1, <1>4 DEF RewriteInv, InBatch
<1>. HIDE DEF r, n
<1>6. DOMAIN r = 1..n
    BY <1>3
<1>7. Fresh'
    <2>1. ASSUME NEW k \in 1..n
          PROVE  r[k].id \in Selected /\ r[k].version # 0 /\ r[k].version = mongo[r[k].id]
        BY <1>3, RewritesReadMongo DEF Present
    <2>. QED BY <1>1, <1>2, <1>6, <2>1 DEF Fresh, IsCopy
<1>8. Covered'
    <2>1. ASSUME NEW i \in Selected, i \in added \/ Rank(i) < position + n
          PROVE  (\E k \in 1..n : r[k].id = i) \/ IsCopy(i, index[i])
        <3>1. CASE i \in added \/ Rank(i) < position
            <4>1. i \in added \/ Rank(i) < position + Len(batch)
                BY <1>4, <1>5, <3>1, RankIsNatural
            <4>. QED BY <1>5, <4>1 DEF Covered
        <3>2. CASE ~(i \in added \/ Rank(i) < position)
            <4>1. Rank(i) >= Skip /\ Rank(i) < Skip + Limit
                BY <1>3, <1>4, <2>1, <3>2, RankIsNatural
            <4>. QED BY <1>3, <4>1
        <3>. QED BY <3>1, <3>2
    <2>2. InBatch' = {r[k].id : k \in 1..n} /\ Len(batch') = n
        BY <1>1, <1>3, <1>6 DEF InBatch
    <2>. QED BY <1>1, <1>2, <2>1, <2>2 DEF Covered, IsCopy
<1>. QED BY <1>1, <1>5, <1>7, <1>8 DEF OnlyStored, Present

\* Only copies of the page are deleted before it is written.
LEMMA RewritePrepares ==
    ASSUME LoopInv, RewriteInv, Prepare
    PROVE  RewriteInv'
<1>. SUFFICES ASSUME Steady
              PROVE  (scan = "rebuild" => OnlyStored') /\ Fresh' /\ Covered'
    BY DEF RewriteInv, Prepare, Handles, unchangedBySteps, sinceCount, Steady
<1>. DEFINE h == Head(todo).id
<1>1. /\ pc = "handle" /\ scan \in Rewrites /\ todo # <<>>
      /\ UNCHANGED <<mongo, position, batch, scan, added, raced>>
      /\ index' = index \/ (scan = "reindex_old" /\ index' = [index EXCEPT ![h] = 0])
    BY DEF Prepare, Handles, sinceCount, unchangedBySteps
<1>2. (scan = "rebuild" => OnlyStored) /\ Fresh /\ Covered
    BY <1>1 DEF RewriteInv
<1>3. Selected' = Selected /\ \A k : Rank(k)' = Rank(k)
    BY StepsKeepOrder DEF Prepare, Handles, Step, Delete
<1>4. h \in InBatch /\ InBatch' = InBatch /\ InBatch \subseteq Ids
    <2>1. \E k \in 1..Len(batch) : Head(todo) = batch[k]
        BY <1>1, TodoShrinks DEF LoopInv
    <2>2. DOMAIN batch = 1..Len(batch)
        BY DEF LoopInv, TypeOK
    <2>. QED BY <1>1, <2>1, <2>2, TodoInBatch DEF InBatch, LoopInv
<1>. HIDE DEF h
<1>5. \A i \in Ids : i \in InBatch \/ index'[i] = index[i]
    BY <1>1, <1>4 DEF LoopInv, TypeOK
<1>6. Fresh'
    BY <1>1, <1>2, <1>3 DEF Fresh, IsCopy
<1>7. Covered'
    BY <1>1, <1>2, <1>3, <1>4, <1>5, SelectedAreIds DEF Covered, IsCopy
<1>8. scan = "rebuild" => OnlyStored'
    BY <1>1, <1>2 DEF OnlyStored, Present
<1>. QED BY <1>6, <1>7, <1>8

\* The bulk write stores what was read.
LEMMA RewriteFinishesPage ==
    ASSUME LoopInv, RewriteInv, FinishPage
    PROVE  RewriteInv'
<1>. SUFFICES ASSUME scan \in Rewrites, Steady
              PROVE  (scan = "rebuild" => OnlyStored') /\ Fresh' /\ Covered'
    BY DEF RewriteInv, FinishPage, unchangedBySteps, sinceCount, Steady, BreaksOff, Rewrites
<1>1. /\ pc = "handle" /\ batch' = <<>> /\ position' = position + Len(batch)
      /\ UNCHANGED <<mongo, scan, added, raced>>
      /\ index' = [i \in Ids |-> IF \E k \in DOMAIN batch : batch[k].id = i
                      THEN (CHOOSE b \in Range(batch) : b.id = i).version ELSE index[i]]
    BY DEF FinishPage, NextPosition, Rewrites, sinceCount, unchangedBySteps
<1>2. (scan = "rebuild" => OnlyStored) /\ Fresh /\ Covered
    BY <1>1 DEF RewriteInv
<1>3. Selected' = Selected /\ \A k : Rank(k)' = Rank(k)
    BY StepsKeepOrder DEF FinishPage, Step, Delete
<1>4. \A i \in Ids \ InBatch : index'[i] = index[i]
    BY <1>1 DEF InBatch
<1>5. ASSUME NEW i \in Ids, i \in InBatch
      PROVE  i \in Selected /\ IsCopy(i, index'[i])
    <2>1. \E k \in DOMAIN batch : batch[k].id = i
        BY <1>5 DEF InBatch
    <2>2. PICK k \in DOMAIN batch :
            batch[k].id = i /\ (CHOOSE b \in Range(batch) : b.id = i) = batch[k]
        BY <2>1, BulkVersions DEF LoopInv
    <2>3. index'[i] = batch[k].version
        BY <1>1, <2>1, <2>2
    <2>. QED BY <1>2, <2>2, <2>3 DEF Fresh
<1>6. Fresh'
    BY <1>1 DEF Fresh
<1>7. Covered'
    <2>1. ASSUME NEW i \in Selected, i \in added \/ Rank(i) < position + Len(batch)
          PROVE  IsCopy(i, index'[i])
        <3>1. i \in Ids /\ (i \in InBatch \/ IsCopy(i, index[i]))
            BY <1>2, <2>1, SelectedAreIds DEF Covered
        <3>. QED BY <1>4, <1>5, <3>1
    <2>2. position' + Len(batch') = position + Len(batch)
        <3>1. batch \in Seq(Copy) /\ position \in Nat
            BY DEF LoopInv, TypeOK, Copy
        <3>2. Len(batch) \in Nat
            BY <3>1, LenProperties
        <3>. QED BY <1>1, <3>1, <3>2
    <2>. QED BY <1>1, <1>3, <2>1, <2>2 DEF Covered, IsCopy
<1>8. scan = "rebuild" => OnlyStored'
    BY <1>1, <1>2, <1>4, <1>5, RewritesReadMongo DEF OnlyStored, Present
<1>. QED BY <1>6, <1>7, <1>8

\* When as many were read as were counted, the rest was added and has its copies.
LEMMA RewriteFinishes ==
    ASSUME LoopInv, PrefixInv, RewriteInv, Finish
    PROVE  RewriteInv'
<1>. SUFFICES ASSUME scan \in Rewrites, Steady
              PROVE  /\ scan = "rebuild" => OnlyStored'
                     /\ Fresh'
                     /\ (\A i \in Selected : IsCopy(i, index[i]))'
    BY DEF RewriteInv, Finish, unchangedBySteps, sinceCount, Steady
<1>1. /\ pc = "read" /\ position >= total /\ batch = <<>>
      /\ UNCHANGED <<mongo, index, batch, scan, raced>>
    BY DEF Finish, sinceCount, unchangedBySteps, LoopInv, PhaseInv
<1>2. (scan = "rebuild" => OnlyStored) /\ Fresh /\ Covered /\ CountedFirst
    BY <1>1 DEF RewriteInv, PrefixInv, Rewrites
<1>3. Selected' = Selected
    BY StepsKeepOrder DEF Finish, Step, Delete
<1>4. ASSUME NEW i \in Selected
      PROVE  IsCopy(i, index[i])
    <2>1. i \in added \/ Rank(i) < total
        BY <1>1, <1>2, CountedRanks DEF CountedFirst
    <2>2. i \in added \/ Rank(i) < position + Len(batch)
        BY <1>1, <2>1, RankIsNatural DEF LoopInv, TypeOK
    <2>3. i \notin InBatch
        BY <1>1 DEF InBatch
    <2>. QED BY <1>2, <2>2, <2>3 DEF Covered
<1>. QED BY <1>1, <1>2, <1>3, <1>4 DEF OnlyStored, Present, Fresh, IsCopy

\* Every step keeps the copies up to the next page.
LEMMA RewriteStep == LoopInv /\ PrefixInv /\ RewriteInv /\ [Next]_vars => RewriteInv'
<1>. SUFFICES ASSUME LoopInv, PrefixInv, RewriteInv, [Next]_vars PROVE RewriteInv'
    OBVIOUS
<1>1. CASE UNCHANGED vars
    BY <1>1 DEF vars, scanVars, observerVars, sinceCount, RewriteInv, Steady, OnlyStored, Fresh,
        Covered, IsCopy, InBatch, ReadsIndex, Rank, Earlier, Precedes, Selected, Source, Present
<1>2. CASE CreateTransaction \/ UpdateTransaction \/ RemoveTransaction
    BY <1>2, ServiceChanges, RewriteSeesChange DEF LoopInv
<1>3. CASE Send \/ LookUp \/ Delete \/ Refuse \/ Abort
    BY <1>3 DEF Send, LookUp, Delete, Refuse, Abort, Handles, RewriteInv, Rewrites,
        unchangedBySteps, LoopInv, PhaseInv
<1>4. CASE Clear \/ Count \/ ReadPage \/ Prepare \/ FinishPage \/ Finish
    BY <1>4, RewriteCounts, RewriteReads, RewritePrepares, RewriteFinishesPage, RewriteFinishes
<1>. QED BY <1>1, <1>2, <1>3, <1>4 DEF Next, Step

\* A loop that writes the index again leaves it, when it ends, with the stored
\* version of all it selects, unless one was changed while it was read, something
\* went, or came in before something else; and a rebuild leaves nothing else there.
THEOREM IndexCatchesUp == Spec => []RewritesCatchUp
<1>1. LoopInv /\ RewriteInv => RewritesCatchUp
    <2>. SUFFICES ASSUME LoopInv, RewriteInv, pc = "done", scan \in Rewrites, Steady
                  PROVE  /\ \A i \in Selected \ raced : index[i] = mongo[i]
                         /\ scan = "rebuild" => Present(index) = Present(mongo)
        BY DEF RewritesCatchUp, OnlyAppended, Steady
    <2>1. \A i \in Selected : IsCopy(i, index[i])
        BY DEF RewriteInv
    <2>2. ASSUME scan = "rebuild"
          PROVE  Present(index) = Present(mongo)
        <3>1. OnlyStored /\ Selected = Present(mongo)
            BY <2>2 DEF RewriteInv, LoopInv, PhaseInv, Selective, Selected, Source, ReadsIndex,
                Present
        <3>2. Present(mongo) \subseteq Present(index)
            BY <2>1, <3>1 DEF IsCopy, Present
        <3>. QED BY <3>1, <3>2 DEF OnlyStored
    <2>. QED BY <2>1, <2>2 DEF IsCopy
<1>. QED BY <1>1, LoopStarts, LoopStep, PrefixStarts, PrefixStep, RewriteStarts, RewriteStep,
            PTL DEF Spec

(***************************************************************************)
(* fix-diff.                                                               *)
(***************************************************************************)

Orphans == {i \in Present(index) : mongo[i] = 0}

\* While nothing is added: as long as it has deleted none of what it counted, it
\* has looked at all before the next page; and a page that completes the count can
\* only be the last of those.
NoneAdded ==
    /\ Selected \subseteq counted
    /\ pc = "read" =>
          /\ Selected = counted => \A i \in Orphans : Rank(i) >= Skip
          /\ position >= total => Orphans = {}
    /\ pc \in {"handle", "delete"} =>
          /\ Selected = counted => \A i \in Orphans : i \in TodoIds \/ Rank(i) >= Skip + Limit
          /\ position + Len(batch) >= total => Orphans \subseteq TodoIds
    /\ pc = "done" => Orphans = {}

\* While nothing comes in between and all that was counted fits a page.
SinglePage ==
    /\ pc = "read" => Orphans = {} \/ (position = 0 /\ page = 1 /\ CountedFirst)
    /\ pc \in {"handle", "delete"} => Orphans \subseteq TodoIds
    /\ pc = "done" => Orphans = {}

CheckInv ==
    scan = "check" /\ pc \in {"read", "handle", "delete", "done"} =>
        /\ Orphans \subseteq counted
        /\ left = {} /\ added = {} => NoneAdded
        /\ Steady /\ total <= PageSize => SinglePage

\* Before the count there is nothing to say.
LEMMA CheckStarts == Init => CheckInv
BY DEF Init, CheckInv

\* fix-diff reads the whole index.
LEMMA ChecksReadAll ==
    ASSUME LoopInv, scan = "check"
    PROVE  Selected = Present(index) /\ Orphans \subseteq Selected /\ ReadsIndex
<1>1. matching = Ids
    BY DEF LoopInv, PhaseInv, Selective
<1>. QED BY <1>1 DEF Selected, Source, ReadsIndex, Present, Orphans

\* The service leaves no copy behind.
LEMMA ChangeMakesNoOrphan ==
    ASSUME LoopInv, NEW i \in Ids, NEW v \in Nat, Change(i, v)
    PROVE  Orphans' \subseteq Orphans
<1>1. /\ mongo' = [mongo EXCEPT ![i] = v] /\ index' = [index EXCEPT ![i] = v]
      /\ mongo \in [Ids -> Nat] /\ index \in [Ids -> Nat]
    BY DEF Change, LoopInv, TypeOK
<1>2. \A j \in Ids : index'[j] # 0 /\ mongo'[j] = 0 => index[j] # 0 /\ mongo[j] = 0
    BY <1>1
<1>. QED BY <1>2 DEF Orphans, Present

\* A change by the service leaves the places of what fix-diff has not looked at.
LEMMA CheckSeesChange ==
    ASSUME LoopInv, CheckInv, NEW i \in Ids, NEW v \in Nat, Change(i, v)
    PROVE  CheckInv'
<1>. SUFFICES ASSUME scan = "check", pc \in {"read", "handle", "delete"}
              PROVE  /\ Orphans' \subseteq counted
                     /\ left' = {} /\ added' = {} => NoneAdded'
                     /\ Steady' /\ total <= PageSize => SinglePage'
    BY DEF CheckInv, Change, scanVars, Ended
<1>1. UNCHANGED <<scan, scanVars, descending>>
    BY DEF Change
<1>2. /\ Skip' = Skip /\ Limit' = Limit /\ TodoIds' = TodoIds /\ Orphans' \subseteq Orphans
    BY <1>1, SkipStays, ChangeMakesNoOrphan DEF scanVars, TodoIds
<1>3. Orphans \subseteq counted
    BY DEF CheckInv
<1>4. ASSUME left' = {}, added' = {}
      PROVE  NoneAdded'
    <2>1. left = {} /\ added = {} /\ Selected' = Selected
        BY <1>4, ChangeAndOrder DEF LoopInv
    <2>2. \A k : Rank(k)' = Rank(k)
        BY <1>1, <2>1 DEF Rank, Earlier, Precedes
    <2>3. NoneAdded
        BY <2>1 DEF CheckInv
    <2>. QED BY <1>1, <1>2, <2>1, <2>2, <2>3 DEF scanVars, NoneAdded
<1>5. ASSUME Steady', total <= PageSize
      PROVE  SinglePage'
    <2>1. Steady
        BY <1>5, ChangeAndOrder DEF Steady, LoopInv
    <2>2. SinglePage
        BY <1>5, <2>1 DEF CheckInv
    <2>3. CountedFirst => CountedFirst'
        BY <1>5, CountedFirstStays
    <2>. QED BY <1>1, <1>2, <2>2, <2>3 DEF scanVars, SinglePage
<1>. QED BY <1>2, <1>3, <1>4, <1>5

\* What it counts is the index, with all its orphans.
LEMMA CheckCounts ==
    ASSUME LoopInv, Count
    PROVE  CheckInv'
<1>. SUFFICES ASSUME scan = "check"
              PROVE  Orphans' \subseteq counted' /\ NoneAdded' /\ SinglePage'
    BY DEF CheckInv, Count, unchangedBySteps
<1>1. /\ counted' = Selected /\ total' = Cardinality(Selected) /\ pc' = "read" /\ page' = 1
      /\ UNCHANGED <<mongo, index>>
    BY DEF Count, LoopInv, PhaseInv
<1>2. /\ Selected' = Selected
      /\ \A k : Rank(k)' = Rank(k) /\ Earlier(k, Selected)' = Earlier(k, Selected)
    BY StepsKeepOrder DEF Step, Count, Delete
<1>3. position' = 0 /\ Skip' = 0
    BY SkipAtStart
<1>4. Orphans' = Orphans /\ Orphans \subseteq Selected
    BY <1>1, ChecksReadAll DEF Orphans, Present
<1>5. 0 >= total' => Selected = {}
    <2>1. IsFiniteSet(Selected) /\ Cardinality(Selected) \in Nat
        BY SelectedAreIds, ScansAssumption, FS_Subset, FS_CardinalityType DEF ScansAssumption
    <2>. QED BY <1>1, <2>1, FS_EmptySet
<1>6. NoneAdded'
    BY <1>1, <1>2, <1>3, <1>4, <1>5, RankIsNatural DEF NoneAdded
<1>7. CountedFirst'
    BY <1>1, <1>2 DEF CountedFirst, Earlier
<1>8. SinglePage'
    BY <1>1, <1>3, <1>7 DEF SinglePage
<1>. QED BY <1>1, <1>4, <1>6, <1>8

\* A page that completes the count has all orphans that are left.
LEMMA CheckReads ==
    ASSUME LoopInv, PlaceInv, CheckInv, ReadPage
    PROVE  CheckInv'
<1>. SUFFICES ASSUME scan = "check"
              PROVE  /\ Orphans' \subseteq counted'
                     /\ left = {} /\ added = {} => NoneAdded'
                     /\ Steady /\ total <= PageSize => SinglePage'
    BY DEF CheckInv, ReadPage, unchangedBySteps, sinceCount, Steady
<1>. DEFINE r == Read(Selected)
            n == PageLength(Selected)
            c == Cardinality(Selected)
<1>1. /\ batch' = r /\ todo' = r /\ pc = "read" /\ pc' = "handle" /\ position < total
      /\ UNCHANGED <<mongo, index, position, page, total, scan, counted>>
    BY DEF ReadPage, unchangedBySteps
<1>2. /\ Skip' = Skip /\ Limit' = Limit /\ Selected' = Selected
      /\ \A k : Rank(k)' = Rank(k)
    BY StepsKeepOrder, SkipStays DEF ReadPage, Step, Delete, unchangedBySteps
<1>3. /\ r \in Seq(Copy) /\ Len(r) = n /\ n \in 0..PageSize
      /\ \A i \in Selected : Rank(i) >= Skip /\ Rank(i) < Skip + Limit
                             => \E k \in 1..n : r[k].id = i
    BY PageRead DEF LoopInv
<1>4. /\ Skip \in Nat /\ Limit \in Nat /\ position \in Nat /\ total \in Nat /\ c \in Nat
      /\ position <= Skip /\ total = Cardinality(counted) /\ counted \in SUBSET Ids
    BY <1>1, SkipIsNatural, LimitIsNatural, SelectedAreIds, FewerEarlier, ChecksReadAll
        DEF LoopInv, TypeOK, PhaseInv, PlaceInv
<1>5. Orphans' = Orphans /\ Orphans \subseteq counted /\ Orphans \subseteq Selected
    BY <1>1, ChecksReadAll DEF CheckInv, Orphans, Present
<1>6. n = IF Skip + Limit <= c THEN Limit ELSE IF Skip <= c THEN c - Skip ELSE 0
    BY DEF PageLength
<1>. HIDE DEF r, n
<1>7. \A i \in Selected : Rank(i) >= Skip /\ Rank(i) < Skip + Limit => i \in TodoIds'
    <2>1. TodoIds' = {r[k].id : k \in 1..n}
        BY <1>1, <1>3 DEF TodoIds
    <2>. QED BY <1>3, <2>1
<1>8. ASSUME left = {}, added = {}
      PROVE  NoneAdded'
    <2>1. NoneAdded
        BY <1>1, <1>8 DEF CheckInv
    <2>2. Selected = counted => \A i \in Orphans : i \in TodoIds' \/ Rank(i) >= Skip + Limit
        <3>. SUFFICES ASSUME Selected = counted, NEW i \in Orphans, ~(Rank(i) >= Skip + Limit)
                      PROVE  i \in TodoIds'
            OBVIOUS
        <3>1. Rank(i) >= Skip /\ Rank(i) < Skip + Limit /\ i \in Selected
            BY <1>1, <1>4, <1>5, <2>1, RankIsNatural DEF NoneAdded
        <3>. QED BY <1>7, <3>1
    <2>3. ASSUME position + n >= total
          PROVE  Orphans \subseteq TodoIds'
        <3>1. Selected \subseteq counted /\ c <= total
            BY <1>4, <2>1, FewerEarlier DEF NoneAdded
        <3>2. c = total /\ c <= Skip + Limit
            BY <1>1, <1>4, <1>6, <2>3, <3>1
        <3>3. Selected = counted
            <4>1. IsFiniteSet(counted)
                BY <1>4, ScansAssumption, FS_Subset DEF ScansAssumption
            <4>. QED BY <1>4, <3>1, <3>2, <4>1, FS_Subset
        <3>4. ASSUME NEW i \in Orphans
              PROVE  i \in TodoIds'
            <4>1. Rank(i) < c /\ Rank(i) \in Nat
                BY <1>5, SelectedAreIds, RankIsBelow, RankIsNatural DEF Rank
            <4>2. ~(Rank(i) >= Skip + Limit)
                BY <1>4, <3>2, <4>1
            <4>. QED BY <2>2, <3>3, <4>2
        <3>. QED BY <3>4
    <2>4. Len(batch') = n
        BY <1>1, <1>3
    <2>. QED BY <1>1, <1>2, <1>5, <2>1, <2>2, <2>3, <2>4 DEF NoneAdded
<1>9. ASSUME Steady, total <= PageSize
      PROVE  SinglePage'
    <2>1. SinglePage
        BY <1>1, <1>9 DEF CheckInv
    <2>2. ASSUME position = 0, page = 1, CountedFirst, NEW i \in Orphans
          PROVE  i \in TodoIds'
        <3>1. Limit = PageSize /\ Skip = 0
            <4>1. page - 1 = 0 /\ \A m \in Nat : m * 0 = 0
                BY <2>2
            <4>2. Limit * (page - 1) = 0
                BY <1>4, <4>1
            <4>. QED BY <2>2, <4>2 DEF Limit, Skip
        <3>2. Rank(i) < total
            BY <1>1, <1>5, <2>2, CountedRanks
        <3>3. Rank(i) >= Skip /\ Rank(i) < Skip + Limit
            BY <1>4, <1>9, <3>1, <3>2, RankIsNatural
        <3>. QED BY <1>5, <1>7, <3>3
    <2>3. Orphans \subseteq TodoIds'
        BY <1>1, <2>1, <2>2 DEF SinglePage
    <2>. QED BY <1>1, <1>5, <2>3 DEF SinglePage
<1>. QED BY <1>1, <1>5, <1>8, <1>9

\* What it does not delete is no orphan.
LEMMA CheckLooksUp ==
    ASSUME LoopInv, CheckInv, LookUp
    PROVE  CheckInv'
<1>. DEFINE h == Head(todo).id
<1>1. /\ scan = "check" /\ pc = "handle" /\ todo # <<>>
      /\ \/ todo' = todo /\ pc' = "delete"
         \/ todo' = Tail(todo) /\ pc' = "handle" /\ mongo[h] # 0
      /\ UNCHANGED <<mongo, index, scan, position, page, total, batch, counted, sinceCount>>
    BY DEF LookUp, IsOrphan, unchangedBySteps, sinceCount
<1>2. Skip' = Skip /\ Limit' = Limit /\ Selected' = Selected /\ \A k : Rank(k)' = Rank(k)
    BY <1>1, StepsKeepOrder, SkipStays DEF Step, Delete
<1>3. Orphans' = Orphans
    BY <1>1 DEF Orphans, Present
<1>4. \A i \in Orphans : i \in TodoIds => i \in TodoIds'
    <2>1. TodoIds = {h} \cup {Tail(todo)[k].id : k \in DOMAIN Tail(todo)}
        BY <1>1, TodoSplits DEF LoopInv
    <2>2. \/ TodoIds' = TodoIds
          \/ mongo[h] # 0 /\ TodoIds' = {Tail(todo)[k].id : k \in DOMAIN Tail(todo)}
        BY <1>1 DEF TodoIds
    <2>. QED BY <2>1, <2>2 DEF Orphans
<1>. HIDE DEF h
<1>5. NoneAdded => NoneAdded'
    BY <1>1, <1>2, <1>3, <1>4 DEF NoneAdded
<1>6. SinglePage => SinglePage'
    BY <1>1, <1>3, <1>4 DEF SinglePage
<1>. QED BY <1>1, <1>3, <1>5, <1>6 DEF CheckInv, Steady, sinceCount

\* What it deletes is no orphan any more, and was counted.
LEMMA CheckDeletes ==
    ASSUME LoopInv, CheckInv, Delete
    PROVE  CheckInv'
<1>. DEFINE h == Head(todo).id
<1>1. /\ scan = "check" /\ pc = "delete" /\ todo # <<>> /\ todo' = Tail(todo) /\ pc' = "handle"
      /\ index' = [index EXCEPT ![h] = 0]
      /\ UNCHANGED <<mongo, scan, descending, matching, position, page, total, batch, counted, left,
                     added, between>>
    BY DEF Delete, unchangedBySteps, sinceCount, LoopInv, PhaseInv
<1>2. Skip' = Skip /\ Limit' = Limit
    BY <1>1, SkipStays
<1>3. TodoIds = {h} \cup TodoIds'
    BY <1>1, TodoSplits DEF LoopInv, TodoIds
<1>4. index \in [Ids -> Nat] /\ Selected = Present(index) /\ Selected' = Present(index)'
    <2>1. LoopInv'
        BY LoopStep DEF Next, Step
    <2>2. scan' = "check" /\ matching = Ids /\ matching' = Ids
        BY <1>1 DEF LoopInv, PhaseInv, Selective
    <2>. QED BY <1>1, <2>2 DEF LoopInv, TypeOK, Selected, Source, ReadsIndex, Present
<1>. HIDE DEF h
<1>5. /\ Present(index)' = Present(index) \ {h}
      /\ Orphans' = Orphans \ {h}
    <2>1. \A j \in Ids : index'[j] = IF j = h THEN 0 ELSE index[j]
        BY <1>1, <1>4
    <2>. QED BY <1>1, <2>1 DEF Orphans, Present
<1>6. Selected' = Selected => \A k : Rank(k)' = Rank(k)
    BY <1>1 DEF Rank, Earlier, Precedes
<1>7. \A i \in Orphans' : i \in Orphans /\ (i \in TodoIds => i \in TodoIds')
    BY <1>3, <1>5
<1>8. ASSUME NoneAdded
      PROVE  NoneAdded'
    <2>1. Selected' \subseteq Selected /\ Selected \subseteq counted
        BY <1>4, <1>5, <1>8 DEF NoneAdded
    <2>2. ASSUME Selected' = counted, NEW i \in Orphans'
          PROVE  i \in TodoIds' \/ Rank(i)' >= Skip + Limit
        <3>1. Selected' = Selected /\ Selected = counted
            BY <2>1, <2>2
        <3>. QED BY <1>1, <1>6, <1>7, <1>8, <3>1 DEF NoneAdded
    <2>. QED BY <1>1, <1>2, <1>7, <1>8, <2>1, <2>2 DEF NoneAdded
<1>9. SinglePage => SinglePage'
    BY <1>1, <1>7 DEF SinglePage
<1>. QED BY <1>1, <1>7, <1>8, <1>9 DEF CheckInv, Steady

\* After a page there are no orphans before the next, or something was deleted.
LEMMA CheckFinishesPage ==
    ASSUME LoopInv, PlaceInv, CheckInv, FinishPage
    PROVE  CheckInv'
<1>. SUFFICES ASSUME scan = "check"
              PROVE  /\ Orphans' \subseteq counted'
                     /\ left = {} /\ added = {} => NoneAdded'
                     /\ Steady /\ total <= PageSize => SinglePage'
    BY DEF CheckInv, FinishPage, unchangedBySteps, sinceCount, Steady
<1>1. /\ pc = "handle" /\ pc' = "read" /\ todo = <<>> /\ position' = position + Len(batch)
      /\ UNCHANGED <<mongo, index, total, counted>>
    BY DEF FinishPage, BreaksOff, NextPosition, Rewrites
<1>2. Skip' = Skip + Limit
    BY ChecksReadAll, SkipMoves
<1>3. Selected' = Selected /\ \A k : Rank(k)' = Rank(k)
    BY StepsKeepOrder DEF FinishPage, Step, Delete
<1>4. Orphans' = Orphans /\ TodoIds = {}
    BY <1>1 DEF Orphans, Present, TodoIds
<1>5. NoneAdded => NoneAdded'
    BY <1>1, <1>2, <1>3, <1>4 DEF NoneAdded
<1>6. SinglePage => SinglePage'
    BY <1>1, <1>4 DEF SinglePage
<1>. QED BY <1>1, <1>4, <1>5, <1>6 DEF CheckInv

\* When the count is complete, there are none.
LEMMA CheckFinishes ==
    ASSUME LoopInv, CheckInv, Finish
    PROVE  CheckInv'
<1>. SUFFICES ASSUME scan = "check"
              PROVE  /\ Orphans' \subseteq counted'
                     /\ left = {} /\ added = {} => NoneAdded'
                     /\ Steady /\ total <= PageSize => SinglePage'
    BY DEF CheckInv, Finish, unchangedBySteps, sinceCount, Steady
<1>1. /\ pc = "read" /\ pc' = "done" /\ position >= total
      /\ UNCHANGED <<mongo, index, total, counted>>
    BY DEF Finish
<1>2. Selected' = Selected /\ Orphans' = Orphans
    BY <1>1, StepsKeepOrder DEF Finish, Step, Delete, Orphans, Present
<1>3. NoneAdded => NoneAdded'
    BY <1>1, <1>2 DEF NoneAdded
<1>4. SinglePage /\ Orphans \subseteq counted => SinglePage'
    <2>. SUFFICES ASSUME Orphans \subseteq counted, position = 0
                  PROVE  Orphans = {}
        BY <1>1, <1>2 DEF SinglePage
    <2>1. total = Cardinality(counted) /\ IsFiniteSet(counted) /\ total \in Nat
        BY <1>1, ScansAssumption, FS_Subset DEF LoopInv, PhaseInv, TypeOK, ScansAssumption
    <2>2. counted = {}
        BY <1>1, <2>1, FS_EmptySet
    <2>. QED BY <2>2
<1>. QED BY <1>1, <1>2, <1>3, <1>4 DEF CheckInv

\* Every step keeps the orphans where fix-diff will find them, or off its count.
LEMMA CheckStep == LoopInv /\ PlaceInv /\ CheckInv /\ [Next]_vars => CheckInv'
<1>. SUFFICES ASSUME LoopInv, PlaceInv, CheckInv, [Next]_vars PROVE CheckInv'
    OBVIOUS
<1>1. CASE UNCHANGED vars
    BY <1>1 DEF vars, scanVars, observerVars, sinceCount, CheckInv, Steady, NoneAdded, SinglePage,
        CountedFirst, Orphans, TodoIds, Skip, Limit, ReadsIndex, Rank, Earlier, Precedes, Selected,
        Source, Present
<1>2. CASE CreateTransaction \/ UpdateTransaction \/ RemoveTransaction
    BY <1>2, ServiceChanges, CheckSeesChange DEF LoopInv
<1>3. CASE Clear \/ Prepare \/ Send \/ Refuse \/ Abort
    BY <1>3 DEF Clear, Prepare, Send, Refuse, Abort, Handles, CheckInv, Rewrites,
        unchangedBySteps, LoopInv, PhaseInv
<1>4. CASE Count \/ ReadPage \/ LookUp \/ Delete \/ FinishPage \/ Finish
    BY <1>4, CheckCounts, CheckReads, CheckLooksUp, CheckDeletes, CheckFinishesPage, CheckFinishes
<1>. QED BY <1>1, <1>2, <1>3, <1>4 DEF Next, Step

\* When fix-diff comes to an end, the index has only what MongoDB has, unless
\* something else removed a copy, or added one and there was more than a page.
THEOREM ChecksThatEndAreClean == Spec => []FinishedChecksClean
<1>1. CheckInv => FinishedChecksClean
    BY DEF CheckInv, NoneAdded, SinglePage, Orphans, FinishedChecksClean, HasOrphans, OnlyAppended,
        Steady
<1>. QED BY <1>1, LoopStarts, LoopStep, PlaceStarts, PlaceStep, CheckStarts, CheckStep,
            PTL DEF Spec
=============================================================================
