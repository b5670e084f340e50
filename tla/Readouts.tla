------------------------------ MODULE Readouts ------------------------------
(***************************************************************************)
(* What the service reads out of its transactions: lists (BusinessController, *)
(* UserController, AdminController with the two search services), exported *)
(* files (ExportTransactionsController, ExporterService), the daily report *)
(* (DailyReportTransactionsService) and the monthly reports of the cron    *)
(* job and of the command export:transaction:widget.                       *)
(*                                                                         *)
(* A request is answered while transactions come and go: a handler takes   *)
(* one step per query it awaits.  An amount or a total is the set of the   *)
(* transactions that are summed.                                           *)
(***************************************************************************)
EXTENDS SearchFilters, Calendar

CONSTANTS
    DocOf,          \* the transaction of each uuid
    Scenarios,      \* the uuids stored at first, and the request
    DirectLimitMerchant, \* exportTransactionsCountDirectLimitMerchant
    DirectLimitAdmin,    \* exportTransactionsCountDirectLimitAdmin
    PdfLimit,       \* exportTransactionsCountPdfLimit
    MaxChanges,     \* bound: how often a transaction comes or goes
    MaxCrashes,     \* bound: how often the consumer goes down
    LastMonth,      \* bound: the month in which the clock stops
    MonthCount      \* bound: what the command is told

\* Values that a client may send for a field.
IsValue(field, condition, v) ==
    /\ field \in Longs /\ condition = "between" => v.from \in Nat /\ v.to \in Nat
    /\ field \in Longs /\ condition # "between" => v \in Nat
    /\ field \in Dates /\ condition = "betweenDates" => v.from \in Nat /\ v.to \in Nat
    /\ field \in Dates /\ condition # "betweenDates" => v \in Nat

IsRequest(r) ==
    /\ r.kind \in {"list", "export", "daily", "clock"}
    /\ r.kind \in {"list", "export"} =>
        /\ r.asker \in {"business", "user", "admin"}
        /\ \A field \in DOMAIN r.filters : \A i \in DOMAIN r.filters[field] :
            LET f == r.filters[field][i] IN
            /\ DOMAIN f.value = 1..Len(f.value)
            /\ \A j \in DOMAIN f.value : IsValue(field, f.condition, f.value[j])
    /\ r.kind = "daily" => r.begin \in Nat

ASSUME ReadoutsAssumption ==
    /\ \A s \in Scenarios : s.stored \subseteq DOMAIN DocOf /\ IsRequest(s.request)
    /\ \A u \in DOMAIN DocOf :
        /\ {"business_uuid", "user_uuid"} \subseteq DOMAIN DocOf[u]
        /\ DocOf[u].total \in Nat /\ DocOf[u].created_at \in Nat /\ DocOf[u].example \in BOOLEAN
    /\ {DirectLimitMerchant, DirectLimitAdmin, PdfLimit, MaxChanges, MaxCrashes, LastMonth,
        MonthCount} \subseteq Nat

VARIABLES
    stored,     \* the uuids of the stored transactions
    changes,    \* how many came or went
    steady,     \* the uuids that were stored all the time
    request,    \* the request, as it came
    step,       \* what its handler does next
    found,      \* the results of its queries
    answer,     \* what was answered
    queue,      \* the export messages waiting
    consumer,   \* what their consumer does
    media,      \* the stored files
    mails,      \* the links sent
    dead,       \* the messages given up
    crashes,
    today,      \* the day of the clock
    reports     \* the monthly reports made

storeVars == <<stored, changes, steady>>
requestVars == <<step, found, answer>>
exportVars == <<queue, consumer, media, mails, dead, crashes>>
clockVars == <<today, reports>>
vars == <<storeVars, request, requestVars, exportVars, clockVars>>

None == "none"
Uuids == DOMAIN DocOf

Init ==
    /\ \E s \in Scenarios : stored = s.stored /\ request = s.request
    /\ changes = 0
    /\ steady = stored
    /\ step = request.kind
    /\ found = <<>>
    /\ answer = None
    /\ queue = <<>>
    /\ consumer = None
    /\ media = {}
    /\ mails = {}
    /\ dead = {}
    /\ crashes = 0
    /\ today = [month |-> 12, day |-> 1]
    /\ reports = {}

\* The rest of the service creates or removes a transaction; both engines know at
\* once, for SearchIndex is about when they do.
Change ==
    /\ changes < MaxChanges
    /\ answer = None
    /\ step # "clock"
    /\ changes' = changes + 1
    /\ \E u \in Uuids :
        /\ stored' = IF u \in stored THEN stored \ {u} ELSE stored \cup {u}
        /\ steady' = steady \ {u}
    /\ UNCHANGED <<request, requestVars, exportVars, clockVars>>

-----------------------------------------------------------------------------
(* Lists.                                                                  *)

\* The filters of a list: what the client sent, and whose list it is.
ListFilters ==
    CASE request.asker = "business" -> ApplyBusinessFilter(request.id, request.filters)
      [] request.asker = "user" -> ApplyUserUuidFilter(request.id, request.filters)
      [] request.asker = "admin" -> ApplyNotExample(request.filters)

MongoHits(filters, text) ==
    {u \in stored : MongoMatches(filters, DocOf[u]) /\ MongoSearched(text, DocOf[u])}
ElasticHits(filters, text) ==
    {u \in stored : ElasticMatches(filters, DocOf[u]) /\ ElasticSearched(text, DocOf[u])}

Hits ==
    IF request.engine = "mongo" THEN MongoHits(ListFilters, request.search)
    ELSE ElasticHits(ListFilters, request.search)

ListParts == {"collection", "amount", "total", "usage"}

\* getResult asks for its parts at once; they are answered in any order.
QueryPart(part) ==
    /\ step = "list"
    /\ part \in ListParts \ DOMAIN found
    /\ found' = [p \in DOMAIN found \cup {part} |-> IF p = part THEN Hits ELSE found[p]]
    /\ UNCHANGED <<storeVars, request, step, answer, exportVars, clockVars>>

AnswerList ==
    /\ step = "list"
    /\ DOMAIN found = ListParts
    /\ answer' = "list"
    /\ step' = "done"
    /\ UNCHANGED <<storeVars, request, found, exportVars, clockVars>>

-----------------------------------------------------------------------------
(* Exported files.                                                         *)

\* The folders plugin keeps an index of its own, with a scope, and as userId the field
\* that folders.config.ts names, which is user_uuid.
Scopes == {"business", "user"}

FolderDocument(u, scope) ==
    [field \in DOMAIN DocOf[u] \cup {"userId", "scope"} |->
        IF field = "userId" THEN DocOf[u].user_uuid
        ELSE IF field = "scope" THEN scope
        ELSE DocOf[u][field]]

\* A user's export leaves the user_uuid of the client's filters as it is, and an
\* admin's all of them.
ExportFilters ==
    CASE request.asker = "business" ->
            AddScope("business", ApplyBusinessFilter(request.id, request.filters))
      [] request.asker = "user" ->
            AddScope("user", ApplyUserIdFilter(request.id, request.filters))
      [] request.asker = "admin" -> request.filters

ExportHits ==
    {u \in stored : \E scope \in Scopes : ElasticMatches(ExportFilters, FolderDocument(u, scope))}

DirectLimit == IF request.asker = "admin" THEN DirectLimitAdmin ELSE DirectLimitMerchant

\* Mutant of IsRefused: pdfs have a limit of their own.
MutantPdfLimitAlone(count) == request.format = "pdf" /\ count > PdfLimit

\* checkPdfLimit.
IsRefused(count) == request.format = "pdf" /\ count > Min({DirectLimit, PdfLimit})

CountForExport ==
    /\ step = "export"
    /\ LET count == Cardinality(ExportHits) IN
       \/ /\ IsRefused(count)
          /\ answer' = "refused" /\ step' = "done"
          /\ UNCHANGED queue
       \/ /\ ~IsRefused(count) /\ count > DirectLimit
          /\ answer' = "accepted" /\ step' = "done"
          /\ queue' = Append(queue, request)
       \/ /\ ~IsRefused(count) /\ count <= DirectLimit
          /\ step' = "read"
          /\ UNCHANGED <<answer, queue>>
    /\ UNCHANGED <<storeVars, request, found, consumer, media, mails, dead, crashes, clockVars>>

\* The rows of the file, see PagedScans.  exportAdminTransactions does not wait for
\* them: what it answers is no file.
ReturnDocument ==
    /\ step = "read"
    /\ found' = [rows |-> ExportHits]
    /\ answer' = IF request.asker = "admin" THEN "nothing" ELSE "file"
    /\ step' = "done"
    /\ UNCHANGED <<storeVars, request, exportVars, clockVars>>

ConsumeExport ==
    /\ consumer = None
    /\ queue # <<>>
    /\ queue' = Tail(queue)
    /\ consumer' = "read"
    /\ UNCHANGED <<storeVars, request, requestVars, media, mails, dead, crashes, clockVars>>

\* A promise cannot be appended to the form: the handler of an admin's export throws.
ReadForLink ==
    /\ consumer = "read"
    /\ found' = [rows |-> ExportHits]
    /\ IF request.asker = "admin"
       THEN consumer' = None /\ dead' = dead \cup {request}
       ELSE consumer' = "store" /\ UNCHANGED dead
    /\ UNCHANGED <<storeVars, request, step, answer, queue, media, mails, crashes, clockVars>>

\* Nobody ends the stream of a pdf here, and its upload would not end.
StoreFileInMedia ==
    /\ consumer = "store"
    /\ request.format # "pdf"
    /\ media' = media \cup {found.rows}
    /\ consumer' = "mail"
    /\ UNCHANGED <<storeVars, request, requestVars, queue, mails, dead, crashes, clockVars>>

MediaFails ==
    /\ consumer = "store"
    /\ dead' = dead \cup {request}
    /\ consumer' = None
    /\ UNCHANGED <<storeVars, request, requestVars, queue, media, mails, crashes, clockVars>>

SendEmailToDownloadFileByLink ==
    /\ consumer = "mail"
    /\ mails' = mails \cup {found.rows}
    /\ consumer' = None
    /\ UNCHANGED <<storeVars, request, requestVars, queue, media, dead, crashes, clockVars>>

\* The message is delivered again.
Crash ==
    /\ consumer # None
    /\ crashes < MaxCrashes
    /\ crashes' = crashes + 1
    /\ queue' = Append(queue, request)
    /\ consumer' = None
    /\ UNCHANGED <<storeVars, request, requestVars, media, mails, dead, clockVars>>

-----------------------------------------------------------------------------
(* The daily report: four queries, one after the other.                    *)

IsToday(u) == DocOf[u].created_at >= request.begin

\* Mutant of IsBefore: the day's first moment is before it as well.
MutantNotAfter(u) == DocOf[u].created_at <= request.begin

IsBefore(u) == DocOf[u].created_at < request.begin

CurrencyOf(u) == DocOf[u].currency
TypeOf(u) == DocOf[u].type

\* $group: the transactions of each key.
GroupBy(Key(_), us) == [k \in {Key(u) : u \in us} |-> {u \in us : Key(u) = k}]

At(groups, k) == IF k \in DOMAIN groups THEN groups[k] ELSE {}

TodayByCurrency ==
    /\ step = "daily"
    /\ LET groups == GroupBy(CurrencyOf, {u \in stored : IsToday(u)}) IN
       found' = [c \in DOMAIN groups |-> [today |-> groups[c], overall |-> {}, options |-> <<>>]]
    /\ step' = "before"
    /\ UNCHANGED <<storeVars, request, answer, exportVars, clockVars>>

BeforeTodayByCurrency ==
    /\ step = "before"
    /\ LET groups == GroupBy(CurrencyOf, {u \in stored : IsBefore(u)}) IN
       found' = [c \in DOMAIN found \cup DOMAIN groups |->
           IF c \in DOMAIN found THEN [found[c] EXCEPT !.overall = At(groups, c)]
           ELSE [today |-> {}, overall |-> groups[c], options |-> <<>>]]
    /\ step' = "options"
    /\ UNCHANGED <<storeVars, request, answer, exportVars, clockVars>>

\* Options of a currency that the first two queries did not see are passed over.
TodayByOption ==
    /\ step = "options"
    /\ found' = [c \in DOMAIN found |->
           LET groups == GroupBy(TypeOf, {u \in stored : IsToday(u) /\ CurrencyOf(u) = c}) IN
           [found[c] EXCEPT !.options =
               [t \in DOMAIN groups |-> [today |-> groups[t], overall |-> {}]]]]
    /\ step' = "options before"
    /\ UNCHANGED <<storeVars, request, answer, exportVars, clockVars>>

BeforeTodayByOption ==
    /\ step = "options before"
    /\ found' = [c \in DOMAIN found |->
           LET groups == GroupBy(TypeOf, {u \in stored : IsBefore(u) /\ CurrencyOf(u) = c})
               options == found[c].options IN
           [found[c] EXCEPT !.options = [t \in DOMAIN options \cup DOMAIN groups |->
               IF t \in DOMAIN options THEN [options[t] EXCEPT !.overall = At(groups, t)]
               ELSE [today |-> {}, overall |-> groups[t]]]]]
    /\ step' = "send"
    /\ UNCHANGED <<storeVars, request, answer, exportVars, clockVars>>

ProduceDailyReport ==
    /\ step = "send"
    /\ answer' = "report"
    /\ step' = "done"
    /\ UNCHANGED <<storeVars, request, found, exportVars, clockVars>>

-----------------------------------------------------------------------------
(* Monthly reports, by month before the day they are made on.              *)

\* The cron job, at the first moment of a month; a report is of the month before.
ExportMonthly ==
    /\ step = "clock"
    /\ today.day = 1
    /\ reports' = reports \cup {[by |-> "cron", on |-> today, n |-> 1]}
    /\ step' = "day"
    /\ UNCHANGED <<storeVars, request, found, answer, exportVars, today>>

\* The command may be run on any day, for some months back.
ExportTransactionWidget ==
    /\ step = "day"
    /\ reports' = reports \cup {[by |-> "command", on |-> today, n |-> n] : n \in 0..MonthCount}
    /\ step' = "night"
    /\ UNCHANGED <<storeVars, request, found, answer, exportVars, today>>

\* The reports of the command are forgotten over night, to keep the instance small.
NextDay ==
    /\ step \in {"day", "night"}
    /\ today.month < LastMonth
    /\ today' = Tomorrow(today)
    /\ step' = IF today'.day = 1 THEN "clock" ELSE "day"
    /\ reports' = {r \in reports : r.by = "cron"}
    /\ UNCHANGED <<storeVars, request, found, answer, exportVars>>

-----------------------------------------------------------------------------

Serve ==
    \/ \E part \in ListParts : QueryPart(part)
    \/ AnswerList
    \/ CountForExport \/ ReturnDocument
    \/ TodayByCurrency \/ BeforeTodayByCurrency \/ TodayByOption \/ BeforeTodayByOption
    \/ ProduceDailyReport
    \/ ExportMonthly \/ ExportTransactionWidget \/ NextDay

Consume == ConsumeExport \/ ReadForLink \/ StoreFileInMedia \/ SendEmailToDownloadFileByLink

Next == Serve \/ Consume \/ MediaFails \/ Change \/ Crash

Spec == Init /\ [][Next]_vars

\* The consumer goes on with the messages that wait; nothing has to fail.
Fairness == WF_vars(Consume)

FairSpec == Spec /\ Fairness

-----------------------------------------------------------------------------
(* Properties.                                                             *)

Owned(u) ==
    CASE request.asker = "business" -> DocOf[u].business_uuid = request.id
      [] request.asker = "user" -> DocOf[u].user_uuid = request.id
      [] request.asker = "admin" -> request.kind = "list" => ~DocOf[u].example

\* Whatever filters and search text the client sends, a list and everything summed
\* and counted beside it, and an exported file, are of the business's or the user's
\* own transactions; an admin's list has no examples.
OnlyOwnTransactions ==
    /\ request.kind = "list" => \A part \in DOMAIN found : \A u \in found[part] : Owned(u)
    /\ \A rows \in media \cup mails : \A u \in rows : Owned(u)
    /\ answer = "file" => \A u \in found.rows : Owned(u)

\* The conditions that make sense for a field.
ConditionsOf(field) ==
    CASE field \in Words -> StringConditions
      [] field \in Longs -> {"is", "isNot", "between"} \cup NumberConditions
      [] field \in Dates -> {"betweenDates"} \cup DateConditions
      [] OTHER -> {"is", "isNot"}

\* The conditions that a product above the whole cent turns away from that cent.
Precise == {"is", "isNot", "lessThan", "greaterThanOrEqual"}

\* A filter that means the same to both engines: it has one value, a condition both
\* know, whole amounts for between, an amount that does not come out too large for a
\* precise condition, and no transaction is created when betweenDates ends.
IsPlain(field, f) ==
    /\ Len(f.value) = 1
    /\ f.condition \in ConditionsOf(field)
    /\ LET v == f.value[1] IN
       /\ f.condition = "between" => v.from % Hundred = 0 /\ v.to % Hundred = 0
       /\ f.condition = "betweenDates" =>
              \A u \in stored : DocOf[u].created_at # TomorrowDateStart(v.to)
       /\ field \in Longs /\ f.condition \in Precise => v \notin TooLarge

\* The list and its rehearsal in MongoDB show the same transactions, if all filters
\* are plain and no stored amount lost a cent on its way into the index.
EnginesAgree ==
    request.kind = "list" =>
        LET filters == ListFilters IN
        (/\ \A field \in DOMAIN filters : \A f \in Applied(filters[field]) : IsPlain(field, f)
         /\ \A u \in stored : DocOf[u].total \notin TooSmall)
        => MongoHits(filters, <<>>) = ElasticHits(filters, <<>>)

\* The daily report counts every transaction that was there throughout exactly once
\* in the totals of its currency, and once in those of its payment option, whatever
\* comes and goes between the four queries.
DailyReportCountsOnce ==
    answer = "report" => \A u \in steady :
        /\ CurrencyOf(u) \in DOMAIN found
        /\ LET currency == found[CurrencyOf(u)] IN
           /\ u \in currency.today <=> u \notin currency.overall
           /\ TypeOf(u) \in DOMAIN currency.options
           /\ LET option == currency.options[TypeOf(u)] IN
              u \in option.today <=> u \notin option.overall

\* An export that was accepted is mailed as a link, unless the media service refuses
\* the file; a business's and a user's, that is.
AcceptedExportsArrive ==
    (answer = "accepted" /\ request.asker # "admin") ~> (mails # {} \/ dead # {})

Days(month) == {[month |-> month, day |-> d] : d \in 1..DaysIn(month)}

\* The cron job's reports cover every day of a month that is over once, and no other.
\* Those of the command begin with their month and are as long as the month before
\* the day they are made on: they leave out the end of a longer month, and take in
\* the first days after a shorter one.
MonthsReportedOnce ==
    /\ step = "day" /\ today.day = 1 =>
           \A month \in 12..(today.month - 1) : \A d \in Days(month) :
               Cardinality({r \in reports : r.by = "cron" /\ Covers(r.on, r.n, d)}) = 1
    /\ step = "night" => \A r \in reports : r.by = "command" =>
           LET month == r.on.month - r.n
               length == DaysIn(r.on.month - 1) IN
           /\ \A d \in Days(month) : Covers(r.on, r.n, d) <=> d.day <= length
           /\ \A d \in Days(month + 1) :
                  Covers(r.on, r.n, d) <=> d.day <= length - DaysIn(month)
           /\ \A d \in Days(month - 1) \cup Days(month + 2) : ~Covers(r.on, r.n, d)
=============================================================================
