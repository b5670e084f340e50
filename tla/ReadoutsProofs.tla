--------------------------- MODULE ReadoutsProofs ---------------------------
(***************************************************************************)
(* What Readouts keeps true for any transactions, requests, filters and    *)
(* lengths of months.                                                      *)
(***************************************************************************)
EXTENDS Readouts, FiniteSetTheorems, TLAPS

-----------------------------------------------------------------------------
(* The months of reports.                                                  *)

LEMMA MonthsHaveDays ==
  ASSUME NEW month \in Int
  PROVE  DaysIn(month) \in 28..31
<1>1. (month % 12) + 1 \in 1..12
  OBVIOUS
<1>2. QED
  BY <1>1, CalendarAssumption DEF DaysIn

\* A report begins with the first day of its month.
LEMMA FirstDays ==
  ASSUME NEW on \in [month : Int, day : Int], NEW n \in Int
  PROVE  FirstDayOfPreviousNMonth(on, n) = [month |-> on.month - n, day |-> 1]
<1>1. Normal(on.month, 1) = [month |-> on.month, day |-> 1]
  BY MonthsHaveDays DEF Normal
<1>2. on.month - n \in Int
  OBVIOUS
<1>3. Normal(on.month - n, 1) = [month |-> on.month - n, day |-> 1]
  BY <1>2, MonthsHaveDays DEF Normal
<1>4. QED
  BY <1>1, <1>3 DEF FirstDayOfPreviousNMonth, SetDate, SetMonth

\* It ends with the day of its month that has the number of the last day of the
\* month before the report, or with a day of the month after.
LEMMA LastDays ==
  ASSUME NEW on \in [month : Int, day : Int], NEW n \in Int
  PROVE  LastDayOfPreviousNMonth(on, n) = Normal(on.month - n, DaysIn(on.month - 1))
<1>1. Normal(on.month, 0) = [month |-> on.month - 1, day |-> DaysIn(on.month - 1)]
  BY DEF Normal
<1>2. (on.month - 1) - (n - 1) = on.month - n
  OBVIOUS
<1>3. QED
  BY <1>1, <1>2 DEF LastDayOfPreviousNMonth, SetDate, SetMonth

\* Made on a first day, a report on the month before covers just that month.
LEMMA LastMonthCovered ==
  ASSUME NEW on \in [month : Int, day : Int], NEW month \in Int, NEW d \in Days(month)
  PROVE  Covers(on, 1, d) <=> month = on.month - 1
<1> DEFINE before == on.month - 1
<1>1. before \in Int
  OBVIOUS
<1>2. DaysIn(before) \in 28..31 /\ DaysIn(month) \in 28..31
  BY <1>1, MonthsHaveDays
<1>3. FirstDayOfPreviousNMonth(on, 1) = [month |-> before, day |-> 1]
  BY FirstDays
<1>4. LastDayOfPreviousNMonth(on, 1) = Normal(before, DaysIn(before))
  BY LastDays
<1>5. Normal(before, DaysIn(before)) = [month |-> before, day |-> DaysIn(before)]
  BY <1>2 DEF Normal
<1>6. PICK day \in 1..DaysIn(month) : d = [month |-> month, day |-> day]
  BY DEF Days
<1>7. Covers(on, 1, d) <=>
        /\ before < month \/ (before = month /\ 1 <= day)
        /\ month < before \/ (month = before /\ day <= DaysIn(before))
  BY <1>3, <1>4, <1>5, <1>6 DEF Covers, NotAfter
<1> HIDE DEF before
<1>8. (\/ before < month
       \/ before = month /\ 1 <= day) /\ (\/ month < before
                                          \/ month = before /\ day <= DaysIn(before))
       <=> month = before
  BY <1>1, <1>2, <1>6
<1>9. QED
  BY <1>7, <1>8 DEF before

\* A report on any month has the length of the month before the day it is made on.
LEMMA ReportLength ==
  ASSUME NEW on \in [month : Int, day : Int], NEW n \in Int
  PROVE  LET month == on.month - n
             length == DaysIn(on.month - 1) IN
         /\ \A d \in Days(month) : Covers(on, n, d) <=> d.day <= length
         /\ \A d \in Days(month + 1) : Covers(on, n, d) <=> d.day <= length - DaysIn(month)
         /\ \A d \in Days(month - 1) \cup Days(month + 2) : ~Covers(on, n, d)
<1> DEFINE month == on.month - n
           length == DaysIn(on.month - 1)
           last == Normal(month, length)
           first == [month |-> month, day |-> 1]
<1>1. month \in Int /\ on.month - 1 \in Int
  OBVIOUS
<1>2. DaysIn(month) \in 28..31 /\ length \in 28..31
  BY <1>1, MonthsHaveDays
<1>3. FirstDayOfPreviousNMonth(on, n) = first
  BY FirstDays
<1>4. LastDayOfPreviousNMonth(on, n) = last
  BY LastDays
<1> HIDE DEF length
<1>5. last = IF length > DaysIn(month)
             THEN [month |-> month + 1, day |-> length - DaysIn(month)]
             ELSE [month |-> month, day |-> length]
  BY <1>2 DEF Normal
<1> HIDE DEF month, last
<1>6. ASSUME NEW m \in Int, NEW d \in Days(m)
      PROVE  /\ d.month = m /\ d.day \in 1..DaysIn(m) /\ DaysIn(m) \in 28..31
             /\ Covers(on, n, d) <=> NotAfter(first, d) /\ NotAfter(d, last)
  BY <1>3, <1>4, <1>6, MonthsHaveDays DEF Days, Covers
<1>7. ASSUME NEW d \in Days(month)
      PROVE  Covers(on, n, d) <=> d.day <= length
  BY <1>1, <1>2, <1>5, <1>6, <1>7 DEF NotAfter
<1>8. ASSUME NEW d \in Days(month + 1)
      PROVE  Covers(on, n, d) <=> d.day <= length - DaysIn(month)
  <2>1. month + 1 \in Int
    BY <1>1
  <2>2. /\ d.month = month + 1 /\ d.day \in 1..DaysIn(month + 1)
        /\ DaysIn(month + 1) \in 28..31
        /\ Covers(on, n, d) <=> NotAfter(first, d) /\ NotAfter(d, last)
    BY <1>6, <1>8, <2>1
  <2>3. QED
    BY <1>1, <1>2, <1>5, <2>2 DEF NotAfter
<1>9. ASSUME NEW d \in Days(month - 1) \cup Days(month + 2)
      PROVE  ~Covers(on, n, d)
  <2>1. month - 1 \in Int /\ month + 2 \in Int
    BY <1>1
  <2>2. /\ d.month \in {month - 1, month + 2} /\ d.day \in Nat \ {0}
        /\ Covers(on, n, d) <=> NotAfter(first, d) /\ NotAfter(d, last)
    BY <1>6, <1>9, <2>1
  <2>3. QED
    BY <1>1, <1>2, <1>5, <2>2 DEF NotAfter
<1>10. QED
  BY <1>7, <1>8, <1>9 DEF month, length

\* The report of the cron job at the beginning of a month.
CronReport(month) == [by |-> "cron", on |-> [month |-> month, day |-> 1], n |-> 1]
CronReports(until) == {CronReport(month) : month \in 12..until}

ClockSteps == {"clock", "day", "night"}

\* While the clock runs, the cron job has made its report of every month that began,
\* and the others are today's.
MonthInv ==
    step \in ClockSteps =>
        /\ today \in [month : Nat, day : Nat]
        /\ today.month >= 12
        /\ today.day \in 1..DaysIn(today.month)
        /\ step = "clock" => today.day = 1
        /\ {r \in reports : r.by = "cron"} =
               CronReports(IF step = "clock" THEN today.month - 1 ELSE today.month)
        /\ \A r \in reports : r.by = "cron" \/
               (r.by = "command" /\ r.on = today /\ r.n \in 0..MonthCount)

LEMMA InitMonthInv == Init => MonthInv
<1> SUFFICES ASSUME Init, step \in ClockSteps
             PROVE  MonthInv
  BY DEF MonthInv
<1>1. PICK s \in Scenarios : request = s.request
  BY DEF Init
<1>2. step = "clock"
  BY <1>1, ReadoutsAssumption DEF Init, IsRequest, ClockSteps
<1>3. today = [month |-> 12, day |-> 1] /\ reports = {}
  BY DEF Init
<1>4. CronReports(12 - 1) = {}
  BY DEF CronReports
<1>5. 1 \in 1..DaysIn(12)
  BY MonthsHaveDays
<1>6. QED
  BY <1>2, <1>3, <1>4, <1>5 DEF MonthInv

LEMMA NextMonthInv == MonthInv /\ [Next]_vars => MonthInv'
<1> SUFFICES ASSUME MonthInv, [Next]_vars, step' \in ClockSteps
             PROVE  MonthInv'
  BY DEF MonthInv
<1>1. ASSUME step' = step, UNCHANGED <<today, reports>>
      PROVE  MonthInv'
  BY <1>1 DEF MonthInv
<1>2. CASE ExportMonthly
  <2>1. /\ step = "clock" /\ step' = "day" /\ today.day = 1 /\ today' = today
        /\ reports' = reports \cup {[by |-> "cron", on |-> today, n |-> 1]}
    BY <1>2 DEF ExportMonthly
  <2>2. /\ today \in [month : Nat, day : Nat] /\ today.month >= 12
        /\ today.day \in 1..DaysIn(today.month)
        /\ {r \in reports : r.by = "cron"} = CronReports(today.month - 1)
        /\ \A r \in reports : r.by = "cron" \/
               (r.by = "command" /\ r.on = today /\ r.n \in 0..MonthCount)
    BY <2>1 DEF MonthInv, ClockSteps
  <2>3. today = [month |-> today.month, day |-> 1]
    BY <2>1, <2>2
  <2>4. [by |-> "cron", on |-> today, n |-> 1] = CronReport(today.month)
    BY <2>3 DEF CronReport
  <2>5. {r \in reports' : r.by = "cron"} =
            {r \in reports : r.by = "cron"} \cup {CronReport(today.month)}
    BY <2>1, <2>4 DEF CronReport
  <2>6. 12..today.month = 12..(today.month - 1) \cup {today.month}
    BY <2>2
  <2>7. {r \in reports' : r.by = "cron"} = CronReports(today.month)
    BY <2>2, <2>5, <2>6 DEF CronReports
  <2>8. \A r \in reports' : r.by = "cron" \/
               (r.by = "command" /\ r.on = today /\ r.n \in 0..MonthCount)
    BY <2>1, <2>2
  <2>9. QED
    BY <2>1, <2>2, <2>7, <2>8 DEF MonthInv
<1>3. CASE ExportTransactionWidget
  <2> DEFINE new == {[by |-> "command", on |-> today, n |-> n] : n \in 0..MonthCount}
  <2>1. /\ step = "day" /\ step' = "night" /\ today' = today
        /\ reports' = reports \cup new
    BY <1>3 DEF ExportTransactionWidget
  <2>2. /\ today \in [month : Nat, day : Nat] /\ today.month >= 12
        /\ today.day \in 1..DaysIn(today.month)
        /\ {r \in reports : r.by = "cron"} = CronReports(today.month)
        /\ \A r \in reports : r.by = "cron" \/
               (r.by = "command" /\ r.on = today /\ r.n \in 0..MonthCount)
    BY <2>1 DEF MonthInv, ClockSteps
  <2>3. \A r \in new : r.by = "command" /\ r.on = today /\ r.n \in 0..MonthCount
    OBVIOUS
  <2> HIDE DEF new
  <2>4. {r \in reports' : r.by = "cron"} = {r \in reports : r.by = "cron"}
    BY <2>1, <2>3
  <2>5. QED
    BY <2>1, <2>2, <2>3, <2>4 DEF MonthInv
<1>4. CASE NextDay
  <2>1. /\ step \in {"day", "night"} /\ today' = Tomorrow(today)
        /\ step' = IF today'.day = 1 THEN "clock" ELSE "day"
        /\ reports' = {r \in reports : r.by = "cron"}
    BY <1>4 DEF NextDay
  <2>2. /\ today \in [month : Nat, day : Nat] /\ today.month >= 12
        /\ today.day \in 1..DaysIn(today.month)
        /\ {r \in reports : r.by = "cron"} = CronReports(today.month)
    BY <2>1 DEF MonthInv, ClockSteps
  <2>3. DaysIn(today.month) \in 28..31 /\ DaysIn(today.month + 1) \in 28..31
    BY <2>2, MonthsHaveDays
  <2>4. \/ today' = [month |-> today.month + 1, day |-> 1]
        \/ /\ today' = [month |-> today.month, day |-> today.day + 1]
           /\ today.day + 1 \in 2..DaysIn(today.month)
    BY <2>1, <2>2, <2>3 DEF Tomorrow, Normal
  <2>5. /\ today' \in [month : Nat, day : Nat] /\ today'.month >= 12
        /\ today'.day \in 1..DaysIn(today'.month)
    BY <2>2, <2>3, <2>4
  <2>6. today.month = IF step' = "clock" THEN today'.month - 1 ELSE today'.month
    BY <2>1, <2>2, <2>4
  <2>7. {r \in reports' : r.by = "cron"} = {r \in reports : r.by = "cron"}
    BY <2>1
  <2>8. \A r \in reports' : r.by = "cron"
    BY <2>1
  <2>9. step' = "clock" => today'.day = 1
    BY <2>1
  <2>10. QED
    BY <2>2, <2>5, <2>6, <2>7, <2>8, <2>9 DEF MonthInv
<1>5. CASE Serve /\ ~(ExportMonthly \/ ExportTransactionWidget \/ NextDay)
  <2>1. ASSUME NEW part \in ListParts, QueryPart(part)
        PROVE  MonthInv'
    BY <1>1, <2>1 DEF QueryPart, clockVars
  <2>2. CASE AnswerList
    BY <2>2 DEF AnswerList, ClockSteps
  <2>3. CASE CountForExport
    BY <2>3 DEF CountForExport, ClockSteps
  <2>4. CASE ReturnDocument
    BY <2>4 DEF ReturnDocument, ClockSteps
  <2>5. CASE TodayByCurrency
    BY <2>5 DEF TodayByCurrency, ClockSteps
  <2>6. CASE BeforeTodayByCurrency
    BY <2>6 DEF BeforeTodayByCurrency, ClockSteps
  <2>7. CASE TodayByOption
    BY <2>7 DEF TodayByOption, ClockSteps
  <2>8. CASE BeforeTodayByOption
    BY <2>8 DEF BeforeTodayByOption, ClockSteps
  <2>9. CASE ProduceDailyReport
    BY <2>9 DEF ProduceDailyReport, ClockSteps
  <2>10. QED
    BY <1>5, <2>1, <2>2, <2>3, <2>4, <2>5, <2>6, <2>7, <2>8, <2>9 DEF Serve
<1>6. CASE Consume \/ MediaFails
  <2>1. step' = step /\ UNCHANGED <<today, reports>>
    BY <1>6 DEF Consume, ConsumeExport, ReadForLink, StoreFileInMedia, MediaFails,
                SendEmailToDownloadFileByLink, clockVars, requestVars
  <2>2. QED
    BY <1>1, <2>1
<1>7. CASE Change \/ Crash
  <2>1. step' = step /\ UNCHANGED <<today, reports>>
    BY <1>7 DEF Change, Crash, clockVars, requestVars
  <2>2. QED
    BY <1>1, <2>1
<1>8. CASE UNCHANGED vars
  BY <1>1, <1>8 DEF vars, clockVars, requestVars
<1>9. QED
  BY <1>2, <1>3, <1>4, <1>5, <1>6, <1>7, <1>8 DEF Next

LEMMA MonthInvSuffices == MonthInv => MonthsReportedOnce
<1> SUFFICES ASSUME MonthInv
             PROVE  MonthsReportedOnce
  OBVIOUS
<1>1. ASSUME step = "day", NEW month \in 12..(today.month - 1), NEW d \in Days(month)
      PROVE  Cardinality({r \in reports : r.by = "cron" /\ Covers(r.on, r.n, d)}) = 1
  <2>1. /\ today \in [month : Nat, day : Nat]
        /\ {r \in reports : r.by = "cron"} = CronReports(today.month)
    BY <1>1 DEF MonthInv, ClockSteps
  <2>2. month \in Int /\ month + 1 \in 12..today.month
    BY <1>1, <2>1
  <2>3. ASSUME NEW k \in Int
        PROVE  Covers([month |-> k, day |-> 1], 1, d) <=> k = month + 1
    <3>1. [month |-> k, day |-> 1] \in [month : Int, day : Int]
      OBVIOUS
    <3>2. Covers([month |-> k, day |-> 1], 1, d) <=> month = k - 1
      BY <1>1, <2>2, <3>1, LastMonthCovered
    <3>3. QED
      BY <2>2, <3>2
  <2>4. {r \in CronReports(today.month) : Covers(r.on, r.n, d)} = {CronReport(month + 1)}
    <3>1. ASSUME NEW k \in 12..today.month
          PROVE  Covers(CronReport(k).on, CronReport(k).n, d) <=> k = month + 1
      BY <2>3, <3>1 DEF CronReport
    <3>2. QED
      BY <2>2, <3>1 DEF CronReports
  <2>5. {r \in reports : r.by = "cron" /\ Covers(r.on, r.n, d)} = {CronReport(month + 1)}
    BY <2>1, <2>4
  <2>6. QED
    BY <2>5, FS_Singleton
<1>2. ASSUME step = "night", NEW r \in reports, r.by = "command"
      PROVE  LET month == r.on.month - r.n
                 length == DaysIn(r.on.month - 1) IN
             /\ \A d \in Days(month) : Covers(r.on, r.n, d) <=> d.day <= length
             /\ \A d \in Days(month + 1) :
                    Covers(r.on, r.n, d) <=> d.day <= length - DaysIn(month)
             /\ \A d \in Days(month - 1) \cup Days(month + 2) : ~Covers(r.on, r.n, d)
  <2>1. r.on \in [month : Int, day : Int] /\ r.n \in Int
    BY <1>2, ReadoutsAssumption DEF MonthInv, ClockSteps
  <2>2. QED
    BY <2>1, ReportLength
<1>3. QED
  BY <1>1, <1>2 DEF MonthsReportedOnce

\* Whatever the lengths of the months, the cron job's reports cover every day of a
\* month that is over once, and the command's cover as many days from the first of their
\* month on as the month before the day they are made on has.
THEOREM MonthsAreReportedOnce == Spec => []MonthsReportedOnce
<1>1. Spec => []MonthInv
  BY InitMonthInv, NextMonthInv, PTL DEF Spec
<1>2. QED
  BY <1>1, MonthInvSuffices, PTL

-----------------------------------------------------------------------------
(* Whose transactions are read.                                            *)

\* A filter with one value is applied.
LEMMA TheFilterApplies ==
  ASSUME NEW condition, NEW v
  PROVE  /\ [condition |-> condition, value |-> <<v>>] \in Applied(The(condition, v))
         /\ Range(<<v>>) = {v}
  BY DEF Applied, The, Range

\* What the controllers put into the filters, for a field that is no amount, decides
\* whose transactions match.
LEMMA ElasticField ==
  ASSUME NEW field, field \notin Longs, NEW id, NEW filters, NEW doc,
         field \in DOMAIN filters, filters[field] = The("is", id),
         ElasticMatches(filters, doc)
  PROVE  doc[field] = id
<1> DEFINE f == [condition |-> "is", value |-> <<id>>]
<1>1. f \in Applied(filters[field])
  BY TheFilterApplies
<1>2. ElasticHolds(f.condition, Indexed(doc, field), {Process(field, f.condition, v) : v \in Range(f.value)})
  BY <1>1 DEF ElasticMatches
<1>3. ElasticIs(doc[field], {v : v \in Range(f.value)})
  BY <1>2 DEF ElasticHolds, Indexed, Process
<1>4. QED
  BY <1>3, TheFilterApplies DEF ElasticIs

LEMMA ElasticBusiness ==
  ASSUME NEW filters, NEW business, NEW doc,
         ElasticMatches(ApplyBusinessFilter(business, filters), doc)
  PROVE  doc.business_uuid = business
<1> DEFINE all == ApplyBusinessFilter(business, filters)
<1>1. "business_uuid" \in DOMAIN all /\ all["business_uuid"] = The("is", business)
  BY DEF ApplyBusinessFilter, WithField
<1>2. doc["business_uuid"] = business
  BY <1>1, ElasticField DEF Longs
<1>3. QED
  BY <1>2

LEMMA ElasticUser ==
  ASSUME NEW filters, NEW user, NEW doc,
         ElasticMatches(ApplyUserUuidFilter(user, filters), doc)
  PROVE  doc.user_uuid = user
<1> DEFINE all == ApplyUserUuidFilter(user, filters)
<1>1. "user_uuid" \in DOMAIN all /\ all["user_uuid"] = The("is", user)
  BY DEF ApplyUserUuidFilter, WithField
<1>2. doc["user_uuid"] = user
  BY <1>1, ElasticField DEF Longs
<1>3. QED
  BY <1>2

LEMMA ElasticNotExample ==
  ASSUME NEW filters, NEW doc, doc.example \in BOOLEAN,
         ElasticMatches(ApplyNotExample(filters), doc)
  PROVE  ~doc.example
<1> DEFINE field == "example"
           f == [condition |-> "isNot", value |-> <<TRUE>>]
           all == ApplyNotExample(filters)
<1>1. field \in DOMAIN all /\ all[field] = The("isNot", TRUE)
  BY DEF ApplyNotExample, WithField
<1>2. f \in Applied(all[field])
  BY <1>1, TheFilterApplies
<1>3. ElasticHolds(f.condition, Indexed(doc, field), {Process(field, f.condition, v) : v \in Range(f.value)})
  BY <1>1, <1>2 DEF ElasticMatches
<1>4. TRUE \in Range(f.value)
  BY TheFilterApplies
<1>5. field \notin Longs
  BY DEF Longs
<1>6. ElasticIsNot(doc[field], {v : v \in Range(f.value)})
  BY <1>3, <1>5 DEF ElasticHolds, Indexed, Process
<1>7. QED
  BY <1>4, <1>6 DEF ElasticIsNot

LEMMA MongoBusiness ==
  ASSUME NEW filters, NEW business, NEW doc,
         MongoMatches(ApplyBusinessFilter(business, filters), doc)
  PROVE  doc.business_uuid = business
<1> DEFINE field == "business_uuid"
           f == [condition |-> "is", value |-> <<business>>]
           all == ApplyBusinessFilter(business, filters)
<1>1. field \in DOMAIN all /\ all[field] = The("is", business)
  BY DEF ApplyBusinessFilter, WithField
<1>2. f \in Applied(all[field])
  BY <1>1, TheFilterApplies
<1>3. MongoIs(doc[field], Range(f.value))
  BY <1>1, <1>2 DEF MongoMatches, MongoHolds
<1>4. QED
  BY <1>3, TheFilterApplies DEF MongoIs

LEMMA MongoUser ==
  ASSUME NEW filters, NEW user, NEW doc,
         MongoMatches(ApplyUserUuidFilter(user, filters), doc)
  PROVE  doc.user_uuid = user
<1> DEFINE field == "user_uuid"
           f == [condition |-> "is", value |-> <<user>>]
           all == ApplyUserUuidFilter(user, filters)
<1>1. field \in DOMAIN all /\ all[field] = The("is", user)
  BY DEF ApplyUserUuidFilter, WithField
<1>2. f \in Applied(all[field])
  BY <1>1, TheFilterApplies
<1>3. MongoIs(doc[field], Range(f.value))
  BY <1>1, <1>2 DEF MongoMatches, MongoHolds
<1>4. QED
  BY <1>3, TheFilterApplies DEF MongoIs

LEMMA MongoNotExample ==
  ASSUME NEW filters, NEW doc, doc.example \in BOOLEAN,
         MongoMatches(ApplyNotExample(filters), doc)
  PROVE  ~doc.example
<1> DEFINE field == "example"
           f == [condition |-> "isNot", value |-> <<TRUE>>]
           all == ApplyNotExample(filters)
<1>1. field \in DOMAIN all /\ all[field] = The("isNot", TRUE)
  BY DEF ApplyNotExample, WithField
<1>2. f \in Applied(all[field])
  BY <1>1, TheFilterApplies
<1>3. MongoIsNot(doc[field], Range(f.value))
  BY <1>1, <1>2 DEF MongoMatches, MongoHolds
<1>4. TRUE \in Range(f.value)
  BY TheFilterApplies
<1>5. QED
  BY <1>3, <1>4 DEF MongoIsNot

\* The hits of a list and the rows of a file are of the asker's transactions.
LEMMA HitsAreOwned ==
  ASSUME request.asker \in {"business", "user", "admin"}, request.kind = "list",
         stored \subseteq DOMAIN DocOf, NEW u \in Hits
  PROVE  Owned(u)
<1>1. u \in DOMAIN DocOf /\ DocOf[u].example \in BOOLEAN
  BY ReadoutsAssumption DEF Hits, MongoHits, ElasticHits
<1>2. MongoMatches(ListFilters, DocOf[u]) \/ ElasticMatches(ListFilters, DocOf[u])
  BY DEF Hits, MongoHits, ElasticHits
<1>3. CASE request.asker = "business"
  BY <1>2, <1>3, MongoBusiness, ElasticBusiness DEF ListFilters, Owned
<1>4. CASE request.asker = "user"
  BY <1>2, <1>4, MongoUser, ElasticUser DEF ListFilters, Owned
<1>5. CASE request.asker = "admin"
  <2>1. ListFilters = ApplyNotExample(request.filters)
    BY <1>5 DEF ListFilters
  <2>2. ~DocOf[u].example
    BY <1>1, <1>2, <2>1, MongoNotExample, ElasticNotExample
  <2>3. QED
    BY <1>5, <2>2 DEF Owned
<1>6. QED
  BY <1>3, <1>4, <1>5

LEMMA RowsAreOwned ==
  ASSUME request.asker \in {"business", "user", "admin"}, request.kind = "export",
         stored \subseteq DOMAIN DocOf, NEW u \in ExportHits
  PROVE  Owned(u)
<1>1. PICK scope \in Scopes : ElasticMatches(ExportFilters, FolderDocument(u, scope))
  BY DEF ExportHits
<1> DEFINE doc == FolderDocument(u, scope)
<1>2. CASE request.asker = "business"
  <2>1. /\ "business_uuid" \in DOMAIN ExportFilters
        /\ ExportFilters["business_uuid"] = The("is", request.id)
    BY <1>2 DEF ExportFilters, AddScope, ApplyBusinessFilter, WithField
  <2>2. doc["business_uuid"] = request.id
    BY <1>1, <2>1, ElasticField DEF Longs
  <2>3. "business_uuid" \in DOMAIN DocOf[u]
    BY ReadoutsAssumption DEF ExportHits
  <2>4. QED
    BY <1>2, <2>2, <2>3 DEF FolderDocument, Owned
<1>3. CASE request.asker = "user"
  <2>1. "userId" \in DOMAIN ExportFilters /\ ExportFilters["userId"] = The("is", request.id)
    BY <1>3 DEF ExportFilters, AddScope, ApplyUserIdFilter, WithField
  <2>2. doc["userId"] = request.id
    BY <1>1, <2>1, ElasticField DEF Longs
  <2>3. QED
    BY <1>3, <2>2 DEF FolderDocument, Owned
<1>4. CASE request.asker = "admin"
  BY <1>4 DEF Owned
<1>5. QED
  BY <1>2, <1>3, <1>4

-----------------------------------------------------------------------------

KnownRequest ==
    /\ \E s \in Scenarios : request = s.request
    /\ stored \subseteq DOMAIN DocOf
    /\ steady \subseteq stored

DailySteps == {"daily", "before", "options", "options before", "send"}

\* Which parts of the state a kind of request uses, and when.
RequestInv ==
    /\ step \in {"list"} => request.kind = "list"
    /\ step \in {"export", "read"} => request.kind = "export"
    /\ step \in DailySteps => request.kind = "daily"
    /\ step \in ClockSteps => request.kind = "clock"
    /\ consumer \in {None, "read", "store", "mail"}
    /\ request.kind # "export" =>
        answer \notin {"file", "accepted"} /\ media = {} /\ mails = {}
    /\ answer # "accepted" => consumer = None /\ queue = <<>>
    /\ answer \in {"file", "accepted", "report"} => step = "done"
    /\ answer = "report" => request.kind = "daily"

LEMMA RequestsAreKnown == Init => KnownRequest
  BY ReadoutsAssumption DEF Init, KnownRequest

LEMMA RequestsStayKnown == KnownRequest /\ [Next]_vars => KnownRequest'
<1> SUFFICES ASSUME KnownRequest, [Next]_vars
             PROVE  KnownRequest'
  OBVIOUS
<1>1. CASE Change
  BY <1>1 DEF Change, KnownRequest, Uuids
<1>2. CASE ~Change
  <2>1. UNCHANGED <<request, storeVars>>
    BY <1>2 DEF Next, Serve, Consume, QueryPart, AnswerList, CountForExport, ReturnDocument,
                ConsumeExport, ReadForLink, StoreFileInMedia, MediaFails,
                SendEmailToDownloadFileByLink, Crash, TodayByCurrency, BeforeTodayByCurrency,
                TodayByOption, BeforeTodayByOption, ProduceDailyReport, ExportMonthly,
                ExportTransactionWidget, NextDay, vars
  <2>2. QED
    BY <2>1 DEF KnownRequest, storeVars
<1>3. QED
  BY <1>1, <1>2

LEMMA RequestsAreRequests == KnownRequest => IsRequest(request)
  BY ReadoutsAssumption DEF KnownRequest

LEMMA InitRequestInv == Init => RequestInv
<1> SUFFICES ASSUME Init
             PROVE  RequestInv
  OBVIOUS
<1>1. IsRequest(request)
  BY RequestsAreKnown, RequestsAreRequests
<1>2. step = request.kind /\ step \in {"list", "export", "daily", "clock"}
  BY <1>1 DEF Init, IsRequest
<1>3. QED
  BY <1>2 DEF Init, RequestInv, DailySteps, ClockSteps, None

LEMMA NextRequestInv == RequestInv /\ [Next]_vars => RequestInv'
<1> SUFFICES ASSUME RequestInv, [Next]_vars
             PROVE  RequestInv'
  OBVIOUS
<1> USE DEF RequestInv, None, DailySteps, ClockSteps
<1>1. ASSUME NEW part \in ListParts, QueryPart(part)
      PROVE  RequestInv'
  BY <1>1 DEF QueryPart, exportVars
<1>2. CASE AnswerList
  BY <1>2 DEF AnswerList, exportVars
<1>3. CASE CountForExport
  BY <1>3 DEF CountForExport
<1>4. CASE ReturnDocument
  BY <1>4 DEF ReturnDocument, exportVars
<1>5. CASE TodayByCurrency
  BY <1>5 DEF TodayByCurrency, exportVars
<1>6. CASE BeforeTodayByCurrency
  BY <1>6 DEF BeforeTodayByCurrency, exportVars
<1>7. CASE TodayByOption
  BY <1>7 DEF TodayByOption, exportVars
<1>8. CASE BeforeTodayByOption
  BY <1>8 DEF BeforeTodayByOption, exportVars
<1>9. CASE ProduceDailyReport
  BY <1>9 DEF ProduceDailyReport, exportVars
<1>10. CASE ExportMonthly
  BY <1>10 DEF ExportMonthly, exportVars
<1>11. CASE ExportTransactionWidget
  BY <1>11 DEF ExportTransactionWidget, exportVars
<1>12. CASE NextDay
  BY <1>12 DEF NextDay, exportVars
<1>13. CASE ConsumeExport
  BY <1>13 DEF ConsumeExport, requestVars
<1>14. CASE ReadForLink
  BY <1>14 DEF ReadForLink
<1>15. CASE StoreFileInMedia
  BY <1>15 DEF StoreFileInMedia, requestVars
<1>16. CASE MediaFails
  BY <1>16 DEF MediaFails, requestVars
<1>17. CASE SendEmailToDownloadFileByLink
  BY <1>17 DEF SendEmailToDownloadFileByLink, requestVars
<1>18. CASE Crash
  BY <1>18 DEF Crash, requestVars
<1>19. CASE Change
  BY <1>19 DEF Change, requestVars, exportVars
<1>20. CASE UNCHANGED vars
  BY <1>20 DEF vars, requestVars, exportVars
<1>21. QED
  BY <1>1, <1>2, <1>3, <1>4, <1>5, <1>6, <1>7, <1>8, <1>9, <1>10, <1>11, <1>12, <1>13,
     <1>14, <1>15, <1>16, <1>17, <1>18, <1>19, <1>20 DEF Next, Serve, Consume

\* The rows a consumer has read for a link are the asker's, until they are mailed.
OwnInv ==
    /\ OnlyOwnTransactions
    /\ consumer \in {"store", "mail"} => \A u \in found.rows : Owned(u)

LEMMA InitOwnInv == Init => OwnInv
  BY DEF Init, OwnInv, OnlyOwnTransactions, None

LEMMA NextOwnInv == KnownRequest /\ RequestInv /\ OwnInv /\ [Next]_vars => OwnInv'
<1> SUFFICES ASSUME KnownRequest, RequestInv, OwnInv, [Next]_vars
             PROVE  OwnInv'
  OBVIOUS
<1>1. request' = request
  BY DEF Next, Serve, Consume, Change, QueryPart, AnswerList, CountForExport, ReturnDocument,
         ConsumeExport, ReadForLink, StoreFileInMedia, MediaFails,
         SendEmailToDownloadFileByLink, Crash, TodayByCurrency, BeforeTodayByCurrency,
         TodayByOption, BeforeTodayByOption, ProduceDailyReport, ExportMonthly,
         ExportTransactionWidget, NextDay, vars
<1>2. \A u : Owned(u)' <=> Owned(u)
  BY <1>1 DEF Owned
<1>3. IsRequest(request)
  BY RequestsAreRequests
<1>4. ASSUME NEW part \in ListParts, QueryPart(part)
      PROVE  OwnInv'
  <2>1. /\ step = "list" /\ request.kind = "list" /\ answer' = answer
        /\ media' = media /\ mails' = mails /\ consumer' = consumer
        /\ found' = [p \in DOMAIN found \cup {part} |-> IF p = part THEN Hits ELSE found[p]]
    BY <1>4 DEF QueryPart, RequestInv, exportVars
  <2>2. consumer = None /\ answer # "file" /\ media = {} /\ mails = {}
    BY <2>1 DEF RequestInv
  <2>3. request.asker \in {"business", "user", "admin"} /\ stored \subseteq DOMAIN DocOf
    BY <1>3, <2>1 DEF IsRequest, KnownRequest
  <2>4. \A u \in Hits : Owned(u)
    BY <2>1, <2>3, HitsAreOwned
  <2>5. \A p \in DOMAIN found : \A u \in found[p] : Owned(u)
    BY <2>1 DEF OwnInv, OnlyOwnTransactions
  <2> HIDE DEF Owned, Hits
  <2>6. \A p \in DOMAIN found' : \A u \in found'[p] : Owned(u)
    BY <2>1, <2>4, <2>5
  <2>7. QED
    BY <1>1, <1>2, <2>1, <2>2, <2>6 DEF OwnInv, OnlyOwnTransactions, None
<1>5. CASE ReturnDocument
  <2>1. /\ step = "read" /\ request.kind = "export" /\ answer # "accepted"
        /\ found' = [rows |-> ExportHits] /\ consumer' = consumer
        /\ media' = media /\ mails' = mails
    BY <1>5 DEF ReturnDocument, RequestInv, exportVars
  <2>2. consumer = None
    BY <2>1 DEF RequestInv
  <2>3. request.asker \in {"business", "user", "admin"}
    BY <1>3, <2>1 DEF IsRequest
  <2>4. \A u \in found'.rows : Owned(u)
    BY <2>1, <2>3, RowsAreOwned DEF KnownRequest
  <2>5. QED
    BY <1>1, <1>2, <2>1, <2>2, <2>4 DEF OwnInv, OnlyOwnTransactions, None
<1>6. CASE ReadForLink
  <2>1. /\ consumer = "read" /\ found' = [rows |-> ExportHits] /\ answer' = answer
        /\ media' = media /\ mails' = mails
    BY <1>6 DEF ReadForLink
  <2>2. answer = "accepted" /\ request.kind = "export"
    BY <2>1 DEF RequestInv, None
  <2>3. request.asker \in {"business", "user", "admin"}
    BY <1>3, <2>2 DEF IsRequest
  <2>4. \A u \in found'.rows : Owned(u)
    BY <2>1, <2>2, <2>3, RowsAreOwned DEF KnownRequest
  <2>5. QED
    BY <1>1, <1>2, <2>1, <2>2, <2>4 DEF OwnInv, OnlyOwnTransactions
<1>7. CASE StoreFileInMedia \/ SendEmailToDownloadFileByLink
  <2>1. /\ consumer \in {"store", "mail"} /\ found' = found /\ answer' = answer
        /\ media' \cup mails' = media \cup mails \cup {found.rows}
    BY <1>7 DEF StoreFileInMedia, SendEmailToDownloadFileByLink, requestVars
  <2>2. QED
    BY <1>1, <1>2, <2>1 DEF OwnInv, OnlyOwnTransactions
<1>8. CASE \/ AnswerList \/ CountForExport \/ ConsumeExport \/ MediaFails \/ Crash \/ Change
           \/ ProduceDailyReport \/ ExportMonthly \/ ExportTransactionWidget \/ NextDay
  <2>1. /\ found' = found /\ media' = media /\ mails' = mails
        /\ answer' \in {answer, "list", "refused", "accepted", "report"}
        /\ consumer' \in {consumer, None, "read"}
    BY <1>8 DEF AnswerList, CountForExport, ConsumeExport, MediaFails, Crash, Change,
                ProduceDailyReport, ExportMonthly, ExportTransactionWidget, NextDay,
                requestVars, exportVars
  <2>2. QED
    BY <1>1, <1>2, <2>1 DEF OwnInv, OnlyOwnTransactions, None
<1>9. CASE TodayByCurrency \/ BeforeTodayByCurrency \/ TodayByOption \/ BeforeTodayByOption
  <2>1. /\ step \in DailySteps /\ answer' = answer /\ consumer' = consumer
        /\ media' = media /\ mails' = mails
    BY <1>9 DEF TodayByCurrency, BeforeTodayByCurrency, TodayByOption, BeforeTodayByOption,
                exportVars, DailySteps
  <2>2. request.kind = "daily"
    BY <2>1 DEF RequestInv
  <2>3. consumer = None /\ answer # "file" /\ media = {} /\ mails = {}
    BY <2>2 DEF RequestInv
  <2>4. QED
    BY <1>1, <2>1, <2>2, <2>3 DEF OwnInv, OnlyOwnTransactions, None
<1>10. CASE UNCHANGED vars
  BY <1>2, <1>10 DEF vars, requestVars, exportVars, OwnInv, OnlyOwnTransactions
<1>11. QED
  BY <1>4, <1>5, <1>6, <1>7, <1>8, <1>9, <1>10 DEF Next, Serve, Consume

\* Whatever filters and search text a client sends, lists, files and links show the
\* asker's own transactions only.
THEOREM OnlyOwnTransactionsAreRead == Spec => []OnlyOwnTransactions
<1>1. Spec => [](KnownRequest /\ RequestInv /\ OwnInv)
  BY RequestsAreKnown, RequestsStayKnown, InitRequestInv, NextRequestInv, InitOwnInv,
     NextOwnInv, PTL DEF Spec
<1>2. OwnInv => OnlyOwnTransactions
  BY DEF OwnInv
<1>3. QED
  BY <1>1, <1>2, PTL

-----------------------------------------------------------------------------
(* The two engines.                                                        *)

LEMMA SingletonBounds ==
  ASSUME NEW n \in Int
  PROVE  Min({n}) = n /\ Max({n}) = n
  BY DEF Min, Max

\* A plain filter with the one value v, on a field that the index keeps as it is.
LEMMA WordFiltersAgree ==
  ASSUME NEW x, NEW v,
         NEW condition \in StringConditions
  PROVE  MongoHolds(condition, x, {v}) <=> ElasticHolds(condition, x, {v})
<1>1. CASE condition = "is"
  BY <1>1 DEF MongoHolds, ElasticHolds, MongoIs, ElasticIs
<1>2. CASE condition = "isNot"
  BY <1>2 DEF MongoHolds, ElasticHolds, MongoIsNot, ElasticIsNot
<1>3. CASE condition = "contains"
  BY <1>3 DEF MongoHolds, ElasticHolds, MongoContains, ElasticContains
<1>4. CASE condition = "doesNotContain"
  BY <1>4 DEF MongoHolds, ElasticHolds, MongoDoesNotContain, ElasticDoesNotContain
<1>5. CASE condition = "startsWith"
  BY <1>5 DEF MongoHolds, ElasticHolds, MongoStartsWith, ElasticStartsWith
<1>6. CASE condition = "endsWith"
  BY <1>6 DEF MongoHolds, ElasticHolds, MongoEndsWith, ElasticEndsWith
<1>7. QED
  BY <1>1, <1>2, <1>3, <1>4, <1>5, <1>6 DEF StringConditions

\* Moments of a day are whole hours after its start.
LEMMA DaysAreInts ==
  ASSUME NEW t \in Nat
  PROVE  DateStart(t) \in Int /\ TomorrowDateStart(t) \in Int
<1>1. t % DayLength \in Int
  BY FiltersAssumption
<1>2. QED
  BY <1>1, FiltersAssumption DEF DateStart, TomorrowDateStart

LEMMA DateFiltersAgree ==
  ASSUME NEW x \in Nat, NEW v, NEW condition \in {"betweenDates"} \cup DateConditions,
         condition # "betweenDates" => v \in Nat,
         condition = "betweenDates" =>
             v.from \in Nat /\ v.to \in Nat /\ x # TomorrowDateStart(v.to)
  PROVE  MongoHolds(condition, x, {v}) <=> ElasticHolds(condition, x, {v})
<1>1. CASE condition = "isDate"
  BY <1>1 DEF MongoHolds, ElasticHolds, MongoIsDate, ElasticIsDate
<1>2. CASE condition = "isNotDate"
  BY <1>2 DEF MongoHolds, ElasticHolds, MongoIsNotDate, ElasticIsNotDate
<1>3. CASE condition = "afterDate"
  BY <1>3 DEF MongoHolds, ElasticHolds, MongoAfterDate, ElasticAfterDate
<1>4. CASE condition = "beforeDate"
  BY <1>4 DEF MongoHolds, ElasticHolds, MongoBeforeDate, ElasticBeforeDate
<1>5. CASE condition = "betweenDates"
  <2> DEFINE end == TomorrowDateStart(v.to)
             begin == DateStart(v.from)
  <2>1. begin \in Int /\ end \in Int /\ x # end
    BY <1>5, DaysAreInts
  <2>2. {TomorrowDateStart(w) : w \in Tos({v})} = {end}
        /\ {DateStart(w) : w \in Froms({v})} = {begin}
    BY DEF Tos, Froms
  <2>3. Min({end}) = end /\ Max({begin}) = begin
    BY <2>1, SingletonBounds
  <2> HIDE DEF begin, end
  <2>4. MongoBetweenDates(x, {v}) <=> x >= begin /\ x <= end
    BY <2>2, <2>3 DEF MongoBetweenDates
  <2>5. ElasticBetweenDates(x, {v}) <=> x >= begin /\ x < end
    BY <2>2, <2>3 DEF ElasticBetweenDates
  <2>6. QED
    BY <1>5, <2>1, <2>4, <2>5 DEF MongoHolds, ElasticHolds
<1>6. QED
  BY <1>1, <1>2, <1>3, <1>4, <1>5 DEF DateConditions

\* Amounts are compared in half cents: the stored one, x, is exact, and the filter's,
\* v, is off by one half at most, upwards for imprecise conditions only and downwards
\* only if it is not x.
LEMMA AmountFiltersAgree ==
  ASSUME NEW x \in Nat, NEW v \in Nat, NEW w \in {2 * v - 1, 2 * v, 2 * v + 1},
         NEW condition \in {"is", "isNot"} \cup NumberConditions,
         w = 2 * v + 1 => condition \notin Precise,
         w = 2 * v - 1 => x # v
  PROVE  MongoHolds(condition, x, {v}) <=> ElasticHolds(condition, 2 * x, {w})
<1>0. v \in Int /\ w \in Int
  OBVIOUS
<1>1. Min({v}) = v /\ Max({v}) = v /\ w \in Int
  BY <1>0, SingletonBounds
<1>2. CASE condition = "is"
  BY <1>1, <1>2 DEF MongoHolds, ElasticHolds, MongoIs, ElasticIs, Precise
<1>3. CASE condition = "isNot"
  BY <1>1, <1>3 DEF MongoHolds, ElasticHolds, MongoIsNot, ElasticIsNot, Precise
<1>4. CASE condition = "lessThan"
  BY <1>1, <1>4 DEF MongoHolds, ElasticHolds, MongoLessThan, ElasticLessThan, Precise
<1>5. CASE condition = "lessThanOrEqual"
  BY <1>1, <1>5 DEF MongoHolds, ElasticHolds, MongoLessThanOrEqual, ElasticLessThanOrEqual
<1>6. CASE condition = "greaterThan"
  BY <1>1, <1>6 DEF MongoHolds, ElasticHolds, MongoGreaterThan, ElasticGreaterThan
<1>7. CASE condition = "greaterThanOrEqual"
  BY <1>1, <1>7 DEF MongoHolds, ElasticHolds, MongoGreaterThanOrEqual,
                    ElasticGreaterThanOrEqual, Precise
<1>8. QED
  BY <1>2, <1>3, <1>4, <1>5, <1>6, <1>7 DEF NumberConditions

LEMMA AmountRangesAgree ==
  ASSUME NEW x \in Nat, NEW from \in Nat, NEW to \in Nat,
         from % Hundred = 0, to % Hundred = 0
  PROVE  MongoHolds("between", x, {[from |-> from, to |-> to]})
         <=> ElasticHolds("between", 2 * x, {[from |-> 2 * from, to |-> 2 * to]})
<1> DEFINE whole(w) == w - (w % Hundred)
           wholeHalves(w) == w - (w % 2)
<1>1. whole(from) = from /\ whole(to) = to
  OBVIOUS
<1>2. wholeHalves(2 * from) = 2 * from /\ wholeHalves(2 * to) = 2 * to
  OBVIOUS
<1>3. /\ {whole(w) : w \in Froms({[from |-> from, to |-> to]})} = {from}
      /\ {whole(w) : w \in Tos({[from |-> from, to |-> to]})} = {to}
  BY <1>1 DEF Froms, Tos
<1>4. /\ {wholeHalves(w) : w \in Froms({[from |-> 2 * from, to |-> 2 * to]})} = {2 * from}
      /\ {wholeHalves(w) : w \in Tos({[from |-> 2 * from, to |-> 2 * to]})} = {2 * to}
  BY <1>2 DEF Froms, Tos
<1>5. /\ Min({to}) = to /\ Max({from}) = from
      /\ Min({2 * to}) = 2 * to /\ Max({2 * from}) = 2 * from
  BY SingletonBounds
<1>6. MongoBetween(x, {[from |-> from, to |-> to]}) <=> x >= from /\ x <= to
  BY <1>3, <1>5 DEF MongoBetween
<1>7. ElasticBetween(2 * x, {[from |-> 2 * from, to |-> 2 * to]})
      <=> 2 * x >= 2 * from /\ 2 * x <= 2 * to
  BY <1>4, <1>5 DEF ElasticBetween
<1>8. QED
  BY <1>6, <1>7 DEF MongoHolds, ElasticHolds

\* An amount that does not fall below the whole cent is packed as it is.
LEMMA PackedAmounts ==
  ASSUME NEW x \in Nat, x \notin TooSmall
  PROVE  Pack(x) = x
<1>1. Times100(x) \in {2 * x, 2 * x + 1}
  BY DEF Times100
<1>2. (2 * x) \div 2 = x /\ (2 * x + 1) \div 2 = x
  OBVIOUS
<1>3. QED
  BY <1>1, <1>2 DEF Pack

LEMMA ExactAmounts ==
  ASSUME NEW x \in Nat, x % Hundred = 0
  PROVE  Times100(x) = 2 * x
  BY FiltersAssumption DEF Times100

\* What IsRequest says of one filter.
IsTyped(field, f) ==
    /\ DOMAIN f.value = 1..Len(f.value)
    /\ \A j \in DOMAIN f.value : IsValue(field, f.condition, f.value[j])

LEMMA PlainFiltersAgree ==
  ASSUME NEW field, NEW f, IsPlain(field, f), IsTyped(field, f),
         NEW u \in stored, stored \subseteq DOMAIN DocOf, DocOf[u].total \notin TooSmall
  PROVE  MongoHolds(f.condition, DocOf[u][field], Range(f.value))
         <=> ElasticHolds(f.condition, Indexed(DocOf[u], field),
                          {Process(field, f.condition, v) : v \in Range(f.value)})
<1> DEFINE v == f.value[1]
           x == DocOf[u][field]
<1>1. Range(f.value) = {v} /\ IsValue(field, f.condition, v)
  BY DEF IsPlain, IsTyped, Range
<1>2. {Process(field, f.condition, w) : w \in Range(f.value)} = {Process(field, f.condition, v)}
  BY <1>1
<1>3. f.condition \in ConditionsOf(field)
  BY DEF IsPlain
<1>4. DocOf[u].total \in Nat /\ DocOf[u].created_at \in Nat
  BY ReadoutsAssumption
<1>5. CASE field \in Longs
  <2>1. field = "total" /\ field \notin Words /\ x = DocOf[u].total
    BY <1>5 DEF Longs, Words
  <2>2. Indexed(DocOf[u], field) = 2 * x
    <3>1. x \in Nat /\ x \notin TooSmall
      BY <1>4, <2>1
    <3> HIDE DEF x
    <3>2. 2 * Pack(x) = 2 * x
      BY <3>1, PackedAmounts
    <3>3. Indexed(DocOf[u], field) = 2 * Pack(x)
      BY <1>5 DEF Indexed, x
    <3>4. QED
      BY <3>2, <3>3
  <2>3. f.condition \in {"is", "isNot", "between"} \cup NumberConditions
    <3>1. field \notin Dates
      BY <2>1 DEF Dates
    <3>2. ConditionsOf(field) = {"is", "isNot", "between"} \cup NumberConditions
      BY <1>5, <2>1, <3>1 DEF ConditionsOf
    <3>3. QED
      BY <1>3, <3>2
  <2>4. CASE f.condition = "between"
    <3>1. v.from \in Nat /\ v.to \in Nat /\ v.from % Hundred = 0 /\ v.to % Hundred = 0
      BY <1>1, <1>5, <2>4 DEF IsValue, IsPlain
    <3>3. Process(field, f.condition, v) = [from |-> 2 * v.from, to |-> 2 * v.to]
      <4>1. Times100(v.from) = 2 * v.from
        BY <3>1, ExactAmounts
      <4>2. Times100(v.to) = 2 * v.to
        BY <3>1, ExactAmounts
      <4>3. QED
        BY <1>5, <2>4, <4>1, <4>2 DEF Process
    <3>4. MongoHolds("between", x, {v}) <=> MongoHolds("between", x, {[from |-> v.from, to |-> v.to]})
      <4>1. /\ Froms({v}) = Froms({[from |-> v.from, to |-> v.to]})
            /\ Tos({v}) = Tos({[from |-> v.from, to |-> v.to]})
        BY DEF Froms, Tos
      <4> HIDE DEF x, v
      <4>2. MongoBetween(x, {v}) <=> MongoBetween(x, {[from |-> v.from, to |-> v.to]})
        BY <4>1 DEF MongoBetween
      <4>3. QED
        BY <4>2 DEF MongoHolds
    <3>5. QED
      BY <1>1, <1>2, <1>4, <2>1, <2>2, <2>4, <3>1, <3>3, <3>4, AmountRangesAgree
  <2>5. CASE f.condition # "between"
    <3> DEFINE w == Times100(v)
    <3>1. v \in Nat /\ (f.condition \in Precise => v \notin TooLarge)
      BY <1>1, <1>5, <2>5 DEF IsValue, IsPlain
    <3>2. Process(field, f.condition, v) = w
      BY <1>5, <2>5 DEF Process
    <3>3. f.condition \in {"is", "isNot"} \cup NumberConditions
      BY <2>3, <2>5
    <3>4. x \in Nat /\ x \notin TooSmall
      BY <1>4, <2>1
    <3> HIDE DEF v, x
    <3>5. /\ w \in {2 * v - 1, 2 * v, 2 * v + 1}
          /\ w = 2 * v + 1 => v \in TooLarge
          /\ w = 2 * v - 1 => v \in TooSmall
      BY <3>1 DEF Times100
    <3> HIDE DEF w
    <3>6. MongoHolds(f.condition, x, {v}) <=> ElasticHolds(f.condition, 2 * x, {w})
      BY <3>1, <3>3, <3>4, <3>5, AmountFiltersAgree
    <3>7. QED
      BY <1>1, <1>2, <2>2, <3>2, <3>6 DEF x
  <2>6. QED
    BY <2>4, <2>5
<1>6. CASE field \notin Longs
  <2>1. Indexed(DocOf[u], field) = x /\ Process(field, f.condition, v) = v
    BY <1>6 DEF Indexed, Process
  <2>2. CASE field \in Dates
    <3>1. field = "created_at" /\ field \notin Words
      BY <2>2 DEF Dates, Words
    <3>2. f.condition \in {"betweenDates"} \cup DateConditions
      BY <1>3, <1>6, <2>2, <3>1 DEF ConditionsOf
    <3>3. f.condition # "betweenDates" => v \in Nat
      BY <1>1, <2>2 DEF IsValue
    <3>4. f.condition = "betweenDates" =>
              v.from \in Nat /\ v.to \in Nat /\ x # TomorrowDateStart(v.to)
      BY <1>1, <2>2, <3>1 DEF IsValue, IsPlain
    <3>5. MongoHolds(f.condition, x, {v}) <=> ElasticHolds(f.condition, x, {v})
      BY <1>4, <3>1, <3>2, <3>3, <3>4, DateFiltersAgree
    <3>6. QED
      BY <1>1, <1>2, <2>1, <3>5
  <2>3. CASE field \notin Dates
    <3>1. f.condition \in StringConditions
      BY <1>3, <1>6, <2>3 DEF ConditionsOf, StringConditions
    <3>2. MongoHolds(f.condition, x, {v}) <=> ElasticHolds(f.condition, x, {v})
      BY <3>1, WordFiltersAgree
    <3>3. QED
      BY <1>1, <1>2, <2>1, <3>2
  <2>4. QED
    BY <2>2, <2>3
<1>7. QED
  BY <1>5, <1>6

\* The filters of a list are the client's, or one of the controllers' own.
LEMMA ListFiltersAreTyped ==
  ASSUME KnownRequest, request.kind = "list",
         NEW field \in DOMAIN ListFilters, NEW f \in Applied(ListFilters[field])
  PROVE  IsTyped(field, f)
<1> DEFINE own == {"business_uuid", "user_uuid", "example"}
<1>1. IsRequest(request)
  BY RequestsAreRequests
<1>2. request.asker \in {"business", "user", "admin"}
  BY <1>1 DEF IsRequest
<1>3. \/ field \in DOMAIN request.filters /\ ListFilters[field] = request.filters[field]
      \/ /\ field \in own
         /\ \E condition, v : ListFilters[field] = The(condition, v)
  <2>1. CASE request.asker = "business"
    BY <2>1 DEF ListFilters, ApplyBusinessFilter, WithField
  <2>2. CASE request.asker = "user"
    BY <2>2 DEF ListFilters, ApplyUserUuidFilter, WithField
  <2>3. CASE request.asker = "admin"
    <3>1. ListFilters = WithField(request.filters, "example", The("isNot", TRUE))
      BY <2>3 DEF ListFilters, ApplyNotExample
    <3>2. CASE field = "example"
      <4>1. ListFilters[field] = The("isNot", TRUE)
        BY <3>1, <3>2 DEF WithField
      <4>2. QED
        BY <3>2, <4>1, Zenon
    <3>3. CASE field # "example"
      BY <3>1, <3>3 DEF WithField
    <3>4. QED
      BY <3>2, <3>3
  <2>4. QED
    BY <1>2, <2>1, <2>2, <2>3
<1>4. CASE field \in DOMAIN request.filters /\ ListFilters[field] = request.filters[field]
  <2>1. PICK i \in DOMAIN request.filters[field] : f = request.filters[field][i]
    BY <1>4 DEF Applied
  <2>2. QED
    BY <1>1, <1>4, <2>1 DEF IsRequest, IsTyped
<1>5. ASSUME field \in own, NEW condition, NEW v, ListFilters[field] = The(condition, v)
      PROVE  IsTyped(field, f)
  <2>1. f = [condition |-> condition, value |-> <<v>>]
    BY <1>5 DEF Applied, The
  <2>2. field \notin Longs /\ field \notin Dates
    BY <1>5 DEF Longs, Dates
  <2>3. IsValue(field, f.condition, v)
    BY <2>2 DEF IsValue
  <2>4. DOMAIN f.value = 1..Len(f.value) /\ \A j \in DOMAIN f.value : f.value[j] = v
    BY <2>1
  <2>5. QED
    BY <2>3, <2>4 DEF IsTyped
<1>6. QED
  BY <1>3, <1>4, <1>5

\* Both engines find the same transactions by any plain filters, whatever the day's
\* length, the amounts that come out too small or too large and the transactions are.
THEOREM EnginesAlwaysAgree == Spec => []EnginesAgree
<1>1. ASSUME KnownRequest
      PROVE  EnginesAgree
  <2> SUFFICES ASSUME request.kind = "list",
                      \A field \in DOMAIN ListFilters :
                          \A f \in Applied(ListFilters[field]) : IsPlain(field, f),
                      \A u \in stored : DocOf[u].total \notin TooSmall
               PROVE  MongoHits(ListFilters, <<>>) = ElasticHits(ListFilters, <<>>)
    BY DEF EnginesAgree
  <2>1. ASSUME NEW u \in stored
        PROVE  MongoMatches(ListFilters, DocOf[u]) <=> ElasticMatches(ListFilters, DocOf[u])
    <3>1. ASSUME NEW field \in DOMAIN ListFilters, NEW f \in Applied(ListFilters[field])
          PROVE  MongoHolds(f.condition, DocOf[u][field], Range(f.value))
                 <=> ElasticHolds(f.condition, Indexed(DocOf[u], field),
                                  {Process(field, f.condition, v) : v \in Range(f.value)})
      <4>1. IsTyped(field, f)
        BY <1>1, ListFiltersAreTyped
      <4>2. stored \subseteq DOMAIN DocOf /\ DocOf[u].total \notin TooSmall
        BY <1>1 DEF KnownRequest
      <4>3. QED
        BY <4>1, <4>2, PlainFiltersAgree
    <3>2. QED
      BY <3>1 DEF MongoMatches, ElasticMatches
  <2>2. \A u \in stored : MongoSearched(<<>>, DocOf[u]) /\ ElasticSearched(<<>>, DocOf[u])
    BY DEF MongoSearched, ElasticSearched
  <2>3. QED
    BY <2>1, <2>2 DEF MongoHits, ElasticHits
<1>2. Spec => []KnownRequest
  BY RequestsAreKnown, RequestsStayKnown, PTL DEF Spec
<1>3. QED
  BY <1>1, <1>2, PTL

-----------------------------------------------------------------------------
(* The daily report.                                                       *)

\* What the first query leaves of the transactions that stay.
TodaySeen ==
    /\ \A c \in DOMAIN found :
        /\ found[c] = [today |-> found[c].today, overall |-> {}, options |-> <<>>]
        /\ \A u \in found[c].today : IsToday(u)
    /\ \A u \in steady : IsToday(u) =>
        CurrencyOf(u) \in DOMAIN found /\ u \in found[CurrencyOf(u)].today

\* The second one.
CurrenciesCounted ==
    /\ \A c \in DOMAIN found : found[c] =
        [today |-> found[c].today, overall |-> found[c].overall, options |-> found[c].options]
    /\ \A u \in steady :
        /\ CurrencyOf(u) \in DOMAIN found
        /\ u \in found[CurrencyOf(u)].today <=> IsToday(u)
        /\ u \in found[CurrencyOf(u)].overall <=> ~IsToday(u)

\* The third one.
OptionsSeen ==
    /\ \A c \in DOMAIN found : \A t \in DOMAIN found[c].options :
        LET option == found[c].options[t] IN
        /\ option = [today |-> option.today, overall |-> {}]
        /\ \A u \in option.today : IsToday(u)
    /\ \A u \in steady : IsToday(u) =>
        LET options == found[CurrencyOf(u)].options IN
        TypeOf(u) \in DOMAIN options /\ u \in options[TypeOf(u)].today

\* The last one.
OptionsCounted ==
    \A u \in steady :
        LET options == found[CurrencyOf(u)].options IN
        /\ TypeOf(u) \in DOMAIN options
        /\ u \in options[TypeOf(u)].today <=> u \notin options[TypeOf(u)].overall

DailyInv ==
    /\ step = "before" => TodaySeen
    /\ step \in {"options", "options before", "send"} \/ answer = "report" => CurrenciesCounted
    /\ step = "options before" => OptionsSeen
    /\ step = "send" \/ answer = "report" => OptionsCounted

LEMMA InitDailyInv == Init => DailyInv
<1> SUFFICES ASSUME Init
             PROVE  DailyInv
  OBVIOUS
<1>1. IsRequest(request)
  BY RequestsAreKnown, RequestsAreRequests
<1>2. step \in {"list", "export", "daily", "clock"} /\ answer = None
  BY <1>1 DEF Init, IsRequest
<1>3. QED
  BY <1>2 DEF DailyInv, None

\* A transaction is of today or from before, not both.
LEMMA BeforeIsNotToday ==
  ASSUME KnownRequest, request.kind = "daily", NEW u \in DOMAIN DocOf
  PROVE  IsBefore(u) <=> ~IsToday(u)
<1>1. IsRequest(request)
  BY RequestsAreRequests
<1>2. DocOf[u].created_at \in Nat /\ request.begin \in Nat
  BY <1>1, ReadoutsAssumption DEF IsRequest
<1>3. QED
  BY <1>2 DEF IsBefore, IsToday

LEMMA FirstQuery ==
  ASSUME KnownRequest, TodayByCurrency, request' = request
  PROVE  TodaySeen'
<1> DEFINE S == {u \in stored : IsToday(u)}
<1>1. found' = [c \in {CurrencyOf(u) : u \in S} |->
                  [today |-> {u \in S : CurrencyOf(u) = c}, overall |-> {}, options |-> <<>>]]
  BY DEF TodayByCurrency, GroupBy
<1>2. steady' \subseteq stored
  BY DEF TodayByCurrency, KnownRequest, storeVars
<1>3. \A u : IsToday(u)' <=> IsToday(u)
  BY DEF IsToday
<1>4. ASSUME NEW c \in DOMAIN found'
      PROVE  /\ found'[c] = [today |-> found'[c].today, overall |-> {}, options |-> <<>>]
             /\ \A u \in found'[c].today : IsToday(u)'
  BY <1>1, <1>3
<1>5. ASSUME NEW u \in steady', IsToday(u)'
      PROVE  CurrencyOf(u) \in DOMAIN found' /\ u \in found'[CurrencyOf(u)].today
  <2>1. u \in S
    BY <1>2, <1>3, <1>5
  <2> HIDE DEF S
  <2>2. QED
    BY <1>1, <2>1
<1>6. QED
  BY <1>4, <1>5 DEF TodaySeen, CurrencyOf

LEMMA SecondQuery ==
  ASSUME KnownRequest, BeforeTodayByCurrency, request' = request, request.kind = "daily",
         TodaySeen
  PROVE  CurrenciesCounted'
<1> DEFINE S == {u \in stored : IsBefore(u)}
           K == {CurrencyOf(u) : u \in S}
           G(c) == {u \in S : CurrencyOf(u) = c}
<1>1. found' = [c \in DOMAIN found \cup K |->
                  IF c \in DOMAIN found
                  THEN [found[c] EXCEPT !.overall = IF c \in K THEN G(c) ELSE {}]
                  ELSE [today |-> {}, overall |-> G(c), options |-> <<>>]]
  BY DEF BeforeTodayByCurrency, GroupBy, At
<1>2. steady' = steady /\ steady \subseteq stored /\ stored \subseteq DOMAIN DocOf
  BY DEF BeforeTodayByCurrency, KnownRequest, storeVars
<1>3. \A u : IsToday(u)' <=> IsToday(u)
  BY DEF IsToday
<1>4. \A c \in DOMAIN found :
        found[c] = [today |-> found[c].today, overall |-> {}, options |-> <<>>]
  BY DEF TodaySeen
<1>5. \A c \in DOMAIN found : c \in DOMAIN found' /\ found'[c] =
        [today |-> found[c].today, overall |-> IF c \in K THEN G(c) ELSE {}, options |-> <<>>]
  <2> HIDE DEF G, K
  <2> SUFFICES ASSUME NEW c \in DOMAIN found
               PROVE  c \in DOMAIN found' /\ found'[c] =
                        [today |-> found[c].today,
                         overall |-> IF c \in K THEN G(c) ELSE {}, options |-> <<>>]
    OBVIOUS
  <2> DEFINE counted == IF c \in K THEN G(c) ELSE {}
  <2>1. c \in DOMAIN found' /\ found'[c] = [found[c] EXCEPT !.overall = counted]
    BY <1>1
  <2> HIDE DEF counted
  <2>2. [found[c] EXCEPT !.overall = counted]
          = [today |-> found[c].today, overall |-> counted, options |-> <<>>]
    BY <1>4
  <2>3. QED
    BY <2>1, <2>2 DEF counted
<1>6. \A c \in K \ DOMAIN found : c \in DOMAIN found' /\ found'[c] =
        [today |-> {}, overall |-> G(c), options |-> <<>>]
  <2> HIDE DEF G, K
  <2>1. QED
    BY <1>1
<1>7. ASSUME NEW c \in DOMAIN found'
      PROVE  found'[c] = [today |-> found'[c].today, overall |-> found'[c].overall,
                          options |-> found'[c].options]
  <2>1. c \in DOMAIN found \/ c \in K \ DOMAIN found
    BY <1>1
  <2> HIDE DEF G, K
  <2>2. CASE c \in DOMAIN found
    <3> DEFINE counted == IF c \in K THEN G(c) ELSE {}
    <3> HIDE DEF counted
    <3>1. found'[c] = [today |-> found[c].today, overall |-> counted, options |-> <<>>]
      BY <1>5, <2>2 DEF counted
    <3>2. QED
      BY <3>1
  <2>3. CASE c \in K \ DOMAIN found
    <3>1. found'[c] = [today |-> {}, overall |-> G(c), options |-> <<>>]
      BY <1>6, <2>3
    <3>2. QED
      BY <3>1
  <2>4. QED
    BY <2>1, <2>2, <2>3
<1>8. ASSUME NEW u \in steady
      PROVE  /\ CurrencyOf(u) \in DOMAIN found'
             /\ u \in found'[CurrencyOf(u)].today <=> IsToday(u)
             /\ u \in found'[CurrencyOf(u)].overall <=> ~IsToday(u)
  <2> DEFINE c == CurrencyOf(u)
  <2>1. u \in S <=> ~IsToday(u)
    BY <1>2, BeforeIsNotToday
  <2> HIDE DEF S
  <2>2. /\ u \in S => c \in K
        /\ u \in G(c) <=> u \in S
    OBVIOUS
  <2>3. IsToday(u) => c \in DOMAIN found /\ u \in found[c].today
    BY DEF TodaySeen
  <2>4. c \in DOMAIN found /\ u \in found[c].today => IsToday(u)
    BY DEF TodaySeen
  <2>5. c \in DOMAIN found \/ c \in K \ DOMAIN found
    BY <2>1, <2>2, <2>3
  <2> HIDE DEF G, K, c
  <2>6. /\ c \in DOMAIN found'
        /\ u \in found'[c].today <=> IsToday(u)
        /\ u \in found'[c].overall <=> ~IsToday(u)
    <3>1. CASE c \in DOMAIN found
      <4> DEFINE counted == IF c \in K THEN G(c) ELSE {}
      <4>1. u \in counted <=> ~IsToday(u)
        BY <2>1, <2>2
      <4> HIDE DEF counted
      <4>2. c \in DOMAIN found' /\ found'[c] =
              [today |-> found[c].today, overall |-> counted, options |-> <<>>]
        BY <1>5, <3>1 DEF counted
      <4>3. QED
        BY <2>3, <2>4, <3>1, <4>1, <4>2
    <3>2. CASE c \in K \ DOMAIN found
      <4>1. c \in DOMAIN found' /\ found'[c] =
              [today |-> {}, overall |-> G(c), options |-> <<>>]
        BY <1>6, <3>2
      <4>2. QED
        BY <2>1, <2>2, <2>3, <3>2, <4>1
    <3>3. QED
      BY <2>5, <3>1, <3>2
  <2>7. QED
    BY <2>6 DEF c
<1>9. QED
  BY <1>2, <1>3, <1>7, <1>8 DEF CurrenciesCounted, CurrencyOf

LEMMA ThirdQuery ==
  ASSUME KnownRequest, TodayByOption, request' = request, CurrenciesCounted
  PROVE  CurrenciesCounted' /\ OptionsSeen'
<1> DEFINE S(c) == {u \in stored : IsToday(u) /\ CurrencyOf(u) = c}
           options(c) == [t \in {TypeOf(u) : u \in S(c)} |->
                            [today |-> {u \in S(c) : TypeOf(u) = t}, overall |-> {}]]
<1>1. found' = [c \in DOMAIN found |-> [found[c] EXCEPT !.options = options(c)]]
  BY DEF TodayByOption, GroupBy
<1>2. steady' = steady /\ steady \subseteq stored
  BY DEF TodayByOption, KnownRequest, storeVars
<1>3. \A u : IsToday(u)' <=> IsToday(u)
  BY DEF IsToday
<1>4. DOMAIN found' = DOMAIN found /\ \A c \in DOMAIN found : found'[c] =
        [today |-> found[c].today, overall |-> found[c].overall, options |-> options(c)]
  <2>1. \A c \in DOMAIN found : found[c] =
          [today |-> found[c].today, overall |-> found[c].overall, options |-> found[c].options]
    BY DEF CurrenciesCounted
  <2> HIDE DEF options
  <2>2. QED
    BY <1>1, <2>1
<1>5. CurrenciesCounted'
  <2> HIDE DEF options
  <2>1. \A c \in DOMAIN found' : found'[c] = [today |-> found'[c].today,
          overall |-> found'[c].overall, options |-> found'[c].options]
    BY <1>4
  <2>2. QED
    BY <1>2, <1>3, <1>4, <2>1 DEF CurrenciesCounted, CurrencyOf
<1>6. ASSUME NEW c \in DOMAIN found', NEW t \in DOMAIN found'[c].options
      PROVE  LET option == found'[c].options[t] IN
             /\ option = [today |-> option.today, overall |-> {}]
             /\ \A u \in option.today : IsToday(u)'
  <2>1. found'[c].options = options(c)
    <3> HIDE DEF options
    <3>1. QED
      BY <1>4, <1>6
  <2>2. options(c)[t] = [today |-> {u \in S(c) : TypeOf(u) = t}, overall |-> {}]
    BY <1>6, <2>1
  <2> HIDE DEF options
  <2>3. QED
    BY <1>3, <2>1, <2>2
<1>7. ASSUME NEW u \in steady', IsToday(u)'
      PROVE  LET chosen == found'[CurrencyOf(u)].options IN
             TypeOf(u) \in DOMAIN chosen /\ u \in chosen[TypeOf(u)].today
  <2> DEFINE c == CurrencyOf(u)
  <2>1. u \in S(c)
    BY <1>2, <1>3, <1>7
  <2>2. c \in DOMAIN found
    BY <1>2 DEF CurrenciesCounted
  <2>3. TypeOf(u) \in DOMAIN options(c) /\ u \in options(c)[TypeOf(u)].today
    <3> HIDE DEF S, c
    <3>1. QED
      BY <2>1
  <2>4. found'[c].options = options(c)
    <3> HIDE DEF options, c
    <3>1. QED
      BY <1>4, <2>2
  <2> HIDE DEF options
  <2>5. QED
    BY <2>3, <2>4
<1>8. OptionsSeen'
  BY <1>6, <1>7 DEF OptionsSeen, CurrencyOf, TypeOf
<1>9. QED
  BY <1>5, <1>8

LEMMA FourthQuery ==
  ASSUME KnownRequest, BeforeTodayByOption, request' = request, request.kind = "daily",
         CurrenciesCounted, OptionsSeen
  PROVE  CurrenciesCounted' /\ OptionsCounted'
<1> DEFINE S(c) == {u \in stored : IsBefore(u) /\ CurrencyOf(u) = c}
           K(c) == {TypeOf(u) : u \in S(c)}
           G(c, t) == {u \in S(c) : TypeOf(u) = t}
           options(c) == [t \in DOMAIN found[c].options \cup K(c) |->
               IF t \in DOMAIN found[c].options
               THEN [found[c].options[t] EXCEPT !.overall = IF t \in K(c) THEN G(c, t) ELSE {}]
               ELSE [today |-> {}, overall |-> G(c, t)]]
<1>1. found' = [c \in DOMAIN found |-> [found[c] EXCEPT !.options = options(c)]]
  BY DEF BeforeTodayByOption, GroupBy, At
<1>2. steady' = steady /\ steady \subseteq stored /\ stored \subseteq DOMAIN DocOf
  BY DEF BeforeTodayByOption, KnownRequest, storeVars
<1>3. \A u : IsToday(u)' <=> IsToday(u)
  BY DEF IsToday
<1>4. DOMAIN found' = DOMAIN found /\ \A c \in DOMAIN found : found'[c] =
        [today |-> found[c].today, overall |-> found[c].overall, options |-> options(c)]
  <2>1. \A c \in DOMAIN found : found[c] =
          [today |-> found[c].today, overall |-> found[c].overall, options |-> found[c].options]
    BY DEF CurrenciesCounted
  <2> HIDE DEF options
  <2>2. QED
    BY <1>1, <2>1
<1>5. CurrenciesCounted'
  <2> HIDE DEF options
  <2>1. \A c \in DOMAIN found' : found'[c] = [today |-> found'[c].today,
          overall |-> found'[c].overall, options |-> found'[c].options]
    BY <1>4
  <2>2. QED
    BY <1>2, <1>3, <1>4, <2>1 DEF CurrenciesCounted, CurrencyOf
<1>6. ASSUME NEW u \in steady
      PROVE  LET chosen == found'[CurrencyOf(u)].options IN
             /\ TypeOf(u) \in DOMAIN chosen
             /\ u \in chosen[TypeOf(u)].today <=> u \notin chosen[TypeOf(u)].overall
  <2> DEFINE c == CurrencyOf(u)
             t == TypeOf(u)
             old == found[c].options
  <2>1. c \in DOMAIN found
    BY DEF CurrenciesCounted
  <2>2. found'[c].options = options(c)
    <3> HIDE DEF options, c
    <3>1. QED
      BY <1>4, <2>1
  <2>3. u \in S(c) <=> ~IsToday(u)
    BY <1>2, BeforeIsNotToday
  <2>4. /\ u \in S(c) => t \in K(c)
        /\ u \in G(c, t) <=> u \in S(c)
    <3> HIDE DEF S, c
    <3>1. QED
      OBVIOUS
  <2>5. IsToday(u) => t \in DOMAIN old /\ u \in old[t].today
    BY DEF OptionsSeen
  <2>6. t \in DOMAIN old => /\ old[t] = [today |-> old[t].today, overall |-> {}]
                            /\ u \in old[t].today => IsToday(u)
    BY <2>1 DEF OptionsSeen
  <2> HIDE DEF S, K, G
  <2>7. /\ t \in DOMAIN old \cup K(c) => t \in DOMAIN options(c)
        /\ t \in DOMAIN old => options(c)[t] =
             [old[t] EXCEPT !.overall = IF t \in K(c) THEN G(c, t) ELSE {}]
        /\ t \in K(c) \ DOMAIN old => options(c)[t] = [today |-> {}, overall |-> G(c, t)]
    OBVIOUS
  <2> HIDE DEF options, old
  <2>8. CASE t \in DOMAIN old
    <3>1. options(c)[t] = [today |-> old[t].today,
                           overall |-> IF t \in K(c) THEN G(c, t) ELSE {}]
      BY <2>6, <2>7, <2>8
    <3> HIDE DEF t, c
    <3>2. u \in options(c)[t].today <=> u \notin options(c)[t].overall
      BY <2>3, <2>4, <2>5, <2>6, <2>8, <3>1
    <3>3. QED
      BY <2>2, <2>7, <2>8, <3>2 DEF t, c
  <2>9. CASE t \notin DOMAIN old
    <3>1. t \in K(c) \ DOMAIN old /\ u \in G(c, t)
      BY <2>3, <2>4, <2>5, <2>9
    <3> HIDE DEF t, c
    <3>2. QED
      BY <2>2, <2>7, <3>1 DEF t, c
  <2>10. QED
    BY <2>8, <2>9
<1>7. OptionsCounted'
  BY <1>2, <1>6 DEF OptionsCounted, CurrencyOf, TypeOf
<1>8. QED
  BY <1>5, <1>7

LEMMA NextDailyInv == KnownRequest /\ RequestInv /\ DailyInv /\ [Next]_vars => DailyInv'
<1> SUFFICES ASSUME KnownRequest, RequestInv, DailyInv, [Next]_vars
             PROVE  DailyInv'
  OBVIOUS
<1>1. request' = request
  BY DEF Next, Serve, Consume, Change, QueryPart, AnswerList, CountForExport, ReturnDocument,
         ConsumeExport, ReadForLink, StoreFileInMedia, MediaFails,
         SendEmailToDownloadFileByLink, Crash, TodayByCurrency, BeforeTodayByCurrency,
         TodayByOption, BeforeTodayByOption, ProduceDailyReport, ExportMonthly,
         ExportTransactionWidget, NextDay, vars
<1>2. CASE TodayByCurrency
  <2>1. step' = "before" /\ answer' = answer /\ answer # "report"
    BY <1>2 DEF TodayByCurrency, RequestInv
  <2>2. QED
    BY <1>1, <1>2, <2>1, FirstQuery DEF DailyInv
<1>3. CASE BeforeTodayByCurrency
  <2>1. step = "before" /\ step' = "options" /\ answer' = answer /\ answer # "report"
    BY <1>3 DEF BeforeTodayByCurrency, RequestInv
  <2>2. request.kind = "daily"
    BY <2>1 DEF RequestInv, DailySteps
  <2>3. QED
    BY <1>1, <1>3, <2>1, <2>2, SecondQuery DEF DailyInv
<1>4. CASE TodayByOption
  <2>1. step = "options" /\ step' = "options before" /\ answer' = answer /\ answer # "report"
    BY <1>4 DEF TodayByOption, RequestInv
  <2>2. QED
    BY <1>1, <1>4, <2>1, ThirdQuery DEF DailyInv
<1>5. CASE BeforeTodayByOption
  <2>1. step = "options before" /\ step' = "send" /\ answer' = answer /\ answer # "report"
    BY <1>5 DEF BeforeTodayByOption, RequestInv
  <2>2. request.kind = "daily"
    BY <2>1 DEF RequestInv, DailySteps
  <2>3. QED
    BY <1>1, <1>5, <2>1, <2>2, FourthQuery DEF DailyInv
<1>6. CASE ProduceDailyReport
  <2>1. step = "send" /\ step' = "done" /\ found' = found /\ steady' = steady
    BY <1>6 DEF ProduceDailyReport, storeVars
  <2>2. CurrenciesCounted' /\ OptionsCounted'
    BY <1>1, <2>1 DEF DailyInv, CurrenciesCounted, OptionsCounted, IsToday, CurrencyOf, TypeOf
  <2>3. QED
    BY <2>1, <2>2 DEF DailyInv
<1>7. CASE Change \/ UNCHANGED vars
  <2>1. /\ found' = found /\ step' = step /\ answer' = answer
        /\ steady' \subseteq steady
    BY <1>7 DEF Change, vars, requestVars, storeVars
  <2>2. /\ TodaySeen => TodaySeen'
        /\ CurrenciesCounted => CurrenciesCounted'
        /\ OptionsSeen => OptionsSeen'
        /\ OptionsCounted => OptionsCounted'
    BY <1>1, <2>1 DEF TodaySeen, CurrenciesCounted, OptionsSeen, OptionsCounted, IsToday,
                      CurrencyOf, TypeOf
  <2>3. QED
    BY <2>1, <2>2 DEF DailyInv
<1>8. CASE \/ ReadForLink \/ ConsumeExport \/ StoreFileInMedia \/ MediaFails \/ Crash
           \/ SendEmailToDownloadFileByLink
  <2>1. step' = step /\ answer' = answer /\ (consumer # None \/ queue # <<>>)
    BY <1>8 DEF ReadForLink, ConsumeExport, StoreFileInMedia, MediaFails, Crash,
                SendEmailToDownloadFileByLink, requestVars, None
  <2>2. answer = "accepted" /\ step = "done"
    BY <2>1 DEF RequestInv
  <2>3. QED
    BY <2>1, <2>2 DEF DailyInv
<1>9. CASE \/ \E part \in ListParts : QueryPart(part)
           \/ AnswerList \/ CountForExport \/ ReturnDocument
           \/ ExportMonthly \/ ExportTransactionWidget \/ NextDay
  <2>1. /\ step \in {"list", "export", "read"} \cup ClockSteps
        /\ step' \in {"list", "export", "read", "done"} \cup ClockSteps
        /\ answer' \in {answer, "list", "refused", "accepted", "file", "nothing"}
    BY <1>9 DEF QueryPart, AnswerList, CountForExport, ReturnDocument, ExportMonthly,
                ExportTransactionWidget, NextDay, ClockSteps
  <2>2. answer # "report"
    BY <2>1 DEF RequestInv, ClockSteps
  <2>3. QED
    BY <2>1, <2>2 DEF DailyInv, ClockSteps
<1>10. QED
  BY <1>2, <1>3, <1>4, <1>5, <1>6, <1>7, <1>8, <1>9 DEF Next, Serve, Consume

\* The daily report counts each transaction that was there throughout once per currency
\* and once per payment option, however many come and go between its queries.
THEOREM DailyReportsCountOnce == Spec => []DailyReportCountsOnce
<1>1. DailyInv => DailyReportCountsOnce
  BY DEF DailyInv, DailyReportCountsOnce, CurrenciesCounted, OptionsCounted
<1>2. Spec => []KnownRequest
  BY RequestsAreKnown, RequestsStayKnown, PTL DEF Spec
<1>3. Spec => []RequestInv
  BY InitRequestInv, NextRequestInv, PTL DEF Spec
<1>4. Spec => []DailyInv
  BY <1>2, <1>3, InitDailyInv, NextDailyInv, PTL DEF Spec
<1>5. QED
  BY <1>1, <1>4, PTL
=============================================================================
