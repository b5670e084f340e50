--------------------------- MODULE SearchFilters ---------------------------
(***************************************************************************)
(* The filters of transaction lists, as the two engines understand them:   *)
(* mongo-filters with MongoSearchService, and elastic-filters with         *)
(* ElasticSearchService, DoubleValueProcessor and what                     *)
(* TransactionDoubleConverter packs into the index.                        *)
(*                                                                         *)
(* A word is a sequence of letters: one lower-case word, so that analysis  *)
(* and case do not matter.  An amount is a number of cents, a time a       *)
(* number of hours of the server's time zone, UTC; the milliseconds that   *)
(* setUTCHours(0, 0, 0) leaves, of a filter that names some, are left out. *)
(* A filter without a value has <<>> as its value.                         *)
(***************************************************************************)
EXTENDS Integers, Sequences, FiniteSets, Functions, FiniteSetsExt, SequencesExt

CONSTANTS
    TooSmall,   \* the cents of which 100 times the floating-point amount falls below
    TooLarge,   \* the cents of which it falls above, as 1.1 * 100 = 110.00000000000001
    DayLength,  \* the hours of a day
    Hundred     \* the cents of a whole amount

ASSUME FiltersAssumption ==
    /\ DayLength \in Nat \ {0}
    /\ Hundred \in Nat \ {0}
    /\ TooSmall \cup TooLarge \subseteq {cents \in Nat : cents % Hundred # 0}
    /\ TooSmall \cap TooLarge = {}

\* What a transaction is filtered by, and how the index maps it.
Identifiers == {"business_uuid", "user_uuid"}
Words == {"reference", "merchant_email"}
Longs == {"total"}
Dates == {"created_at"}

StringConditions == {"is", "isNot", "contains", "doesNotContain", "startsWith", "endsWith"}
NumberConditions == {"lessThan", "lessThanOrEqual", "greaterThan", "greaterThanOrEqual"}
DateConditions == {"isDate", "isNotDate", "afterDate", "beforeDate"}
MongoConditions ==
    StringConditions \cup NumberConditions \cup DateConditions \cup {"between", "betweenDates"}
ElasticConditions == MongoConditions \cup {"isIn", "isNotIn"}

\* The days of DateStringHelper.
DateStart(t) == t - (t % DayLength)
TomorrowDateStart(t) == DateStart(t) + DayLength

HasPart(x, v) == \E n \in 0..Len(x) : IsPrefix(v, SubSeq(x, n + 1, Len(x)))

Froms(ranges) == {r.from : r \in ranges}
Tos(ranges) == {r.to : r \in ranges}

-----------------------------------------------------------------------------
(* MongoDB: x is the transaction's value, vs the set of the filter's.      *)

MongoIs(x, vs) == x \in vs
MongoIsNot(x, vs) == x \notin vs
MongoContains(x, vs) == \E v \in vs : HasPart(x, v)
MongoDoesNotContain(x, vs) == \A v \in vs : ~HasPart(x, v)
MongoStartsWith(x, vs) == \E v \in vs : IsPrefix(v, x)
MongoEndsWith(x, vs) == \E v \in vs : IsSuffix(v, x)
MongoLessThan(x, vs) == x < Min(vs)
MongoLessThanOrEqual(x, vs) == x <= Min(vs)
MongoGreaterThan(x, vs) == x > Max(vs)
MongoGreaterThanOrEqual(x, vs) == x >= Max(vs)

\* parseInt drops the cents.
MongoBetween(x, ranges) ==
    LET whole(v) == v - (v % Hundred) IN
    x >= Max({whole(v) : v \in Froms(ranges)}) /\ x <= Min({whole(v) : v \in Tos(ranges)})

MongoIsDate(x, vs) == \A v \in vs : x >= DateStart(v) /\ x < TomorrowDateStart(v)
MongoIsNotDate(x, vs) == \A v \in vs : ~(x >= DateStart(v) /\ x < TomorrowDateStart(v))
MongoAfterDate(x, vs) == x >= Max({DateStart(v) : v \in vs})
MongoBeforeDate(x, vs) == x < Min({TomorrowDateStart(v) : v \in vs})
MongoBetweenDates(x, ranges) ==
    /\ x >= Max({DateStart(v) : v \in Froms(ranges)})
    /\ x <= Min({TomorrowDateStart(v) : v \in Tos(ranges)})

MongoHolds(condition, x, vs) ==
    CASE condition = "is" -> MongoIs(x, vs)
      [] condition = "isNot" -> MongoIsNot(x, vs)
      [] condition = "contains" -> MongoContains(x, vs)
      [] condition = "doesNotContain" -> MongoDoesNotContain(x, vs)
      [] condition = "startsWith" -> MongoStartsWith(x, vs)
      [] condition = "endsWith" -> MongoEndsWith(x, vs)
      [] condition = "lessThan" -> MongoLessThan(x, vs)
      [] condition = "lessThanOrEqual" -> MongoLessThanOrEqual(x, vs)
      [] condition = "greaterThan" -> MongoGreaterThan(x, vs)
      [] condition = "greaterThanOrEqual" -> MongoGreaterThanOrEqual(x, vs)
      [] condition = "between" -> MongoBetween(x, vs)
      [] condition = "isDate" -> MongoIsDate(x, vs)
      [] condition = "isNotDate" -> MongoIsNotDate(x, vs)
      [] condition = "afterDate" -> MongoAfterDate(x, vs)
      [] condition = "beforeDate" -> MongoBeforeDate(x, vs)
      [] condition = "betweenDates" -> MongoBetweenDates(x, vs)
      [] OTHER -> TRUE

-----------------------------------------------------------------------------
(* Elasticsearch: every value is a condition of its own.                   *)

ElasticIs(x, vs) == \A v \in vs : x = v
ElasticIsNot(x, vs) == \A v \in vs : x # v
ElasticIsIn(x, vs) == \E v \in vs : x = v
ElasticIsNotIn(x, vs) == ~\E v \in vs : x = v
ElasticContains(x, vs) == \A v \in vs : HasPart(x, v)
ElasticDoesNotContain(x, vs) == \A v \in vs : ~HasPart(x, v)
ElasticStartsWith(x, vs) == \A v \in vs : IsPrefix(v, x)
ElasticEndsWith(x, vs) == \A v \in vs : IsSuffix(v, x)
ElasticLessThan(x, vs) == \A v \in vs : x < v
ElasticLessThanOrEqual(x, vs) == \A v \in vs : x <= v
ElasticGreaterThan(x, vs) == \A v \in vs : x > v
ElasticGreaterThanOrEqual(x, vs) == \A v \in vs : x >= v

\* Of the processed values, in half cents, parseInt drops the half.
ElasticBetween(x, ranges) ==
    LET whole(v) == v - (v % 2) IN
    x >= Max({whole(v) : v \in Froms(ranges)}) /\ x <= Min({whole(v) : v \in Tos(ranges)})

ElasticIsDate(x, vs) == \A v \in vs : x >= DateStart(v) /\ x < TomorrowDateStart(v)
ElasticIsNotDate(x, vs) == ~\E v \in vs : x >= DateStart(v) /\ x < TomorrowDateStart(v)
ElasticAfterDate(x, vs) == x >= Max({DateStart(v) : v \in vs})

\* Mutant of ElasticBeforeDate: the day itself is left out.
MutantBeforeDay(x, vs) == x < Min({DateStart(v) : v \in vs})

ElasticBeforeDate(x, vs) == x < Min({TomorrowDateStart(v) : v \in vs})
ElasticBetweenDates(x, ranges) ==
    /\ x >= Max({DateStart(v) : v \in Froms(ranges)})
    /\ x < Min({TomorrowDateStart(v) : v \in Tos(ranges)})

ElasticHolds(condition, x, vs) ==
    CASE condition = "is" -> ElasticIs(x, vs)
      [] condition = "isNot" -> ElasticIsNot(x, vs)
      [] condition = "isIn" -> ElasticIsIn(x, vs)
      [] condition = "isNotIn" -> ElasticIsNotIn(x, vs)
      [] condition = "contains" -> ElasticContains(x, vs)
      [] condition = "doesNotContain" -> ElasticDoesNotContain(x, vs)
      [] condition = "startsWith" -> ElasticStartsWith(x, vs)
      [] condition = "endsWith" -> ElasticEndsWith(x, vs)
      [] condition = "lessThan" -> ElasticLessThan(x, vs)
      [] condition = "lessThanOrEqual" -> ElasticLessThanOrEqual(x, vs)
      [] condition = "greaterThan" -> ElasticGreaterThan(x, vs)
      [] condition = "greaterThanOrEqual" -> ElasticGreaterThanOrEqual(x, vs)
      [] condition = "between" -> ElasticBetween(x, vs)
      [] condition = "isDate" -> ElasticIsDate(x, vs)
      [] condition = "isNotDate" -> ElasticIsNotDate(x, vs)
      [] condition = "afterDate" -> ElasticAfterDate(x, vs)
      [] condition = "beforeDate" -> ElasticBeforeDate(x, vs)
      [] condition = "betweenDates" -> ElasticBetweenDates(x, vs)
      [] OTHER -> TRUE

-----------------------------------------------------------------------------
(* Amounts in the index: whole cents, compared in half cents, since 100    *)
(* times the number may fall just below or just above.                     *)

Times100(cents) ==
    2 * cents + (IF cents \in TooLarge THEN 1 ELSE IF cents \in TooSmall THEN -1 ELSE 0)

\* What pack stores, in cents: Math.trunc takes a cent from what fell below only.
Pack(cents) == Times100(cents) \div 2

Indexed(doc, field) == IF field \in Longs THEN 2 * Pack(doc[field]) ELSE doc[field]

\* DoubleValueProcessor truncates nothing; the values of between have two ends.
Process(field, condition, v) ==
    IF field \notin Longs THEN v
    ELSE IF condition = "between" THEN [from |-> Times100(v.from), to |-> Times100(v.to)]
    ELSE Times100(v)

-----------------------------------------------------------------------------
(* addFilters: filters is a function from fields to sequences of filters.  *)

\* The first filter of a field without a value ends that field's filters.
Applied(fs) ==
    {fs[i] : i \in {i \in DOMAIN fs : \A j \in 1..i : fs[j].value # <<>>}}

MongoMatches(filters, doc) ==
    \A field \in DOMAIN filters : \A f \in Applied(filters[field]) :
        MongoHolds(f.condition, doc[field], Range(f.value))

ElasticMatches(filters, doc) ==
    \A field \in DOMAIN filters : \A f \in Applied(filters[field]) :
        ElasticHolds(f.condition, Indexed(doc, field),
                     {Process(field, f.condition, v) : v \in Range(f.value)})

\* The search text, unless it is empty.
MongoSearched(text, doc) ==
    text = <<>> \/ \E field \in {"reference", "merchant_email"} : HasPart(doc[field], text)
ElasticSearched(text, doc) ==
    text = <<>> \/ HasPart(doc.reference, text)

-----------------------------------------------------------------------------
(* What the controllers add to the client's filters.                       *)

The(condition, v) == <<[condition |-> condition, value |-> <<v>>]>>

WithField(filters, field, fs) ==
    [g \in DOMAIN filters \cup {field} |-> IF g = field THEN fs ELSE filters[g]]

\* Mutant of ApplyBusinessFilter: it is added to what the client sent for the field.
MutantAddsToFilter(business, filters) ==
    WithField(filters, "business_uuid",
         (IF "business_uuid" \in DOMAIN filters THEN filters.business_uuid ELSE <<>>)
         \o The("is", business))

ApplyBusinessFilter(business, filters) == WithField(filters, "business_uuid", The("is", business))
ApplyUserUuidFilter(user, filters) == WithField(filters, "user_uuid", The("is", user))
ApplyUserIdFilter(user, filters) == WithField(filters, "userId", The("is", user))
AddScope(scope, filters) == WithField(filters, "scope", The("is", scope))
ApplyNotExample(filters) == WithField(filters, "example", The("isNot", TRUE))
=============================================================================
