----------------------------- MODULE MCReadouts -----------------------------
(***************************************************************************)
(* An instance of Readouts for TLC.                                        *)
(***************************************************************************)
EXTENDS Readouts

CONSTANTS b1, b2, u1, u2, eur, usd, sek, invoice, instalment

Transaction(business, user, reference, email, total, hour, example, currency, type) ==
    [business_uuid |-> business, user_uuid |-> user, reference |-> reference,
     merchant_email |-> email, total |-> total, created_at |-> hour, example |-> example,
     currency |-> currency, type |-> type]

\* The third is created at midnight, 100 times the amount of the first falls
\* above and of the fifth below, and the fourth
\* is older than the others and has a currency of its own.
MCDocOf == <<
    Transaction(b1, u1, <<"a", "b">>, <<"b">>, 110, 30, FALSE, eur, instalment),
    Transaction(b1, u2, <<"b">>, <<"a">>, 150, 50, TRUE, eur, invoice),
    Transaction(b2, u1, <<"a">>, <<"b">>, 250, 48, FALSE, usd, instalment),
    Transaction(b2, u2, <<"b", "a">>, <<"a">>, 300, 20, FALSE, sek, invoice),
    Transaction(b1, u1, <<"a">>, <<"b">>, 115, 30, FALSE, usd, invoice)>>

MCMonthLengths == <<31, 28, 31, 30, 31, 30, 31, 31, 30, 31, 30, 31>>

Filter(condition, value) == [condition |-> condition, value |-> value]
On(field, fs) == [f \in {field} |-> fs]
Filters(conditions, values) == {<<Filter(c, v)>> : c \in conditions, v \in values}

WordFilters ==
    Filters(StringConditions \cup {"isIn", "isNotIn"},
            {<<<<"a">>>>, <<<<"b">>>>, <<<<"a">>, <<"b">>>>})
TotalFilters ==
    Filters({"is", "isNot"} \cup NumberConditions, {<<150>>, <<110>>, <<115>>, <<100, 250>>})
    \cup Filters({"between"},
        {<<[from |-> 100, to |-> 200]>>, <<[from |-> 150, to |-> 250]>>})
DateFilters ==
    Filters(DateConditions, {<<24>>, <<49>>, <<24, 49>>})
    \cup Filters({"betweenDates"},
        {<<[from |-> 24, to |-> 25]>>, <<[from |-> 30, to |-> 50]>>})

\* Filters that have no value, for themselves and before others; and clients that name
\* a business or a user.
FewFilters ==
    {<<>>,
     On("reference", <<Filter("is", <<>>), Filter("is", <<<<"a">>>>)>>),
     On("reference", <<Filter("is", <<<<"a">>>>), Filter("is", <<>>)>>),
     On("business_uuid", <<Filter("is", <<>>)>>),
     On("business_uuid", <<Filter("isNot", <<b1>>)>>),
     On("user_uuid", <<Filter("is", <<u2>>)>>)}

ClientFilters ==
    {On("reference", fs) : fs \in WordFilters}
    \cup {On("total", fs) : fs \in TotalFilters}
    \cup {On("created_at", fs) : fs \in DateFilters}

Askers == {<<"business", b1>>, <<"user", u1>>, <<"admin", None>>}

ListRequests(askers, filters, texts) ==
    {[kind |-> "list", asker |-> who[1], id |-> who[2], engine |-> engine,
      filters |-> fs, search |-> text] :
        who \in askers, engine \in {"mongo", "elastic"}, fs \in filters, text \in texts}

\* Every filter in a business's list, and a few in everybody's, beside a search.
ListScenarios ==
    {[stored |-> s, request |-> r] :
        s \in {1..4, {1, 2, 4, 5}},
        r \in ListRequests({<<"business", b1>>}, ClientFilters, {<<>>})
             \cup ListRequests(Askers, FewFilters, {<<>>, <<"b">>})}

ExportScenarios ==
    {[stored |-> s,
      request |-> [kind |-> "export", asker |-> who[1], id |-> who[2], format |-> format,
                   filters |-> filters]] :
        s \in {{2, 4}, {1, 2, 5}, 1..5}, who \in Askers, format \in {"csv", "pdf"},
        filters \in {<<>>, On("reference", <<Filter("contains", <<<<"a">>>>)>>),
                     On("user_uuid", <<Filter("is", <<u2>>)>>),
                     On("userId", <<Filter("is", <<u2>>)>>)}}

DailyScenarios ==
    {[stored |-> s, request |-> [kind |-> "daily", begin |-> begin]] :
        s \in SUBSET (1..5), begin \in {30, 48}}

ClockScenario == [stored |-> {}, request |-> [kind |-> "clock"]]

MCScenarios == ListScenarios \cup ExportScenarios \cup DailyScenarios \cup {ClockScenario}
=============================================================================
