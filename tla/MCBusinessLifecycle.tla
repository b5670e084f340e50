------------------------ MODULE MCBusinessLifecycle ------------------------
(***************************************************************************)
(* An instance of BusinessLifecycle for TLC.                               *)
(***************************************************************************)
EXTENDS BusinessLifecycle

CONSTANTS p1, p2, f1, e1, e2

MCFlowOf == [p \in Payments |-> f1]

\* The examples of a business, from its sample products or triggered, that a payment
\* or the removal of the business removes while someone acts on one; and a seller
\* whose flow comes before, after or between payments, or is changed and removed.
MCInboxes == {
    {<<"products", 1>>, <<"payment", p1>>, <<"removed", 1>>},
    {<<"products", 1>>, <<"payment", p1>>, <<"fake", 1>>},
    {<<"trigger", 1>>, <<"payment", p1>>, <<"removed", 1>>},
    {<<"payment", p1>>, <<"payment", p2>>, <<"flow", <<f1, e1>>>>},
    {<<"payment", p1>>, <<"flow", <<f1, e1>>>>, <<"flow", <<f1, e2>>>>},
    {<<"payment", p1>>, <<"flow", <<f1, e1>>>>, <<"flow", <<f1, Nothing>>>>}}
=============================================================================
