-------------------------- MODULE MCCheckoutEvents --------------------------
(***************************************************************************)
(* Instances of CheckoutEvents for TLC.                                    *)
(***************************************************************************)
EXTENDS CheckoutEvents

MCStatuses == {New, Accepted, Paid, Refunded, Cancelled, Declined, Failed}

Did(action, value) == [action |-> action, amount |-> value]

Sends(kind, status) == [kind |-> kind, status |-> status, entries |-> <<>>]
Tells(kind, status, entries) == [kind |-> kind, status |-> status, entries |-> entries]

\* The service refunds 2 of the 3 or captures the payment, and the provider's
\* answer has the amount that is left, or the whole one.
MCOwnActions == {
    [entry |-> Did("refund", 2), status |-> Refunded, amount |-> 1],
    [entry |-> Did("capture", 3), status |-> Paid, amount |-> 3]}
MCOwnCapture == {[entry |-> Did("capture", 3), status |-> Paid, amount |-> 3]}

\* A payment that is accepted, and told of twice; one that is paid; one that is refunded;
\* one told of before it is created, or when it is removed; one whose refund and edit are
\* told of as well; one whose entry comes before it; one that is migrated, as refunded, with
\* an entry before or after; one whose migration meets its creation; one that is mailed
\* about, downloaded for or shipped; one created twice; and one that fails, is not stored,
\* and whose order is unknown.
MCScripts == {
    <<Sends("create", New), Sends("update", Accepted), Sends("update", Accepted)>>,
    <<Sends("create", Accepted), Sends("update", Paid)>>,
    <<Sends("create", Paid), Sends("update", Refunded)>>,
    <<Sends("update", Paid), Sends("create", New)>>,
    <<Sends("update", Cancelled), Sends("remove", Cancelled)>>,
    <<Sends("create", Paid), Tells("completed", Paid, <<Did("edit", 1)>>),
      Tells("completed", Paid, <<Did("refund", 2)>>), Tells("added", Paid, <<Did("refund", 2)>>)>>,
    <<Tells("added", New, <<Did("capture", 3)>>), Sends("create", New)>>,
    <<Sends("create", Accepted), Tells("added", Accepted, <<Did("capture", 3)>>),
      Tells("migrate", Refunded, <<Did("refund", 1), Did("refund", 1)>>)>>,
    <<Tells("migrate", Refunded, <<Did("capture", 3), Did("refund", 1)>>),
      Tells("completed", Paid, <<Did("statuschanged", 0)>>), Sends("create", Paid)>>,
    <<Sends("create", Accepted), Sends("submitted", Accepted)>>,
    <<Sends("create", Accepted), Tells("downloaded", Accepted, <<Did("shipping-label-downloaded", 0)>>)>>,
    <<Sends("create", Accepted), Sends("shipped", Accepted)>>,
    <<Sends("create", New), Sends("create", Accepted)>>,
    <<Sends("submitted", Failed), Sends("shipped", Failed)>>}

\* The shortest script in which a status is told of twice.
MCRepeatedUpdate ==
    {<<Sends("create", New), Sends("update", Accepted), Sends("update", Accepted)>>}

\* One in which the service's own action stores what a message tells later.
MCPaidLater == {<<Sends("create", Accepted), Sends("update", Paid)>>}

=============================================================================
