-------------------------- MODULE MCPaymentActions --------------------------
(***************************************************************************)
(* Instances of PaymentActions for TLC: a transaction of 4, a cart of two  *)
(* units of one article, fees of 1, and two requests, enough for the       *)
(* second to act on what the first has left behind or not yet written.     *)
(***************************************************************************)
EXTENDS PaymentActions

\* One article, so that two captures of one unit each already use up the cart
\* of MCOneArticle and a capture of both units leaves the fee.
MCIdentifiers == {"shirt"}
MCCart == [id \in MCIdentifiers |-> 2]
MCOneArticle == [id \in MCIdentifiers |-> 1]

MCPayload(amount, wrapped, lines) ==
    [amount |-> amount, wrapped |-> wrapped, itemised |-> lines # <<>>, items |-> lines,
     updated |-> FALSE, update |-> <<>>]
MCLine(quantity) == <<[identifier |-> "shirt", price |-> 1, quantity |-> quantity]>>
MCJob(action, payload) == [action |-> action, payload |-> payload, skipValidation |-> FALSE]

\* More than half the total, so that two of them are too much; and a capture
\* which is the whole total but for the fee.
MCRefund == MCJob("refund", MCPayload(3, 0, <<>>))
MCCapture == MCJob("shipping_goods", MCPayload(3, 0, <<>>))
MCSmallCapture == MCJob("shipping_goods", MCPayload(1, 0, <<>>))
\* Amounts the validators do not see.
MCWrappedRefund == MCJob("refund", MCPayload(0, 2, <<>>))
MCItemsCapture == MCJob("shipping_goods", MCPayload(0, 0, MCLine(1)))
MCReturn == MCJob("return", MCPayload(0, 0, <<>>))
\* Nothing to add up, and not an action of the third-party caller.
MCChangeAmount == MCJob("change_amount", MCPayload(0, 2, <<>>))
\* Amounts the history does not see.
MCCaptureFunds == MCJob("capture", MCPayload(0, 2, <<>>))
MCEdit == MCJob("edit", [MCPayload(0, 0, <<>>) EXCEPT !.updated = TRUE, !.update = MCLine(2)])

MCOverlapJobs ==
    {MCRefund, MCCapture, MCWrappedRefund, MCItemsCapture, MCReturn, MCChangeAmount,
     MCCaptureFunds, MCEdit}
MCValidatedJobs == {MCRefund, MCCapture, MCSmallCapture, MCChangeAmount}
MCRefundJobs == {MCRefund}
MCCaptureJobs == {MCItemsCapture}
=============================================================================
