--------------------------- MODULE ActionAmounts ---------------------------
(***************************************************************************)
(* The arithmetic of a payment action: the virtual amount fields of a      *)
(* stored transaction, the validators that run before an action, and the   *)
(* places that compute the action's own amount from its payload: on its    *)
(* way to the provider, and for the history.                               *)
(*                                                                         *)
(* Amounts are whole cents, so the rounding to two decimals in the source  *)
(* (Math.round((x + EPSILON) * 100) / 100) leaves them as they are.  A     *)
(* history enters only through its tally: for each action, the sum of the  *)
(* amounts of its entries, which is all the virtual fields read.  0 stands *)
(* for an absent amount: the source tests amounts for truthiness, so it    *)
(* treats 0 and undefined alike.                                           *)
(***************************************************************************)
EXTENDS Integers, Sequences, Functions

\* The actions whose history entries some virtual field adds up.
TalliedActions == {"refund", "return", "shipping_goods", "cancel"}

EmptyTally == [a \in TalliedActions |-> 0]

NonNegative(n) == IF n >= 0 THEN n ELSE 0

AmountRefunded(tally) == tally["refund"] + tally["return"]

AmountCaptured(tally) == tally["shipping_goods"]

AmountCaptureRest(total, tally) ==
    NonNegative(total - AmountCaptured(tally) - AmountRefunded(tally))

-----------------------------------------------------------------------------
(* An action's payload.  `wrapped` is the amount in the wrapper object of  *)
(* the action (payment_return, payment_change_amount, capture_funds or     *)
(* payment_cancel), `itemised` says that payment_items is there, if only   *)
(* as an empty array, `updated` that payment_update is, with its lines.    *)

CartLine(Identifiers) == [identifier: Identifiers, price: Int, quantity: Int]

Payload(Identifiers) ==
    [amount: Int, wrapped: Int, itemised: BOOLEAN, items: Seq(CartLine(Identifiers)),
     updated: BOOLEAN, update: Seq(CartLine(Identifiers))]

ItemsPrice(lines) == SumFunction([i \in DOMAIN lines |-> lines[i].price])

ItemsValue(lines) == SumFunction([i \in DOMAIN lines |-> lines[i].price * lines[i].quantity])

\* The quantity of one article over all lines.
ItemQuantity(lines, id) ==
    SumFunction([i \in DOMAIN lines |-> IF lines[i].identifier = id THEN lines[i].quantity ELSE 0])

-----------------------------------------------------------------------------
(* The listeners of PaymentActionBefore.                                   *)

GuardedActions == {"refund", "shipping_goods"}

AllowedCaptureAmount(total, tally) ==
    total - AmountCaptured(tally) - AmountRefunded(tally)

AllowedRefundAmount(total, tally) == total - AmountRefunded(tally)

\* Mutant of ValidAmount: only ActionAmountTransactionValidatorService is left.
MutantTransactionValidatorOnly(action, amount, total, tally) ==
    amount > 0 /\ amount <= total

ValidAmount(action, amount, total, tally) ==
    /\ action = "shipping_goods" => amount <= AllowedCaptureAmount(total, tally)
    /\ action = "refund" => amount <= AllowedRefundAmount(total, tally)
    /\ amount > 0
    /\ amount <= total

\* Does ValidateAmountBeforeActionListener look at this payload at all?
AmountIsChecked(action, p, skipValidation) ==
    action \in GuardedActions /\ p.amount # 0 /\ ~skipValidation

AmountMatchesItems(action, p) ==
    (action \in GuardedActions /\ p.amount # 0 /\ p.items # <<>>)
        => p.amount = ItemsPrice(p.items)

\* `cart`, `captured` and `refunded` give the quantity of each article in the
\* transaction's items, captured_items and refunded_items.
ItemAllowed(action, line, cart, captured, refunded) ==
    /\ line.identifier \in DOMAIN cart
    /\ line.quantity <= cart[line.identifier]
    /\ action = "shipping_goods" =>
         line.quantity <= cart[line.identifier] - captured[line.identifier]
                                                - refunded[line.identifier]
    /\ action = "refund" =>
         line.quantity <= cart[line.identifier] - refunded[line.identifier]

ItemsAllowed(action, p, cart, captured, refunded) ==
    action \in GuardedActions =>
        \A i \in DOMAIN p.items :
            ItemAllowed(action, p.items[i], cart, captured, refunded)

-----------------------------------------------------------------------------
(* The computations of the action's amount.                                *)

\* doAction, for shipping_goods: the amount becomes the value of the items,
\* and the fees are added when it is all that is left to capture beside them.
AmountFromItems(p) == IF p.itemised THEN ItemsValue(p.items) ELSE p.amount

AmountWithFees(amount, fees, total, tally) ==
    IF amount # 0 /\ amount = AmountCaptureRest(total, tally) - fees
    THEN amount + fees
    ELSE amount

Adjusted(action, p, fees, total, tally) ==
    IF action = "shipping_goods"
    THEN [p EXCEPT !.amount = AmountWithFees(AmountFromItems(p), fees, total, tally)]
    ELSE p

\* MessagingService.prepareActionFields: it writes into the payload itself, so
\* the listeners that run after the action see the unwrapped amount too.
Unwrapped(action, p) ==
    IF action \in {"refund", "return", "change_amount"} /\ p.wrapped # 0
    THEN [p EXCEPT !.amount = p.wrapped]
    ELSE p

\* The fields of the RPC: an edit takes its lines from payment_update, in a copy
\* of the payload that no listener sees.
Dispatched(action, p) ==
    IF action = "edit" /\ p.updated THEN [p EXCEPT !.items = p.update]
    ELSE Unwrapped(action, p)

\* runAction puts the amount of capture_funds into the payment of the RPC.
CapturesFunds(action, p) == action = "capture" /\ p.wrapped # 0

\* The actions whose wrapper object has an amount.
WrappedActions == {"refund", "return", "change_amount", "capture", "shipping_goods", "cancel"}

\* The amount the fields sent name to the provider, 0 when it is left to choose:
\* the payment's own, the plain one, the wrapped one, the value of the items.
AmountSent(action, p) ==
    IF CapturesFunds(action, p) THEN p.wrapped
    ELSE IF p.amount # 0 THEN p.amount
    ELSE IF action \in WrappedActions /\ p.wrapped # 0 THEN p.wrapped
    ELSE ItemsValue(p.items)

\* getAmountFromPayload without its last resort: the amount the history finds in
\* the payload, 0 when it finds none.
AmountFound(action, p) ==
    IF p.amount # 0 THEN p.amount
    ELSE IF action \in TalliedActions /\ p.wrapped # 0 THEN p.wrapped
    ELSE ItemsValue(p.items)

\* Mutant of AmountFromPayload: it looks at fields.amount alone.
MutantPlainAmountOnly(action, p, total) == IF p.amount # 0 THEN p.amount ELSE total

\* The amount of the history entry: the one found, or else the whole total.
AmountFromPayload(action, p, total) ==
    IF AmountFound(action, p) # 0 THEN AmountFound(action, p) ELSE total

\* The payload names its amount where getAmountFromPayload does not look: in the
\* capture_funds of a capture, or the payment_update of an edit.
NamedElsewhere(action, p) == CapturesFunds(action, p) \/ (action = "edit" /\ p.updated)
============================================================================
