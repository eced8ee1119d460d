------------------------------ MODULE MCWebhook ------------------------------
(* Instances of Webhook for TLC. *)
EXTENDS Webhook, TLC

CONSTANTS u1, u2, b1

Paid(meta, session, email, usd, cents) ==
    [type |-> "payment.succeeded", meta |-> meta, session |-> session,
     email |-> email, usd |-> usd, cents |-> cents]

\* Payments that keep both references, only one, or none, under another
\* account's email or nobody's; and those that must not be credited.
MCPayments ==
    {Paid(TRUE, TRUE, None, TRUE, 5), Paid(FALSE, TRUE, u2, TRUE, 5),
     Paid(FALSE, FALSE, u2, TRUE, 5), Paid(FALSE, FALSE, None, TRUE, 5),
     Paid(TRUE, FALSE, u2, FALSE, 5), Paid(TRUE, TRUE, None, TRUE, 0),
     [Paid(TRUE, TRUE, None, TRUE, 5) EXCEPT !.type = "payment.failed"]}

\* Full references only: what the retry and checkout questions need.
PlainPayments == {Paid(TRUE, TRUE, None, TRUE, 5)}

\* One crediting payment, and one under a foreign currency.
FewPayments == {Paid(TRUE, TRUE, None, TRUE, 5), Paid(TRUE, TRUE, None, FALSE, 5)}

NoNotices == {}

\* Events and sessions are interchangeable; the payments name an account.
Symmetry == Permutations(Events) \cup Permutations(Sessions)

Notice(type, meta, sub, cust, product) ==
    [type |-> type, meta |-> meta, session |-> None, sub |-> sub,
     email |-> None, custSub |-> cust, product |-> product, usd |-> TRUE, cents |-> 0]

\* Subscription events of one account, one that names another account and no
\* known product, and one that only the subscription's own row correlates.
MCNotices ==
    {Notice(t, u1, b1, None, TRUE) : t \in SubTypes \ {"subscription.renewed"}}
    \cup {Notice("subscription.active", u2, b1, None, FALSE),
          Notice("subscription.renewed", None, b1, b1, FALSE)}
=============================================================================
