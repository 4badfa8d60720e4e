---------------------------- MODULE MCTenantBilling ----------------------------
\* A small instance of TenantBilling for TLC.
EXTENDS TenantBilling

CONSTANTS e1, w1, w2

\* A trial, a customer who pays elsewhere, one who owes, one who comes back.
MCStarts ==
    {[status |-> "TRIAL", sub |-> "TRIALING"], [status |-> "ACTIVE", sub |-> "ACTIVE"],
     [status |-> "SUSPENDED", sub |-> "UNPAID"], [status |-> "CHURNED", sub |-> "CANCELED"]}

\* An event of each kind, and an invoice that does not name the tenant; the fee
\* only matters where there is one, and so does the id of the subscription.
MCContents ==
    {[kind |-> k, named |-> TRUE, fee |-> FALSE, linking |-> TRUE] : k \in Kind \ {"paystack"}}
        \cup {[kind |-> "paid", named |-> FALSE, fee |-> FALSE, linking |-> FALSE],
              [kind |-> "checkout", named |-> TRUE, fee |-> TRUE, linking |-> FALSE],
              [kind |-> "paystack", named |-> TRUE, fee |-> TRUE, linking |-> FALSE]}

\* A trial is given, a tenant is suspended, a subscription set by hand, with its id
\* at Stripe or without.
MCChanges ==
    {[status |-> NONE, sub |-> NONE, trial |-> "later", linked |-> NONE],
     [status |-> "SUSPENDED", sub |-> NONE, trial |-> NONE, linked |-> FALSE],
     [status |-> NONE, sub |-> "UNPAID", trial |-> NONE, linked |-> NONE],
     [status |-> NONE, sub |-> "ACTIVE", trial |-> NONE, linked |-> TRUE],
     [status |-> NONE, sub |-> "TRIALING", trial |-> "over", linked |-> NONE]}
=============================================================================
