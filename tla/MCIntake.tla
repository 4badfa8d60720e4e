------------------------------- MODULE MCIntake -------------------------------
\* A small instance of Intake for TLC.
EXTENDS Intake, TLC

CONSTANTS w1, w2, p1, p2, e1, e2, n1

\* A message, one without text, and one for a business nobody has.
MCMessages ==
    {[from |-> p1, text |-> TRUE, known |-> TRUE],
     [from |-> p1, text |-> FALSE, known |-> TRUE],
     [from |-> p1, text |-> TRUE, known |-> FALSE]}

\* Lists with two customers, and with one customer twice.
MCLists == {<<p1, p2>>, <<p2, p2>>}

\* A plan with a limit for both, and one without a limit for customers.
MCPlans == {[customers |-> 1, staff |-> 1], [customers |-> NONE, staff |-> 2]}

CallSymmetry == Permutations(Workers) \cup Permutations(Emails)
=============================================================================
