------------------------------ MODULE MCOutreach ------------------------------
\* A small instance of Outreach for TLC.
EXTENDS Outreach, TLC

CONSTANTS w1, w2

\* Within two steps these reach every stage that sends or opens something.
MCFirstDue == {3, 6}

WorkerSymmetry == Permutations(Workers)
=============================================================================
