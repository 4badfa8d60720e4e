------------------------------ MODULE MCInquiries -----------------------------
\* A small instance of Inquiries for TLC.
EXTENDS Inquiries, TLC

CONSTANTS i1, w1, w2

WorkerSymmetry == Permutations(Workers)

\* What one message leaves out another one tells; the third tells everything.
MCMessages ==
    {[phone |-> TRUE, service |-> FALSE, ready |-> FALSE],
     [phone |-> FALSE, service |-> TRUE, ready |-> FALSE],
     [phone |-> TRUE, service |-> TRUE, ready |-> TRUE]}
=============================================================================
