-------------------------- MODULE MCInvoicePayments --------------------------
\* A small instance of InvoicePayments for TLC.
EXTENDS InvoicePayments

CONSTANTS i1, p1, p2, w1, w2
=============================================================================
