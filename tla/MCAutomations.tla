----------------------------- MODULE MCAutomations ----------------------------
\* A small instance of Automations for TLC.
EXTENDS Automations

CONSTANTS k1, w1, w2
=============================================================================
