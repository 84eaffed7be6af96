------------------------------ MODULE MCOutbox ------------------------------
\* Model values for Outbox.
EXTENDS Outbox, TLC

CONSTANTS w1, w2

=============================================================================
