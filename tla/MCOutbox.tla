------------------------------ MODULE MCOutbox ------------------------------
EXTENDS Outbox
CONSTANTS driver, operator
=============================================================================
