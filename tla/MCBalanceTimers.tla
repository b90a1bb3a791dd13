--------------------------- MODULE MCBalanceTimers ---------------------------
EXTENDS BalanceTimers
=============================================================================
