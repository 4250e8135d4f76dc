------------------------------ MODULE MCCensus ------------------------------
EXTENDS Census

Tx(l, hash, failed) == [ledger |-> l, hash |-> hash, failed |-> failed]

\* The strata are {1, 2} and {3, 4}; ledger 5, the end of the window, is left
\* over.  Ledger 4 needs a second page, ledger 2 one that is empty.
MCChain == <<Tx(1, "a", TRUE),
             Tx(2, "b", FALSE), Tx(2, "c", TRUE),
             Tx(3, "d", TRUE),
             Tx(4, "e", TRUE), Tx(4, "f", FALSE), Tx(4, "g", TRUE)>>

\* Both providers have the window, or the fallback is behind.
MCTips == {[primary |-> 5, fallback |-> 5], [primary |-> 5, fallback |-> 2]}

=============================================================================
