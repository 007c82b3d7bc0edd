----------------------------- MODULE MCChainNodes -----------------------------
EXTENDS ChainNodes, TLC

CONSTANTS n1, n2, x, y, acc1, acc2

=============================================================================
