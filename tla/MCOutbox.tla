------------------------------ MODULE MCOutbox ------------------------------
\* The outbox on small instances.
EXTENDS Outbox, TLC

Symmetry == Permutations(Message) \cup Permutations(Value)
=============================================================================
