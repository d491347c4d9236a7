------------------------------ MODULE MCBroker ------------------------------
EXTENDS Broker, TLC
Symm == Permutations(Tasks) \union Permutations(Owners)
=============================================================================
