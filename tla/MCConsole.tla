------------------------------ MODULE MCConsole ------------------------------
(* The two stores of an operator's machine: the seed with its Keychain entry *)
(* and the gas wallet.  All that gas runs see of the seed is whether the     *)
(* passphrase opens it, which GasFunding leaves open; so the two share no    *)
(* state, and looking at either while the other has not begun is enough.     *)
EXTENDS GasFunding, SeedStore, TLC

CONSTANTS r1, r2, a1, a2

ConsoleInit == GasInit /\ SeedInit

ConsoleNext ==
    \/ /\ GasNext /\ UNCHANGED seedVars
       /\ SeedInit /\ seedFile = NoBlob /\ env = [t \in Terminals |-> NoBlob]
    \/ SeedNext /\ GasInit /\ UNCHANGED gasVars

ConsoleSpec == ConsoleInit /\ [][ConsoleNext]_<<gasVars, seedVars>>

\* Runs and addresses are interchangeable.
GasSymmetry == Permutations(GasRuns) \cup Permutations(Addresses)
=============================================================================
