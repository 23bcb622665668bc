------------------------------- MODULE MCGloip --------------------------------
EXTENDS Protocol, TLC

\* A function the client does not wait for, and one with a result.
MCFunctions == {[wait |-> FALSE, args |-> 1, outs |-> 0],
                [wait |-> TRUE, args |-> 1, outs |-> 1]}

ThreadSymmetry == Permutations(Threads)

=============================================================================
