----------------------------- MODULE MCGenerators ------------------------------
EXTENDS Generators

CONSTANTS draw, read, buffer

MCNames == {draw, read}
MCArgs == {buffer}
MCDeclarations ==
    {[name |-> draw, nonVoid |-> FALSE, pointer |-> TRUE, args |-> <<buffer>>],
     [name |-> draw, nonVoid |-> FALSE, pointer |-> FALSE, args |-> <<>>],
     [name |-> read, nonVoid |-> TRUE, pointer |-> FALSE, args |-> <<buffer>>]}
=============================================================================
