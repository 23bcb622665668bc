------------------------------ MODULE MCMarshal -------------------------------
EXTENDS Marshal

CONSTANT MaxArgs  \* bound: arguments of a call

Arg(k, n, z) == [kind |-> k, size |-> n, null |-> z]

MCArguments ==
    {Arg("primitive", 1, FALSE), Arg("blob", 2, FALSE), Arg("blob", 2, TRUE),
     Arg("blob", 0, TRUE),
     Arg("return", 1, FALSE), Arg("return", 2, FALSE), Arg("custom", 2, FALSE)}

MCSignatures ==
    {s \in UNION {[1..n -> MCArguments] : n \in 0..MaxArgs} :
        \A i, j \in DOMAIN s :
            s[i].kind = "custom" /\ s[j].kind = "custom" => i = j}

\* A custom implementation returns less, as much or more than it got.
MCCustomSizes == {1, 2, 3}

=============================================================================
