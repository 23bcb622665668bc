------------------------------ MODULE MCStreamIO ------------------------------
EXTENDS StreamIO

\* Shapes of a packet read at once, in two and in three readAlls.
MCShapes == {<<1>>, <<1, 3>>, <<1, 1, 2>>}

=============================================================================
