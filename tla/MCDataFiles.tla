------------------------------ MODULE MCDataFiles ------------------------------
EXTENDS DataFiles

CONSTANTS etc, db, d1

MCFirstHistories == {<<>>, <<2, 1>>}
MCSeeds == <<2>>
MCFirstConfig ==
    [paths |-> <<etc>>, sqlite |-> <<>>, sources |-> <<>>, destinations |-> <<d1>>,
     schedule |-> 0, exclude |-> 0]
=============================================================================
