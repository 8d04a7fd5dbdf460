\* No hop, one, or two.
SPECIFICATION RetrievalSpec
CONSTANTS
    d1 = d1
    d2 = d2
    d3 = d3
    f = f
    g = g
    h = h
    Docs = {d1, d2, d3}
    Nodes = {f, g, h}
    Graphs <- MCGraphs
    Depths = {0, 1, 2}
    Orders <- MCOrders
    TopK = 2
    MaxRank = 3
    Size <- MCSize
    MaxRunes = 4
INVARIANT
    ExpansionWithinDepth
\* A query is answered once.
CHECK_DEADLOCK FALSE
