\* Every text of a document, every Ruby program and Clojure text within the
\* bounds, with every answer Voyage or Ollama can give; questions with searches
\* that return at most two rows, a prompt of at most four runes, a channel of
\* two tokens and a connection that holds one event.
SPECIFICATION Spec
CONSTANTS
    ChunkSize = 4
    ChunkOverlap = 2
    VoyageBatch = 2
    OllamaBatch = 3
    MaxRetries = 3
    MaxText = 11
    MaxLines = 6
    MaxTokens = 7
    MaxRare = 1
    d1 = d1
    d2 = d2
    d3 = d3
    f = f
    g = g
    h = h
    Docs = {d1, d2, d3}
    Nodes = {f, g, h}
    Graphs <- MCGraphs
    Depths = {0, 1, 2}
    Orders <- MCOrders
    TopK = 2
    MaxRank = 3
    Size <- MCSize
    MaxRunes = 4
    TokenCapacity = 2
    WireCapacity = 1
    MaxEvents = 4
    Answers <- MCAnswers
\* A request comes to its end.
CHECK_DEADLOCK FALSE
INVARIANTS
    TextTypeOK
    RetrievalTypeOK
    StreamTypeOK
    PassagesWhole
    RubyExact
    RubyNodesNest
    
    ClojureFormsApart
    VectorsAligned
    CancelStops
    DoneHasVectors
    AgreementWins
    SourcesShareTop
    ExpansionIsSound
    ContextFits
    PrintedInOrder
    AnsweredIsComplete
PROPERTIES
    EmbedReturns
    NothingLeftBlocked
