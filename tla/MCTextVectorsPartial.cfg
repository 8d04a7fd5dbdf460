\* Files and questions of few pieces, with every answer the provider can give.
SPECIFICATION TextSpec
CONSTANTS
    ChunkSize = 4
    ChunkOverlap = 2
    VoyageBatch = 2
    OllamaBatch = 3
    MaxRetries = 3
    MaxText = 5
    MaxLines = 3
    MaxTokens = 4
    MaxRare = 1
CHECK_DEADLOCK FALSE
INVARIANT
    OneEmbeddingPerText
