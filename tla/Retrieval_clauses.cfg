\* Clauses of up to three words, up to three hits, documents without inline markup.
SPECIFICATION RetrievalSpec
CONSTANTS
    MaxWords = 3
    MaxHits = 3
    Inline = FALSE
    StopWords <- MCStopWords
    Letters <- MCLetters
    MaxQueryChars = 20
    Texts <- MCTexts
    ResultLists <- MCResultLists
    Requests <- MCRequests
    Documents <- MCDocuments
    Titles <- MCTitles
INVARIANTS
    RetrievalTypeOK
    QueryIsFaithful
    TextIsExact
PROPERTIES
    HintNeverCosts
