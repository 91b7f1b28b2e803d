\* Documents with inline markup: the words after it.
SPECIFICATION RetrievalSpec
CONSTANTS
    MaxWords = 1
    MaxHits = 1
    Inline = TRUE
    StopWords <- MCStopWords
    Letters <- MCLetters
    MaxQueryChars = 20
    Texts <- MCTexts
    ResultLists <- MCResultLists
    Requests <- MCRequests
    Documents <- MCDocuments
    Titles <- MCTitles
INVARIANTS
    TextIsExact
