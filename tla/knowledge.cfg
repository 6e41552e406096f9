\* Five files over two documents and a default document: one file with two
\* documents, one that names a document twice, one with a malformed element,
\* and two files with the same key.
CONSTANTS
  a = a
  b = b
  d1 = d1
  d2 = d2
  d3 = d3
  Malformed = Malformed
  WordsOf <- MCWordsOf
  Words <- MCWords
  Files <- MCFiles
  DefaultDocs <- MCDefaults
  MaxFailures = 3
SPECIFICATION KbSpec
INVARIANTS KbTypeOK StoredIsIndexed KeywordSearchIsExact KnownFileIsStored
