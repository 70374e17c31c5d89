\* Every front matter of a title and up to three more lines.
SPECIFICATION Spec
CONSTANTS
  Texts <- MCTexts
  Titles <- MCTitles
  Reasons <- MCReasons
  SubKeys <- MCSubKeys
PROPERTIES ReadsBack UnknownKept PolicyKept AddedReads
CHECK_DEADLOCK FALSE
