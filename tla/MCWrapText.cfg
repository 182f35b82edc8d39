SPECIFICATION FairSpec
CONSTANTS
  Space = space
  narrow = narrow
  wide = wide
  Texts <- MCTexts
  Pen <- MCPen
  MaxWidths <- MCMaxWidths
INVARIANTS WrapInv LinesAreTheText LinesFitButForASpace WordsAreCutOnlyWhenTheyMust LinesAreFilled
PROPERTY Terminates
CHECK_DEADLOCK FALSE
