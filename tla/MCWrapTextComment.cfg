SPECIFICATION Spec
CONSTANTS
  Space = space
  narrow = narrow
  wide = wide
  Texts <- MCTexts
  Pen <- MCPen
  MaxWidths <- MCMaxWidths
INVARIANT LinesFit
CHECK_DEADLOCK FALSE
