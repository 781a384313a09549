SPECIFICATION Spec
CONSTANTS
  Tabs <- MCTabs
  TAB_INFO = 0
  TAB_MEMORY = 3
  Printable <- MCPrintable
  TabKey <- MCTabKey
  Heights <- MCHeights
  MaxTerm = 2
  Sections <- MCSections
  PageLines = 1
  MaxDetail = 1
  MessageTime = 1
  MaxLines = 2
  MaxErrors = 1
INVARIANT CancelKeepsSearch
