\* A window of the browser, restarted and reloaded, with a report and a plain page.
CONSTANTS
  Window = {w1}
  PageType = {"income-statement", "journal"}
  Created = {"n1"}
  Day <- MCDay
  Picked <- MCPicked
  EndMonth = 6
  MaxApplied = 1
SPECIFICATION TabsSpec
INVARIANTS
  TabsSound
  
  PeriodsInOrder
