\* A page that is asked to focus a target before its strip has loaded.
SPECIFICATION TabSpec
CONSTANTS
  TabDocs = {da}
  Asked = {2}
  Query = query
  Nothing = nothing
  Written <- ByHand
  MaxTabs = 2
  MaxSent = 1
PROPERTY BootKeepsTabs
