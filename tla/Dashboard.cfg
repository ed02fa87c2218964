\* Two full pages, a table and a channel that overflow.
CONSTANTS
  PageSize = 2
  MaxRows = 4
  RecentRows = 1
  TableRows = 2
  Cap = 2
SPECIFICATION DashSpec
INVARIANTS PagesMissNothing NoEmptyPage DashboardIsRight
