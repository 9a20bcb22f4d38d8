SPECIFICATION FairSpec
CONSTANTS
  v1 = v1
  o1 = o1
  o2 = o2
  f1 = f1
  f2 = f2
  d1 = d1
  q1 = q1
  Absent = Absent
  Nothing = Nothing
  Pages <- MCPages
  Orgs <- MCOrgs
  Offices <- MCOffices
  Floors <- MCFloors
  Dates <- MCDates
  Filters <- MCFilters
  Writes <- MCWrites
  MaxWrites = 1
  MaxOthers = 1
  MaxActs = 3
INVARIANTS TypeOK SettledShowsScope RefreshIsFresh OwnWriteDropsLists
PROPERTIES StopsLoading
CHECK_DEADLOCK FALSE
