SPECIFICATION Spec
CONSTANTS
  Names = {"scenario", "receiver_scenario", "profile"}
  First <- OneSender
  MaxRows = 2
  MaxXhr = 2
  MaxUpset = 1
  PerPage = 1
  None = None
INVARIANTS TypeOK CreatesInModal OwnKind CreatedSelected DetailsMatch
