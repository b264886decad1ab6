SPECIFICATION FairSpec
CONSTANTS
  Ids = {"key", "a"}
  Values = {u, v}
  HotIds = {"key"}
  Deletable = {"a"}
  Size <- Even
  PagesUsed = 3
  Cap = 2
  Failing = {"pageXfer"}
  PartialErases <- ForeseenErases
  Missing = missing
INVARIANTS
  PagesOK
  ReadsAreDurable
PROPERTIES
  ImplementsStore
  BootCompletes
