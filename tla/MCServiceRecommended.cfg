SPECIFICATION Spec
CONSTANTS
  Children = {1, 2, 3}
  Titles = {"DUNE", "EMMA"}
  NoFull = {"EMMA"}
  Series = {1, 2}
  MaxChanges = 0
  Author = "A"
  Nobody = "nobody"
  Entries <- MCEntries
  Positions = {1, 2}
  PageSize = 2
  MaxPages = 2
  MaxAnswer = 5
  Items <- MCItems
  NoCode = "text"
  MaxItems = 3
  Unused = Unused
INVARIANT RecommendsAll
CHECK_DEADLOCK FALSE
