CONSTANTS
  Sources = 2
  Ids = {1, 2}
SPECIFICATION Spec
INVARIANTS TypeOK PagesComplete PagesOnce
PROPERTIES PagingEnds
