SPECIFICATION Spec
CONSTANTS
  e1 = e1  c1 = c1  c2 = c2  c3 = c3
  b1 = b1  b2 = b2  u1 = u1  u2 = u2
  None = None
  Calls = {e1, c1, c2, c3}
  Earlier = {e1}
  Businesses = {b1, b2}
  Users = {u1, u2}
  Members <- MCMembers
  Offered = {"create_section", "create_item", "update_item", "menu"}
  Stock = {1}
  Prices <- MCPrices
SYMMETRY MCSymmetry
INVARIANTS
  PositionsDense
  SectionsInOrder
  MenuComplete
PROPERTY
  PatchesMerge
