\* One request for two items in two warehouses; totals are rounded to pairs of units.
CONSTANTS
  r1 = r1
  r2 = r2
  r3 = r3
  food = food
  water = water
  w1 = w1
  w2 = w2
  b1 = b1
  b2 = b2
  Requests = {r1}
  Items = {food, water}
  Warehouses = {w1, w2}
  Batches = {b1, b2}
  ItemOf <- FoodWater
  WarehouseOf <- Apart
  RequestQty <- TwoRequested
  InitialUsable <- TwoOfEach
  Officers = {"both"}
  Managers = {"both"}
  FormStatuses = {"U"}
  MaxQty = 2
  Scale = 2
SPECIFICATION Spec
INVARIANTS
  RowsBelongToPackage
  EveryRequestOnOneTab
PROPERTIES
  StockBalanceDrift
  TotalsDrift
