\* Three requests for one unit each of a batch that holds two.
CONSTANTS
  r1 = r1
  r2 = r2
  r3 = r3
  food = food
  water = water
  w1 = w1
  w2 = w2
  b1 = b1
  b2 = b2
  Requests = {r1, r2, r3}
  Items = {food}
  Warehouses = {w1}
  Batches = {b1}
  ItemOf <- AllFood
  WarehouseOf <- AllInW1
  RequestQty <- OneRequested
  InitialUsable <- TwoOfEach
  Officers = {"lo"}
  Managers = {"lm"}
  FormStatuses = {"U"}
  MaxQty = 1
  Scale = 1
SPECIFICATION Spec
INVARIANT NoDoubleAllocation
