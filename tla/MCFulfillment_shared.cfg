\* Two requests compete for one batch.
CONSTANTS
  r1 = r1
  r2 = r2
  r3 = r3
  food = food
  water = water
  w1 = w1
  w2 = w2
  b1 = b1
  b2 = b2
  Requests = {r1, r2}
  Items = {food}
  Warehouses = {w1}
  Batches = {b1}
  ItemOf <- AllFood
  WarehouseOf <- AllInW1
  RequestQty <- TwoRequested
  InitialUsable <- TwoOfEach
  Officers = {"lo"}
  Managers = {"lm"}
  FormStatuses = {"U", "P"}
  MaxQty = 2
  Scale = 1
SPECIFICATION Spec
SYMMETRY Symmetry
INVARIANT TypeOK
PROPERTIES
  DispatchNeverUndone
  ReservationDrift
  CoverageDrift
  ImplementsLedger
