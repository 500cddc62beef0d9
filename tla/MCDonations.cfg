\* Two donations of goods and funds, received at one warehouse, two users.
CONSTANTS
  d1 = d1
  d2 = d2
  food = food
  cash = cash
  w1 = w1
  w2 = w2
  u1 = u1
  u2 = u2
  Donations = {d1, d2}
  Items = {food, cash}
  Goods = {food}
  Warehouses = {w1}
  BatchNos = {"B1"}
  MaxQty = 2
  Users = {u1, u2}
SPECIFICATION Spec
SYMMETRY Symmetry
CHECK_DEADLOCK FALSE
INVARIANTS
  TypeOK
  SessionsCurrent
  StockIsVerifiedIntake
  ProcessedIsReceived
PROPERTIES
  VerifiedIntakeFinal
  VerifiedItemsDrift
