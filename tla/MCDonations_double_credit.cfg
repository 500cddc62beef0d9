\* One donation of goods and funds, two warehouses.
CONSTANTS
  d1 = d1
  d2 = d2
  food = food
  cash = cash
  w1 = w1
  w2 = w2
  u1 = u1
  u2 = u2
  Donations = {d1}
  Items = {food, cash}
  Goods = {food}
  Warehouses = {w1, w2}
  BatchNos = {"B1", "B2"}
  MaxQty = 2
  Users = {u1, u2}
SPECIFICATION Spec
CHECK_DEADLOCK FALSE
PROPERTY OnlyVerifiedIntaken
