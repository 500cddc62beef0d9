SPECIFICATION Spec
CONSTANTS
  Batches = {1, 2, 3}
  Warehouses = {"w1", "w2"}
  inventory_id <- MCInventory
  ItemBatch <- MCItemBatch
  Allocations <- MCAllocations
  Today = 2
  MaxDate = 3
  MaxQty = 3
INVARIANTS
  TypeOK AllocationFollowsRule ShortageIsReal AllocationAddsUp OffersAreAccepted
   DrawerFollowsRule GroupsFollowRule
CHECK_DEADLOCK FALSE
