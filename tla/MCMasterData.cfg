SPECIFICATION Spec
CONSTANTS
  Tables = {"warehouse", "agency", "event", "item", "itemcatg", "unitofmeasure"}
  TwoRows = {"unitofmeasure"}
  Groups = {{"warehouse", "agency", "event"}, {"item", "itemcatg", "unitofmeasure"}}
  Referrers = {"donation", "reliefrqst", "stock", "donation_item"}
  Keys <- MCKeys
  Names <- MCNames
  Statuses <- MCStatuses
  Uses <- MCUses
  Users = {u1, u2}
  MaxVersion <- MCMaxVersion
SYMMETRY Symmetry
CONSTRAINT OneGroup
INVARIANTS TypeOK SeenIsCurrent ReferencesExist
PROPERTY ClosedEventFinal
