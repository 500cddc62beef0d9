SPECIFICATION Spec
CONSTANTS
  Tables = {"event"}
  TwoRows = {}
  Groups = {{"event"}}
  Referrers = {"donation", "reliefrqst"}
  Keys <- MCKeys
  Names <- MCNames
  Statuses <- MCStatuses
  Uses <- MCUses
  Users = {u1, u2}
  MaxVersion <- MCMaxVersion
PROPERTY ReferencedEventStays
