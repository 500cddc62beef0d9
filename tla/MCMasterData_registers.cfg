SPECIFICATION Spec
CONSTANTS
  Tables = {"donor", "custodian", "warehouse", "beneficiary"}
  TwoRows = {"donor", "warehouse"}
  Groups = {{"donor"}, {"custodian", "warehouse", "beneficiary"}}
  Referrers = {"donation", "inventory", "user_warehouse"}
  Keys <- MCKeys
  Names <- MCNames
  Statuses <- MCStatuses
  Uses <- MCUses
  Users = {u1, u2}
  MaxVersion <- MCMaxVersion
CONSTRAINT OneGroup
INVARIANT ReferencesExist
PROPERTY NameClashNeedsRace
