SPECIFICATION Spec
CONSTANTS
  Requests = {r1}
  Items = {i1}
  Users = {"dual", "dg", "peod"}
  AgencyUsers = {"dual"}
  LogisticsUsers = {"dual"}
  DirectorRoles = {"ODPEM_DG", "ODPEM_DIR_PEOD"}
  RoleUsers <- MCRoleUsers
  MaxVersion = 2
INVARIANTS TypeOK ReadsHold NoOrphanItems NoticesAreTrue
PROPERTIES DecisionFinal ItemsSettle ImplementsLifecycle
