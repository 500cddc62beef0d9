------------------------------ MODULE MCRequests ------------------------------
(* One request of one agency. One user holds two directors' roles.          *)
EXTENDS Requests

MCRoleUsers == [role \in DirectorRoles |-> IF role = "ODPEM_DG" THEN {"dg"} ELSE {"dg", "peod"}]
===============================================================================
