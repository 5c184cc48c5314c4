\* A member of staff of a club with every module.
SPECIFICATION SidebarSpec
CONSTANTS
  People = {"tom"}
  IsSuperadmin <- NobodySuper
  RoleIn <- OneOfStaff
  ModulesOf <- AllSwitchedOn
  NoOne = NoOne
INVARIANT SidebarOpens
