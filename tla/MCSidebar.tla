------------------------------ MODULE MCSidebar ------------------------------
(* The routes alone: staff of a club with every module, from the login page.  *)
EXTENDS Router

OneOfStaff == [p \in People |-> [k \in {"k1"} |-> "staff"]]
NobodySuper == [p \in People |-> FALSE]
AllSwitchedOn == [k \in {"k1"} |-> {"golf", "finance", "pos", "communications"}]
FromLogin == nav.club = NoOne /\ nav.at = Login /\ nav.who = NoOne
SidebarSpec == RouterInit /\ FromLogin /\ [][RouterNext]_nav
=============================================================================
