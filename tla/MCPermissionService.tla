------------------------- MODULE MCPermissionService -------------------------
(***************************************************************************)
(* A small instance of PermissionService: the root, an administrator and a *)
(* member of staff who still holds a code the catalog has dropped.         *)
(***************************************************************************)
EXTENDS PermissionService

CONSTANTS manage, view, edit, dropped

MCCatalog == {manage, view, edit}
MCCodes == MCCatalog \cup {dropped}
MCDependsOn == [c \in MCCatalog |-> IF c = edit THEN {view} ELSE {}]
MCSensitive == {manage, view, edit}

\* 1 is the root, 2 an administrator, 3 staff.
MCSeed == [u \in UserIds |->
              CASE u = 1 -> {manage, view}
                [] u = 2 -> {manage, view, edit}
                [] u = 3 -> {view, dropped}]

\* Sets a client sends: nothing, an action without its page, the administration
\* code, a page with a code the catalog does not know.
MCRequests == {{}, {edit}, {manage, view}, {view, dropped}}
=============================================================================
