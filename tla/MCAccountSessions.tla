-------------------------- MODULE MCAccountSessions --------------------------
(***************************************************************************)
(* The root and one member of staff, a save, a worker and two logins.      *)
(***************************************************************************)
EXTENDS AccountSessions, TLC

CONSTANTS manage, force, dropped

MCCatalog == {manage, force}
MCCodes == MCCatalog \cup {dropped}
MCDependsOn == [c \in MCCatalog |-> {}]
MCSeed == [u \in UserIds |-> IF u = Root THEN {manage, force} ELSE {force, dropped}]

MCRequests == {{}, {force}}

MCSymmetry == Permutations(Tokens) \cup Permutations(Logins)
=============================================================================
