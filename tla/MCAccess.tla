------------------------------ MODULE MCAccess ------------------------------
(***************************************************************************)
(* A small instance of Access.  It begins with an empty table, or with two *)
(* administrators, who revoke each other, and an integrator.               *)
(***************************************************************************)
EXTENDS Access

CONSTANTS a1, a2, i1, k1, k2

MCTables == {{}, {a1, a2, i1}}

R(op, actor, target) == [op |-> op, actor |-> actor, target |-> target]

MCRequests ==
    {R("bootstrap", None, a1), R("bootstrap", None, a2), R("create", a1, i1),
     R("revoke", a1, a2), R("revoke", a2, a1)}
=============================================================================
