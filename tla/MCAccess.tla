------------------------------ MODULE MCAccess ------------------------------
(***************************************************************************)
(* Instances of Access and Projects for TLC.  The two share no variable, so *)
(* a behaviour takes the steps of one of them, its focus, and the other     *)
(* stays as it begins: the same states of each are reached, not their       *)
(* product.                                                                 *)
(***************************************************************************)
EXTENDS Access, Projects, TLC

CONSTANTS a, b, c1, g1, g2, p1, p2, p3, q1, q2

ThreeUsers == {a, b, c1}
OneBulk == {<<c1, b>>}
TwoCallers == {g1, g2}
ThreePeople == {p1, p2, p3}
TwoRequests == {q1, q2}

VARIABLE focus
mcVars == <<accessVars, projectVars, focus>>

\* a and b administer the system and a may be its system account; c1 may exist.
Init ==
    /\ focus \in {"users", "projects"}
    /\ AccessInit({a, b}, a)
    /\ ProjectsInit
    /\ focus = "projects" => ~user[a].sys /\ user[c1] = NoRow

Next ==
    \/ focus = "users" /\ AccessNext /\ UNCHANGED <<projectVars, focus>>
    \/ focus = "projects" /\ ProjectsNext /\ UNCHANGED <<accessVars, focus>>

Spec == Init /\ [][Next]_mcVars

\* Callers and requests are alike, and so are the people who are not Root.
Symmetry == Permutations(TwoCallers) \union Permutations(TwoRequests) \union Permutations({p2, p3})
=============================================================================
