------------------------------- MODULE MCSignIn -------------------------------
(***************************************************************************)
(* Instances of SignIn for TLC.                                            *)
(***************************************************************************)
EXTENDS SignIn, TLC

CONSTANTS x1, x2, e1, e2, p1, p2, s1, s2, s3, c1, c2, c3, f1, f2, u1, u2

(* One URL is visited twice by one person; another, once, by the other. *)
MCFlowOf == [c \in Code |-> IF c = c3 THEN f2 ELSE f1]

MCPersonOf == [c \in Code |-> IF c = c3 THEN x2 ELSE x1]

(***************************************************************************)
(* Handlers are alike, and so are rows, addresses, sessions, and the codes *)
(* of one state.                                                           *)
(***************************************************************************)
Symmetry ==
    Permutations({p1, p2}) \cup Permutations({s1, s2}) \cup Permutations({c1, c2})
        \cup Permutations({u1, u2}) \cup Permutations({e1, e2})
=============================================================================
