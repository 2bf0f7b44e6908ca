---------------------------- MODULE MCComponents ---------------------------
(***************************************************************************)
(* One or two of everything the components of the module Components handle.*)
(***************************************************************************)
EXTENDS Components, TLC

CONSTANTS
  f1, f2, i1, m1, m2, m3, n1, n2, p1, q1, q2, r1, r2, r3, s1, s2, t1, t2,
  t3, w1, w2

MCContent == r1 :> "x" @@ r2 :> "x" @@ r3 :> "y"
MCFirstTeam == <<m1, m2>>
MCTeams == {<<m1, m2>>, <<m2, m3, m1>>, <<>>}
=============================================================================
