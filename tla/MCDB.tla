-------------------------------- MODULE MCDB --------------------------------
(* Two callers and a pool of two connections; ids collide: i1 is generated *)
(* for u1 and for u2.                                                      *)
EXTENDS DBStorage

CONSTANTS p1, p2, i1, i2, u1, u2, ann, anon

R(id, url, user) == [id |-> id, url |-> url, user |-> user]

MCBatches == {<<R(i1, u1, ann)>>,
              <<R(i2, u1, ann)>>,
              <<R(i1, u2, anon), R(i2, u1, anon)>>,
              <<R(i1, u2, anon), R(i2, u2, anon)>>}

MCDeleteLists == {<<>>, <<i2, i1>>}
=============================================================================
