-------------------------------- MODULE MCMem -------------------------------
(* Three short ids, two URLs and two users (ann, and the empty user id     *)
(* "anon" that batch rows carry) for MemStorage.                           *)
EXTENDS MemStorage

CONSTANTS p1, p2, i1, i2, i3, u1, u2, ann, anon

R(id, url, user) == [id |-> id, url |-> url, user |-> user]

(* Two single adds of one URL race; a batch overlaps with them, and one    *)
(* batch repeats a URL.                                                    *)
MCBatches == {<<R(i1, u1, ann)>>,
              <<R(i2, u1, anon)>>,
              <<R(i2, u2, anon), R(i3, u1, anon)>>,
              <<R(i3, u2, anon), R(i1, u2, anon)>>}

MCDeleteLists == {<<>>, <<i1>>, <<i2, i1>>}
=============================================================================
