------------------------------- MODULE MCFile -------------------------------
(* Three short ids, three URLs of which one is over-long, two users.       *)
EXTENDS FileStorage

CONSTANTS i1, i2, i3, u1, u2, long, ann, anon

R(id, url, user) == [id |-> id, url |-> url, user |-> user]

(* Single adds of one URL under two ids, a batch that overlaps with them,  *)
(* a batch that repeats a URL and a URL whose record load cannot read.     *)
MCBatches == {<<R(i1, u1, ann)>>,
              <<R(i2, u1, ann)>>,
              <<R(i2, u2, anon), R(i3, u1, anon)>>,
              <<R(i1, u2, anon), R(i3, u2, anon)>>,
              <<R(i3, long, ann)>>}

MCDeleteLists == {<<i1>>, <<i2, i1>>}
=============================================================================
