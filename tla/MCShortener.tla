----------------------------- MODULE MCShortener -----------------------------
(* One handler goroutine of each server, two users, two ids; p1 is u1 with *)
(* spaces around it.                                                       *)
EXTENDS Shortener

CONSTANTS i1, i2, u1, p1, blank, ann, bob, h1, g1

MCTrim == [text \in Texts |-> IF text = p1 THEN u1 ELSE IF text = blank THEN Empty ELSE text]

(* One untrimmed URL twice in a batch, and an empty one. *)
MCTextLists == {<<p1, p1>>, <<p1, Empty>>}

MCDeleteLists == {<<>>, <<i1, i2>>}
=============================================================================
