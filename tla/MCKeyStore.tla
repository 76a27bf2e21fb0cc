------------------------------ MODULE MCKeyStore ------------------------------
(* Two-byte seeds in a store that is opened twice, and two backups. *)
EXTENDS KeyStore

MCSymmetry == Permutations(Ids)
MCDrawn == {<<5, 9>>, <<12, 7>>}
MCImported == {<<0, 0>>, <<3>>}
MCPlaintexts == {<<7>>}
MCParams == {<<1, 2>>, <<2, 3>>, <<3, 3>>, <<3, 2>>}
MCCoefficient(draw, b, d) == (7 * draw + 3 * b + 5 * d) % 16
==============================================================================
