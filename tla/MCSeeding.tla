----------------------------- MODULE MCSeeding -----------------------------
(***************************************************************************)
(* The instance of Seeding for TLC: s1 and s2 run one release, s3 another, *)
(* which has the two shared templates in the other order, with bodies of   *)
(* its own, and one template more.                                         *)
(***************************************************************************)
EXTENDS Seeding

CONSTANTS s1, s2, s3, a, b, c, old, new

MCRows == [s \in Seeder |-> IF s = s3 THEN <<b, a, c>> ELSE <<a, b>>]
MCContent == [s \in Seeder |-> [t \in Slug |-> IF s = s3 THEN new ELSE old]]
=============================================================================
