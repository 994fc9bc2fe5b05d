------------------------------ MODULE MCLiveAudit ------------------------------
(* A small repository for LiveAudit: a tree, 11, and a commit of it, 12.    *)
EXTENDS LiveAudit, TLC

Objects2 == 11..12
Links2 == [h \in Objects2 |-> IF h = 12 THEN <<11>> ELSE << >>]
MCPackId == 1..2
Whole2 == [h \in Objects2 |-> {}]    \* a tree is never the base of a commit, nor the other way
BranchNames == Permutations(Branch)
=============================================================================
