---------------------------- MODULE MCFileCache -----------------------------
(* Instances of FileCache for TLC. *)
EXTENDS FileCache, TLC

CONSTANTS k1, k2, d1, p1, p2

\* Both keys in one shard, or one key alone.
SharedShard == [k \in {k1, k2} |-> d1]
OneKey == [k \in {k1} |-> d1]

Workers == Permutations(Procs)

NoTtls == {}
OneSecond == {1}
ZeroSeconds == {0}
=============================================================================
