---- MODULE MCBenchSweeper ----
\* A sweeper beside a runner with two reps that is killed and started again.
EXTENDS BenchSweeper, TLC

CONSTANTS j1, j2

Perms == Permutations(Jobs)
====
