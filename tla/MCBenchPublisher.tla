---- MODULE MCBenchPublisher ----
\* A publisher beside a runner with two reps that is killed and started again.
EXTENDS BenchPublisher, TLC

CONSTANTS j1, j2

Perms == Permutations(Jobs)
====
