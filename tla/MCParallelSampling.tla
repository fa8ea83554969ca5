---- MODULE MCParallelSampling ----
EXTENDS ParallelSampling
====
