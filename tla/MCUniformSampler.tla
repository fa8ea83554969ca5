---- MODULE MCUniformSampler ----
EXTENDS UniformSampler
====
