---- MODULE MCCompressPipeline ----
EXTENDS CompressPipeline, TLC
CONSTANTS e1, e2
\* Two executors: one can lag behind while the other one is used.
MCExecutors == {e1, e2}
\* Four halves to two, so both forms of Return happen.
MCBatchSizes == {2, 4}
====
