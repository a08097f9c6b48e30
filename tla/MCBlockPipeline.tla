-------------------------- MODULE MCBlockPipeline --------------------------
(* Instances of BlockPipeline for TLC. *)
EXTENDS BlockPipeline

\* A fresh database, and a monitor that has run before.
Resumed == {NoDoc, 0, 1}
\* A service seeded with height -1, the case monitorNetwork tests for.
Seeded == {Genesis}
=============================================================================
