---------------------------- MODULE MCIngestion ----------------------------
(***************************************************************************)
(* Ingestion on small instances: the deployment the chart ships and the    *)
(* three ways to configure another one.                                    *)
(***************************************************************************)
EXTENDS Ingestion, TLC

Setting(c, a, e) == [chunker |-> c, analyzer |-> a, embedder |-> e]

ShippedBackends == {Setting("hybrid", "openai", "openai")}

AllBackends ==
    ShippedBackends \cup
    {Setting("hybrid", "none", "local"),
     Setting("fixed_size", "none", "local"),
     Setting("hybrid", "openai", "fake")}

PipelineSymmetry == Permutations(Run) \cup Permutations(RequestId)

=============================================================================
