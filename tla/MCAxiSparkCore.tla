--------------------------- MODULE MCAxiSparkCore ---------------------------
(* The bootstrap on three plugins, with the graphs of MCPluginRegistry.     *)
EXTENDS AxiSparkCore

Declares(req, opt) == [p \in Plugin |-> [required |-> req[p], optional |-> opt[p]]]
NoDeps == [p \in Plugin |-> {}]

\* Every graph of required dependencies, cycles and self-dependencies included.
RequiredGraphs == {Declares(req, NoDeps) : req \in [Plugin -> SUBSET Plugin]}

\* One plugin has optional dependencies only, the others required ones.
MixedGraphs ==
    {Declares([req EXCEPT ![p] = {}], [NoDeps EXCEPT ![p] = req[p]]) :
        req \in {f \in [Plugin -> SUBSET Plugin] : \A q \in Plugin : q \notin f[q]},
        p \in Plugin}

MCGraphs == RequiredGraphs \cup MixedGraphs
=============================================================================
