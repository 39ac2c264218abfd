-------------------------- MODULE MCPluginRegistry --------------------------
(* PluginRegistry on three plugins: every graph of required dependencies,  *)
(* cyclic ones and self-dependencies included, and every graph in which    *)
(* one plugin has optional dependencies only.                              *)
EXTENDS PluginRegistry, TLC

Declares(req, opt) == [p \in Plugin |-> [required |-> req[p], optional |-> opt[p]]]
NoDeps == [p \in Plugin |-> {}]

RequiredGraphs == {Declares(req, NoDeps) : req \in [Plugin -> SUBSET Plugin]}

MixedGraphs ==
    {Declares([req EXCEPT ![p] = {}], [NoDeps EXCEPT ![p] = req[p]]) :
        req \in {f \in [Plugin -> SUBSET Plugin] : \A q \in Plugin : q \notin f[q]},
        p \in Plugin}

MCGraphs == RequiredGraphs \cup MixedGraphs

PluginSymmetry == Permutations(Plugin)
=============================================================================
