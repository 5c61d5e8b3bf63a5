----------------------------- MODULE MCWorkspace -----------------------------
(* Workspace with two plugins: one shows a component when it is rendered   *)
(* and offers another one, one has a lazy and a single component.          *)
EXTENDS Workspace

CONSTANTS search, cluster, nodes, indices, jobs, api, a, b, unlabelled

MCPlugin == {search, cluster}
MCDirect == {nodes, indices}
MCLazy   == {jobs}
MCSingle == {api}
MCPluginOf == [c \in {nodes, indices, jobs, api} |->
                 IF c \in {nodes, indices} THEN search ELSE cluster]
MCDefault == [p \in MCPlugin |-> IF p = search THEN nodes ELSE Nothing]
MCLabel == {a, b, unlabelled}
=============================================================================
