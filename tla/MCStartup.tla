------------------------------ MODULE MCStartup ------------------------------
(***************************************************************************)
(* Instances of Startup for TLC.                                           *)
(***************************************************************************)
EXTENDS Startup, TLC

Source(name) == [name |-> name, labels |-> TRUE, template |-> TRUE]
Sync(address, sources) == [address |-> address, sources |-> sources]

\* The configuration the program falls back on.
MCDefault == [inmemory |-> Sync("", <<Source("node"), Source("istio-se")>>)]

\* Two syncs that share clients, one with everything that can be wrong, and one
\* whose address does not parse.
MCConfigurations ==
  {[a |-> Sync("http", <<Source("ingress"), Source("gateway")>>),
    b |-> Sync("", <<Source("mesh-service"), Source("istio-gateway"), Source("pod")>>)],
   [c |-> Sync("http", <<[Source("ingress") EXCEPT !.template = FALSE],
                         [Source("k8s") EXCEPT !.labels = FALSE],
                         Source("crd"), Source("unknown"), Source("connector")>>)],
   [d |-> Sync("%", <<Source("node")>>)]}

Answer(status) == [status |-> status, decodes |-> TRUE, contentType |-> TRUE]
MCAnswers ==
  {Answer(200), Answer(404), [Answer(503) EXCEPT !.decodes = FALSE], Answer(0), Answer(-1),
   [Answer(200) EXCEPT !.contentType = FALSE]}
=============================================================================
