-------------------------- MODULE MCCustomResources --------------------------
(***************************************************************************)
(* Instances of CustomResources for TLC.                                   *)
(***************************************************************************)
EXTENDS CustomResources, TLC

\* "legal" says by hand what the source should think of the endpoint.
Endpoint(type, targets, legal) ==
  [type |-> type, targets |-> targets, resource |-> "", legal |-> legal]

Dotted == <<"host", TRUE>>
Plain == <<"host", FALSE>>

MCSpecs ==
  {{Endpoint("A", <<Plain>>, TRUE), Endpoint("CNAME", <<>>, FALSE), Endpoint("NAPTR", <<Plain>>, FALSE)},
   {Endpoint("CNAME", <<Plain, Dotted>>, FALSE), Endpoint("NAPTR", <<Dotted>>, TRUE),
    Endpoint("TXT", <<>>, TRUE)}}
=============================================================================
