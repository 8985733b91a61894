------------------------ MODULE MCProviderDiscovery ------------------------
(* Instances of ProviderDiscovery: any flatrate catalog; with ads TMDb     *)
(* lists nothing, one movie a day, or the same.                            *)
EXTENDS ProviderDiscovery

MCCatalogs ==
  {c \in [Passes -> [Days -> 0..MaxPerDay]] :
     c["ads"] \in {[d \in Days |-> 0], [d \in Days |-> 1], c["flatrate"]}}
=============================================================================
