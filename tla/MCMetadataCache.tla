--------------------------- MODULE MCMetadataCache ---------------------------
(* MetadataCache with four keys in two caches: A needs B, D needs E and    *)
(* then B, and E needs D.                                                  *)
EXTENDS MetadataCache

MCKey == {"A", "B", "D", "E"}
MCCache == {"c1", "c2"}
MCCacheOf == [A |-> "c1", B |-> "c1", D |-> "c1", E |-> "c2"]
MCNeeds == [A |-> <<"B">>, B |-> <<>>, D |-> <<"E", "B">>, E |-> <<"D">>]
==============================================================================
