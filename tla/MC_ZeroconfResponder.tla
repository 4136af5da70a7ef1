------------------------- MODULE MC_ZeroconfResponder -------------------------
(* Model-checking instance of ZeroconfResponder: three services, three    *)
(* changes of the announced set, and room for every worker those changes *)
(* can spawn, so that the bound never blocks update_services. In the     *)
(* zeroconf run `new` rejects s3, so an update that visits s3 fails; the *)
(* dangling-entry run keeps every service encodable.                     *)
EXTENDS ZeroconfResponder

CONSTANTS s1, s2, s3

MCService == {s1, s2, s3}
MCUnencodable == {s3}
MCMaxWorkers == MaxChanges * Cardinality(MCService)
=============================================================================
