--------------------------- MODULE MCSchemaSetup ---------------------------
(* Two servers, one on the database and one on S3 or both alike; a first   *)
(* start finds nothing, a schema from before the two columns, or one that  *)
(* lacks nothing but an index.                                             *)
EXTENDS SchemaSetup

CONSTANTS s1, s2

MCServers == {s1, s2}
MCConfigs == {[endpoint |-> FALSE, bucket |-> FALSE],
              [endpoint |-> TRUE, bucket |-> TRUE]}

BeforeColumns == Objects \ (Elements(columns) \cup {"bankedPokemon", "pvpRecords"})
MCOldSchemas ==
    {{}, BeforeColumns, Objects \ {"sessionsByUuid", "systemSaveData"}}
=============================================================================
