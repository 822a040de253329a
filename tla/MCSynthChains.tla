--------------------------- MODULE MCSynthChains ---------------------------
(* The generator with its own tables. *)
EXTENDS SynthChains

T == INSTANCE SynthTables

MCNPhases == T!nphases
MCNThreads == T!nthreads
MCNDev == T!ndev
MCDevId == T!devid
MCFirstSize == T!first_size
MCCfg == T!synth_cfg_init
MCAccelerators == T!Devs
MCNodes == 0 .. T!NDDR - 1
MCHops == T!ddr_hops
=============================================================================
