------------------------------ MODULE MCRedis -------------------------------
(* Values of the constants of RedisServer for TLC: those of MCIndexing, one *)
(* image and one model version.                                            *)
EXTENDS RedisServer, MCIndexing
=============================================================================
