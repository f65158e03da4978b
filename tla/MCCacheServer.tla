--------------------------- MODULE MCCacheServer ---------------------------
EXTENDS CacheServer

AnyFault == AllFaults
=============================================================================
