---------------------------- MODULE MCSyncEngine ----------------------------
(* SyncEngine on small instances.                                          *)
EXTENDS SyncEngine
=============================================================================
