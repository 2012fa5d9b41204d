----------------------------- MODULE AppStates ------------------------------
(* The table of the application's state machine (main/state_machine.c).    *)

States == {"BOOT", "IDLE", "RECORDING", "FINALIZING", "CONFIRM", "SYNC", "PROVISION", "OTA",
           "SAFE_OFF"}

\* transition_allowed
Transitions ==
  {<<"BOOT", "BOOT_COMPLETE", "IDLE">>, <<"BOOT", "REC_PRESS", "RECORDING">>,
   <<"BOOT", "PROVISION_REQUEST", "PROVISION">>, <<"BOOT", "BATTERY_LOW", "SAFE_OFF">>,
   <<"IDLE", "REC_PRESS", "RECORDING">>, <<"IDLE", "SYNC_REQUEST", "SYNC">>,
   <<"IDLE", "PROVISION_REQUEST", "PROVISION">>, <<"IDLE", "OTA_REQUEST", "OTA">>,
   <<"IDLE", "BATTERY_LOW", "SAFE_OFF">>,
   <<"RECORDING", "REC_RELEASE", "FINALIZING">>, <<"RECORDING", "RECORD_MAX", "FINALIZING">>,
   <<"RECORDING", "ERROR", "FINALIZING">>, <<"RECORDING", "REC_DISCARD", "IDLE">>,
   <<"FINALIZING", "FINALIZE_DONE", "CONFIRM">>, <<"FINALIZING", "ERROR", "IDLE">>,
   <<"CONFIRM", "CONFIRM_DONE", "IDLE">>, <<"CONFIRM", "SYNC_REQUEST", "SYNC">>,
   <<"SYNC", "SYNC_DONE", "IDLE">>, <<"SYNC", "ERROR", "IDLE">>,
   <<"PROVISION", "PROVISION_DONE", "IDLE">>, <<"PROVISION", "ERROR", "IDLE">>,
   <<"OTA", "OTA_DONE", "IDLE">>, <<"OTA", "ERROR", "IDLE">>}
=============================================================================
