---------------------------- MODULE MCModemModes ----------------------------
(* Model checking of ModemModes.                                            *)
EXTENDS ModemModes

\* The actions that list, change modes, or reset; and the listings with the
\* one that makes the modem store SMS.
SessionActions == {"sms_all", "enable_sms_storage", "reset"}
ListActions == {"sms_all", "sms_unread", "enable_sms_storage"}
=============================================================================
