------------------------------- MODULE Actions -------------------------------
(***************************************************************************)
(* The actions of the Telegram menu: their commands and parent menus.      *)
(***************************************************************************)

\* The commands of each action: CMGF_text is +CMGF=1, CNMI_push +CNMI=2,2,0,0,0,
\* CNMI_store +CNMI=2,1,0,0,0; the others are queries, listings and +RESET.
actionsByID ==
  [ status_summary     |-> <<"CPIN", "CSQ", "CREG", "CEREG", "COPS", "CFUN">>,
    signal             |-> <<"CSQ">>,
    registration       |-> <<"CREG", "CEREG">>,
    operator           |-> <<"COPS">>,
    sim                |-> <<"CPIN", "CCID">>,
    module             |-> <<"CGMI", "CGMM", "CGMR", "CGSN">>,
    sms_unread         |-> <<"CMGF_text", "CMGL_unread">>,
    sms_all            |-> <<"CMGF_text", "CMGL_all">>,
    sms_storage        |-> <<"CPMS">>,
    enable_sms_storage |-> <<"CMGF_text", "CNMI_store">>,
    function_mode      |-> <<"CFUN">>,
    enable_sms_push    |-> <<"CMGF_text", "CNMI_push">>,
    reset              |-> <<"RESET">> ]

\* Mutation: the reset leads back to the status menu.
parentWrong(id) ==
  CASE id \in {"status_summary", "signal", "registration", "operator", "sim", "module",
               "reset"} -> "status"
    [] id \in {"sms_unread", "sms_all", "sms_storage", "enable_sms_storage"} -> "sms"
    [] id \in {"function_mode", "enable_sms_push"} -> "device"

\* The actions of actionsByID and their parents.
parent(id) ==
  CASE id \in {"status_summary", "signal", "registration", "operator", "sim", "module"} -> "status"
    [] id \in {"sms_unread", "sms_all", "sms_storage", "enable_sms_storage"} -> "sms"
    [] id \in {"function_mode", "enable_sms_push", "reset"} -> "device"
=============================================================================
