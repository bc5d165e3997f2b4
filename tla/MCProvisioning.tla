--------------------------- MODULE MCProvisioning ---------------------------
(* The namespaces of the library and one of the application, with a field of *)
(* each kind.  The second firmware declares another type for the first       *)
(* field.                                                                    *)
EXTENDS Provisioning, TLC

I(v) == Val("Int", v)

\* The application's namespace: `first` and what follows, and one nested in it
\* that is never changed.
App(first) ==
    <<register_namespace("radio", 100),
      first,
      field_int("power", 2, {"LIVE_APPLY"}, 1, 1, 2, FALSE),
      metric_int("airtime", 3),
      register_namespace("profile", 101),
      field_float("frequency", 1, {"REBOOT_REQUIRED"}, 915, 100, 1000, TRUE),
      field_enum("mode", 2, {"LIVE_APPLY"}, 1, {1, 2, 3}, TRUE),
      command_int("tune", 3, 1, 9),
      end, end>>

AllApps ==
    <<App(field_int("key", 1, {"REBOOT_REQUIRED", "SECRET"}, 1, 1, 2, TRUE)),
      App(field_string("key", 1, {"REBOOT_REQUIRED", "SECRET"}, 1, 2, TRUE))>>

\* Fields of the application and of the General Config.
Fields ==
    {<<100, 1>>, <<100, 2>>, <<100, 3>>,
     <<NsGeneralConfig.Id, NsGeneralConfig.TransportEnabled>>,
     <<NsGeneralConfig.Id, NsGeneralConfig.PersistInterval>>,
     <<NsGeneralConfig.Id, NsGeneralConfig.ClearStorage>>}

InputValues == {I(1), I(2), I(86400), Val("Bool", 1), Val("String", 2), Val("Void", 0)}

\* Requests that set one field, or two of which the first may not fit, one
\* whose key has more than 16 bits, and commits in an order of the client's.
Requests ==
    {[op |-> "SetState", ns |-> 100, state |-> <<[id |-> 1, x |-> x], [id |-> 2, x |-> I(2)]>>] :
        x \in {I(2), Val("String", 2)}}
    \union {[op |-> "SetState", ns |-> 1,
             state |-> <<[id |-> 5, x |-> I(1)], [id |-> 2^16 + 1, x |-> Val("Bool", 1)]>>]}
    \union {[op |-> "Commit", filter |-> filter] : filter \in {None, <<100>>, <<1, 7, 100>>}}
    \union {[op |-> op, filter |-> <<1>>] : op \in {"Discard", "FactoryReset", "Reboot"}}
=============================================================================
