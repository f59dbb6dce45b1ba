--------------------------- MODULE MCWebhookGate ---------------------------
EXTENDS WebhookGate

CONSTANTS a, b, proxy

SmallRoutes == {<<a>>, <<proxy>>, <<a, proxy>>, <<a, b, proxy>>, <<b, proxy, proxy>>}
SmallWritten == {<<>>, <<b>>, <<proxy>>}
SmallStray == {NoText, Other} \cup [kind : {"text"}, words : {<<"db">>}, style : {"lower"}]

Called(dialect, source, title, service, label) ==
  [dialect |-> dialect, source |-> source, title |-> title, service |-> service, label |-> label]

(* Two of an Alertmanager, which only their labels tell apart; two that a  *)
(* bar makes one; one that differs from these in nothing but the service;  *)
(* one without a title.                                                    *)
SmallAlerts ==
  {Called("generic", <<>>, <<>>, <<>>, "db"), Called("generic", <<>>, <<>>, <<>>, "cpu"),
   Called("grafana", <<>>, <<"cpu", Bar, "db">>, <<>>, ""),
   Called("explicit", <<"grafana">>, <<"cpu">>, <<"db", Bar>>, ""),
   Called("grafana", <<>>, <<"cpu">>, <<>>, "db"),
   Called("datadog", <<>>, <<>>, <<"db">>, "")}
============================================================================
