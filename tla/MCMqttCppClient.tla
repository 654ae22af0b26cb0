-------------------------- MODULE MCMqttCppClient --------------------------
(* Scripts for TLC: those of the repository, and one with two filters. *)
EXTENDS MqttCppClient

CONSTANTS f1, f2

\* Two filters for a table of one, and two messages of QoS 2 for a table of one.
TwoFilters ==
  Opened("connect", 0)
    \o <<StepOn("subscribe", 1, f1), Step("publish", 2), Step("publish", 2),
         StepOn("subscribe", 2, f2), Step("yield", 0), StepOn("unsubscribe", 0, f1)>> \o Closed
MCScripts == {test1, test2, test3, hello, stdoutsub, TwoFilters}
=============================================================================
