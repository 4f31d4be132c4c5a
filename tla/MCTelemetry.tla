---------------------------- MODULE MCTelemetry ----------------------------
(* The matchers of config_osd.json and some with the tags the README lists, *)
(* and the messages of up to two connections.                               *)
EXTENDS Telemetry

Widgets ==
    {[name |-> "cli.connected", tags |-> NoTags],
     [name |-> "drone.connected", tags |-> NoTags],
     [name |-> "rx", tags |-> IdTag("a")],
     [name |-> "rx_ant", tags |-> NoTags],
     [name |-> "tx", tags |-> NoTags],
     [name |-> "rf_temperature", tags |-> AntTags("a", "1")],
     [name |-> "cli_title", tags |-> NoTags],
     [name |-> "dvr.recording", tags |-> NoTags]}

Rx(id, ants) == [type |-> "rx", id |-> id, ants |-> ants]
Tx(id, ants) == [type |-> "tx", id |-> id, ants |-> ants]
Title == [type |-> "cli_title"]
Other == [type |-> "other"]

Sessions ==
    {[messages |-> <<<<Rx("a", {"1"}), Tx("a", {"1"})>>, <<>>>>, losses |-> 0],
     [messages |-> <<<<Rx("b", {}), Title>>, <<Other>>>>, losses |-> 0],
     [messages |-> <<<<Title>>, <<Rx("a", {"1"}), Rx("", {"2"})>>>>, losses |-> 0],
     [messages |-> <<<<Tx("", {"1"})>>>>, losses |-> 0],
     [messages |-> <<<<Rx("a", {"1"})>>>>, losses |-> 1],
     [messages |-> <<<<Tx("a", {"1"})>>>>, losses |-> 1]}
=============================================================================
