------------------------------ MODULE Telemetry ------------------------------
(***************************************************************************)
(* The statistics client of wfbcli.cpp, the facts it publishes (OsdFacts)  *)
(* and what main does to both: the clear on a lost stream, the signal, the *)
(* join and OsdService::stop(), which the DVR worker may outlive.          *)
(*                                                                         *)
(* The client reads length-prefixed messages from a TCP stream.  The       *)
(* stream is a sequence of bytes <<message, position>>; a prefix has       *)
(* PREFIX of them (4 in the code), a body BODY.                            *)
(***************************************************************************)
EXTENDS OsdFacts, SequencesExt

CONSTANTS Scripts,        \* what happens: the messages of every connection, in
                          \* turn, and how often the video stream is lost
          MaxDvrFacts

(* A message of a link names it and its antennas.                          *)
Messages ==
    {m \in [type : {"rx", "tx"}, id : STRING, ants : SUBSET STRING] : IsFiniteSet(m.ants)}
    \cup [type : STRING \ {"rx", "tx"}]

ASSUME TelemetryAssumption ==
    /\ {"wfb", "main", "dvr"} \subseteq Publishers
    /\ \A s \in Scripts : s.messages \in Seq(Seq(Messages)) /\ s.losses \in Nat
    /\ MaxDvrFacts \in Nat

VARIABLES script,         \* what the server sends in this behaviour
          wfb,            \* where the client thread is
          cli_connected,
          seen_rx_ids, seen_rx_ant_ids, seen_tx_ids, seen_tx_ant_ids,
          wire,           \* bytes the server has sent and the client not read
          closed,         \* the server has closed the connection
          msgs,           \* the messages sent on this connection
          conns,          \* connections so far
          msg_length, data,
          short,          \* a prefix of this connection was read in part
          taken,          \* the messages processed on this connection
          clearing,       \* per thread, where its clear_osd_wfbcli() is
          main,           \* where main is
          lost,           \* streams lost so far
          dvrFacts,       \* facts of the DVR worker so far
          signal, alive,
          raced           \* main's clear has met a message being processed

seen == <<seen_rx_ids, seen_rx_ant_ids, seen_tx_ids, seen_tx_ant_ids>>
socket == <<script, wire, closed, msgs, conns, msg_length, data, short, taken>>
others == <<main, lost, dvrFacts, signal, alive>>
vars == <<service, wfb, cli_connected, seen, socket, clearing, others, raced>>

PREFIX == 2
BODY == 2

NotClearing == [at |-> "none", done |-> {}]

Init ==
    /\ ServiceInit
    /\ script \in Scripts
    /\ wfb = "top" /\ cli_connected = FALSE
    /\ seen_rx_ids = {} /\ seen_rx_ant_ids = {} /\ seen_tx_ids = {} /\ seen_tx_ant_ids = {}
    /\ wire = <<>> /\ closed = TRUE /\ msgs = <<>> /\ conns = 0
    /\ msg_length = 0 /\ data = <<>> /\ short = FALSE /\ taken = <<>>
    /\ clearing = [t \in {"wfb", "main"} |-> NotClearing]
    /\ main = "loop" /\ lost = 0 /\ dvrFacts = 0 /\ signal = FALSE /\ alive = TRUE
    /\ raced = FALSE

Free(t) == pub[t].at = "idle" /\ clearing[t].at = "none"

-----------------------------------------------------------------------------
(* The server. *)

Bytes(i) == [j \in 1 .. PREFIX + BODY |-> <<i, j>>]

ServerSends ==
    /\ ~closed /\ Len(msgs) < Len(script.messages[conns]) /\ Len(wire) < PREFIX
    /\ msgs' = Append(msgs, script.messages[conns][Len(msgs) + 1])
    /\ wire' = wire \o Bytes(Len(msgs) + 1)
    /\ UNCHANGED <<service, script, wfb, cli_connected, seen, closed, conns, msg_length, data,
                   short, taken, clearing, others>>

(* The connection ends, or recv() fails. *)
ServerCloses ==
    /\ ~closed /\ closed' = TRUE
    /\ UNCHANGED <<service, wfb, cli_connected, seen, script, wire, msgs, conns, msg_length,
                   data, short, taken, clearing, others>>

-----------------------------------------------------------------------------
(* clear_osd_wfbcli(), by the client thread or by main.  The sets it walks *)
(* are not locked: an element another thread inserts meanwhile may or may  *)
(* not be met.  A link without an id, whose message had none, publishes no *)
(* clears: clear_wfbcli_rx_link_facts() and its twin return at once.       *)

Clears(name, tags) == Fact(name, tags, "undef")

clear_wfbcli_rx_link_facts(id) ==
    <<Clears("rx", IdTag(id))>> \o
    SetToSeq({Clears("rx_ant", AntTags(id, a)) : a \in seen_rx_ant_ids})

clear_wfbcli_tx_link_facts(id) ==
    <<Clears("tx", IdTag(id))>> \o
    SetToSeq({Clears("rf_temperature", AntTags(id, a)) : a \in seen_tx_ant_ids})

clear_wfbcli_cli_header_facts == <<Clears("cli_title", NoTags)>>

Walk(t, at, done) == clearing' = [clearing EXCEPT ![t] = [at |-> at, done |-> done]]

(* Altered: the antennas are forgotten when the walk begins. *)
ForgetAntsFirst(t) ==
    \E id \in seen_rx_ids \ clearing[t].done :
        /\ clearing[t].at = "rx" /\ pub[t].at = "idle"
        /\ IF id = "" THEN UNCHANGED pub ELSE publish(t, <<Clears("rx", IdTag(id))>>)
        /\ Walk(t, "rx", clearing[t].done \cup {id})
        /\ UNCHANGED <<instance, locked, stop_, fact_queue, osd, shown, wfb, cli_connected,
                       seen, socket, others>>

ClearRxId(t) ==
    \E id \in seen_rx_ids \ clearing[t].done :
        /\ clearing[t].at = "rx" /\ pub[t].at = "idle"
        /\ IF id = "" THEN UNCHANGED pub ELSE publish(t, clear_wfbcli_rx_link_facts(id))
        /\ Walk(t, "rx", clearing[t].done \cup {id})
        /\ UNCHANGED <<instance, locked, stop_, fact_queue, osd, shown, wfb, cli_connected,
                       seen, socket, others>>

ForgetRx(t) ==
    /\ clearing[t].at = "rx" /\ pub[t].at = "idle" /\ seen_rx_ids \subseteq clearing[t].done
    /\ seen_rx_ids' = {} /\ seen_rx_ant_ids' = {}
    /\ Walk(t, "tx", {})
    /\ UNCHANGED <<service, wfb, cli_connected, seen_tx_ids, seen_tx_ant_ids, socket, others>>

ClearTxId(t) ==
    \E id \in seen_tx_ids \ clearing[t].done :
        /\ clearing[t].at = "tx" /\ pub[t].at = "idle"
        /\ IF id = "" THEN UNCHANGED pub ELSE publish(t, clear_wfbcli_tx_link_facts(id))
        /\ Walk(t, "tx", clearing[t].done \cup {id})
        /\ UNCHANGED <<instance, locked, stop_, fact_queue, osd, shown, wfb, cli_connected,
                       seen, socket, others>>

ForgetTx(t) ==
    /\ clearing[t].at = "tx" /\ pub[t].at = "idle" /\ seen_tx_ids \subseteq clearing[t].done
    /\ seen_tx_ids' = {} /\ seen_tx_ant_ids' = {}
    /\ publish(t, clear_wfbcli_cli_header_facts)
    /\ Walk(t, "none", {})
    /\ UNCHANGED <<instance, locked, stop_, fact_queue, osd, shown, wfb, cli_connected,
                   seen_rx_ids, seen_rx_ant_ids, socket, others>>

clear_osd_wfbcli(t) == ClearRxId(t) \/ ForgetRx(t) \/ ClearTxId(t) \/ ForgetTx(t)

-----------------------------------------------------------------------------
(* The client thread. *)

Go(pc) == wfb' = pc

(* __WFB_CLI_THREAD__, before every connection. *)
Disconnected ==
    /\ wfb = "top" /\ Free("wfb")
    /\ IF signal THEN Go("done") /\ UNCHANGED pub
       ELSE /\ Go("connect")
            /\ publish("wfb", <<Fact("cli.connected", NoTags, "false"),
                                Fact("drone.connected", NoTags, "false")>>)
    /\ UNCHANGED <<instance, locked, stop_, fact_queue, osd, shown, cli_connected, seen,
                   socket, clearing, others>>

Connects ==
    /\ wfb = "connect" /\ Free("wfb") /\ ~signal /\ conns < Len(script.messages)
    /\ conns' = conns + 1
    /\ closed' = FALSE /\ wire' = <<>> /\ msgs' = <<>> /\ short' = FALSE /\ taken' = <<>>
    /\ msg_length' = 0 /\ data' = <<>>
    /\ publish("wfb", <<Fact("cli.connected", NoTags, "true")>>)
    /\ cli_connected' = TRUE
    /\ Go("prefix")
    /\ UNCHANGED <<instance, locked, stop_, fact_queue, osd, shown, seen, script, clearing, others>>

ConnectFails ==
    /\ wfb = "connect" /\ Free("wfb") /\ ~signal
    /\ IF cli_connected THEN Go("cleared") /\ Walk("wfb", "rx", {})
                        ELSE Go("retry") /\ UNCHANGED clearing
    /\ UNCHANGED <<service, cli_connected, seen, socket, others>>

AfterClear ==
    /\ wfb = "cleared" /\ Free("wfb")
    /\ cli_connected' = FALSE
    /\ Go("retry")
    /\ UNCHANGED <<service, seen, socket, clearing, others>>

Retries ==
    /\ wfb = "retry"
    /\ Go("connect")
    /\ UNCHANGED <<service, cli_connected, seen, socket, clearing, others>>

(* reconnect_to_server() returns -1, and no connection is handled. *)
GivesUp ==
    /\ wfb = "connect" /\ Free("wfb") /\ signal
    /\ Go("top")
    /\ UNCHANGED <<service, cli_connected, seen, socket, clearing, others>>

(* handle_server_connection().  The signal is tested before every message, *)
(* and a recv() that blocks does not see it.                               *)
Leaves ==
    /\ wfb = "prefix" /\ Free("wfb") /\ signal
    /\ Go("top")
    /\ UNCHANGED <<service, cli_connected, seen, socket, clearing, others>>

Receives ==
    /\ wfb = "prefix" /\ Free("wfb") /\ ~signal
    /\ Go("recv")
    /\ UNCHANGED <<service, cli_connected, seen, socket, clearing, others>>

(* recv() of the prefix may return a part of it; the rest of msg_length is *)
(* then whatever was there.                                                *)
ReadsPrefix ==
    \E n \in 1 .. PREFIX, garbage \in {1, BODY + 1} :
        /\ wfb = "recv"
        /\ n <= Len(wire)
        /\ LET whole == n = PREFIX /\ wire[1][2] = 1
           IN  /\ whole => garbage = 1
               /\ msg_length' = IF whole THEN BODY ELSE garbage
               /\ short' = (short \/ n < PREFIX)
        /\ wire' = SubSeq(wire, n + 1, Len(wire))
        /\ data' = <<>>
        /\ Go("body")
        /\ UNCHANGED <<service, cli_connected, seen, script, closed, msgs, conns, taken,
                       clearing, others>>

(* Altered: a body that does not come at once is skipped. *)
SkipsSplitBody ==
    \E n \in 1 .. BODY + 1 :
        /\ wfb = "body" /\ Len(data) < msg_length
        /\ n <= msg_length /\ msg_length <= Len(wire)
        /\ IF n = msg_length THEN Go("body") /\ data' = SubSeq(wire, 1, n)
                             ELSE Go("prefix") /\ data' = <<>>
        /\ wire' = SubSeq(wire, msg_length + 1, Len(wire))
        /\ UNCHANGED <<service, cli_connected, seen, script, closed, msgs, conns, msg_length,
                       short, taken, clearing, others>>

ReadsBody ==
    \E n \in 1 .. BODY + 1 :
        /\ wfb = "body" /\ Len(data) < msg_length
        /\ n <= Len(wire) /\ n <= msg_length - Len(data)
        /\ data' = data \o SubSeq(wire, 1, n)
        /\ wire' = SubSeq(wire, n + 1, Len(wire))
        /\ UNCHANGED <<service, wfb, cli_connected, seen, script, closed, msgs, conns,
                       msg_length, short, taken, clearing, others>>

Receiving == wfb = "recv" \/ (wfb = "body" /\ Len(data) < msg_length)

(* Altered: the end of the connection, recv() = 0, is not taken for one. *)
EndMissed ==
    /\ closed /\ wire = <<>> /\ Receiving
    /\ Go(IF wfb = "recv" THEN "prefix" ELSE wfb)
    /\ UNCHANGED <<service, cli_connected, seen, socket, clearing, others>>

RecvFails ==
    /\ closed /\ wire = <<>> /\ Receiving
    /\ Go("top")
    /\ UNCHANGED <<service, cli_connected, seen, socket, clearing, others>>

(* The message that the bytes read are the body of, or 0. *)
Message == IF \E i \in DOMAIN msgs : data = [j \in 1 .. BODY |-> <<i, PREFIX + j>>]
           THEN data[1][1] ELSE 0

(* Bytes that are no message: msgpack::unpack() throws an unpack_error,    *)
(* which is caught, or makes an object of them whose use throws a          *)
(* type_error, which is not and ends the process.                          *)
UnpackFails ==
    /\ wfb = "body" /\ Len(data) = msg_length /\ Message = 0
    /\ alive' \in BOOLEAN
    /\ Go("prefix")
    /\ UNCHANGED <<service, cli_connected, seen, socket, clearing, main, lost, dvrFacts, signal>>

Takes(i) == taken' = Append(taken, i)

process_packet ==
    /\ wfb = "body" /\ Len(data) = msg_length /\ Message # 0
    /\ Takes(Message)
    /\ Go(CASE msgs[Message].type = "rx" -> "rx"
            [] msgs[Message].type = "tx" -> "tx"
            [] msgs[Message].type = "cli_title" -> "title"
            [] OTHER -> "prefix")
    /\ UNCHANGED <<service, cli_connected, seen, script, wire, closed, msgs, conns, msg_length,
                   data, short, clearing, others>>

current == msgs[Message]

(* process_rx(): the id, then the antennas, are remembered before the      *)
(* batch is published.  "drone.connected" has the tag of the link here.    *)
RemembersRxId ==
    /\ wfb = "rx" /\ Go("rx_ants")
    /\ seen_rx_ids' = seen_rx_ids \cup {current.id}
    /\ UNCHANGED <<service, cli_connected, seen_rx_ant_ids, seen_tx_ids, seen_tx_ant_ids, socket,
                   clearing, others>>

RemembersRxAnts ==
    /\ wfb = "rx_ants" /\ Go("rx_publish")
    /\ seen_rx_ant_ids' = seen_rx_ant_ids \cup current.ants
    /\ UNCHANGED <<service, cli_connected, seen_rx_ids, seen_tx_ids, seen_tx_ant_ids, socket,
                   clearing, others>>

process_rx ==
    \E late \in BOOLEAN :
        /\ wfb = "rx_publish" /\ Go("prefix")
        /\ current.ants # {} => ~late
        /\ publish("wfb",
             <<Fact("rx", IdTag(current.id), "value")>>
             \o SetToSeq({Fact("rx_ant", AntTags(current.id, a), "value") : a \in current.ants})
             \o (IF current.ants # {} THEN <<Fact("drone.connected", IdTag(current.id), "true")>>
                 ELSE IF late THEN <<Fact("drone.connected", IdTag(current.id), "false")>>
                 ELSE <<>>))
        /\ UNCHANGED <<instance, locked, stop_, fact_queue, osd, shown, cli_connected, seen,
                       socket, clearing, others>>

RemembersTx ==
    /\ wfb = "tx" /\ Go("tx_publish")
    /\ seen_tx_ids' = seen_tx_ids \cup {current.id}
    /\ seen_tx_ant_ids' = seen_tx_ant_ids \cup current.ants
    /\ UNCHANGED <<service, cli_connected, seen_rx_ids, seen_rx_ant_ids, socket, clearing, others>>

process_tx ==
    /\ wfb = "tx_publish" /\ Go("prefix")
    /\ publish("wfb",
         <<Fact("tx", IdTag(current.id), "value")>>
         \o SetToSeq({Fact("rf_temperature", AntTags(current.id, a), "value") : a \in current.ants}))
    /\ UNCHANGED <<instance, locked, stop_, fact_queue, osd, shown, cli_connected, seen, socket,
                   clearing, others>>

process_title ==
    /\ wfb = "title" /\ Go("prefix")
    /\ publish("wfb", <<Fact("cli_title", NoTags, "value")>>)
    /\ UNCHANGED <<instance, locked, stop_, fact_queue, osd, shown, cli_connected, seen, socket,
                   clearing, others>>

Client ==
    \/ Disconnected \/ Connects \/ ConnectFails \/ AfterClear \/ Retries \/ GivesUp \/ Leaves
    \/ Receives \/ ReadsPrefix \/ ReadsBody \/ RecvFails \/ UnpackFails \/ process_packet
    \/ RemembersRxId \/ RemembersRxAnts \/ process_rx \/ RemembersTx \/ process_tx
    \/ process_title \/ clear_osd_wfbcli("wfb")

-----------------------------------------------------------------------------
(* main and the DVR worker. *)

StreamLost ==
    /\ main = "loop" /\ Free("main") /\ ~signal /\ lost < script.losses
    /\ lost' = lost + 1
    /\ Walk("main", "rx", {})
    /\ UNCHANGED <<service, wfb, cli_connected, seen, socket, main, dvrFacts, signal, alive>>

sig_handler ==
    /\ ~signal /\ signal' = TRUE
    /\ UNCHANGED <<service, wfb, cli_connected, seen, socket, clearing, main, lost, dvrFacts, alive>>

MainStep(from, to) ==
    /\ main = from /\ main' = to
    /\ UNCHANGED <<wfb, cli_connected, seen, socket, clearing, lost, dvrFacts, signal, alive>>

LeavesLoop ==
    /\ signal /\ Free("main")
    /\ MainStep("loop", "join")
    /\ UNCHANGED service

JoinsClient ==
    /\ wfb = "done"
    /\ MainStep("join", "stop")
    /\ UNCHANGED service

StopsOsd ==
    \/ StopMoves /\ MainStep("stop", "moved")
    \/ StopStores /\ MainStep("moved", "stored")
    \/ StopJoins /\ MainStep("stored", "end")

Main == StreamLost \/ clear_osd_wfbcli("main") \/ LeavesLoop \/ JoinsClient \/ StopsOsd

(* The DVR worker publishes when it likes.  Only what it does during the   *)
(* exit, after main has stopped waiting for it, is of interest here.       *)
DvrPublishes ==
    /\ main \notin {"loop", "join"}
    /\ pub["dvr"].at = "idle" /\ dvrFacts < MaxDvrFacts
    /\ dvrFacts' = dvrFacts + 1
    /\ publish("dvr", <<Fact("dvr.recording", NoTags, "value")>>)
    /\ UNCHANGED <<instance, locked, stop_, fact_queue, osd, shown, wfb, cli_connected, seen,
                   socket, clearing, main, lost, signal, alive>>

Publish(p) ==
    /\ publishFacts(p) \/ enqueueFacts(p)
    /\ UNCHANGED <<wfb, cli_connected, seen, socket, clearing, others>>

Osd ==
    /\ OsdThread
    /\ UNCHANGED <<wfb, cli_connected, seen, socket, clearing, others>>

Processing(at) == at \in {"rx", "rx_ants", "rx_publish", "tx", "tx_publish", "title", "cleared"}

Running(A) ==
    /\ alive /\ A
    /\ raced' = (raced \/ (clearing'["main"].at # "none"
                            /\ (Processing(wfb') \/ pub'["wfb"].at # "idle")))

Next ==
    \/ Running(Client) \/ Running(Main) \/ Running(Osd) \/ Running(DvrPublishes)
    \/ Running(sig_handler) \/ Running(ServerSends) \/ Running(ServerCloses)
    \/ \E p \in Publishers : Running(Publish(p))

(* The threads run; the server may fall silent for good.                   *)
Fairness ==
    /\ WF_vars(Running(Client)) /\ WF_vars(Running(Main)) /\ WF_vars(Running(Osd))
    /\ \A p \in Publishers : WF_vars(Running(Publish(p)))

Spec == Init /\ [][Next]_vars /\ Fairness

-----------------------------------------------------------------------------
(* No thread is inside the service once stop() has taken it: a publisher   *)
(* that outlives it, as the DVR worker may, finds none.                    *)
PublishersSafe ==
    \A p \in Publishers : pub[p].at = "in" => instance = "live" /\ locked = p

(* Unless recv() splits a prefix, the messages processed on a connection   *)
(* are those sent on it, whole, in order and without a hole, however TCP   *)
(* cuts the bodies, and a new connection starts afresh.                    *)
WholeMessages == ~short => taken = [i \in 1 .. Len(taken) |-> i]

(* Every message of a link names it. *)
Named ==
    \A c \in DOMAIN script.messages : \A i \in DOMAIN script.messages[c] :
        script.messages[c][i].type \in {"rx", "tx"} => script.messages[c][i].id # ""

(* No link without an id can reach the widget of m. *)
LinkFacts == {"rx", "rx_ant", "tx", "rf_temperature"}
Owned(m) ==
    Named \/ m.name \notin LinkFacts \/ ("id" \in DOMAIN m.tags /\ m.tags["id"] # "")

(* After a lost connection that was not re-established at once, the OSD    *)
(* shows no statistics of a link with an id and neither link as connected, *)
(* unless main's clear met the client while it processed a message: ids    *)
(* inserted or facts published during main's walk can outlive it.          *)
LossClears ==
    (/\ wfb = "retry" /\ ~raced
     /\ fact_queue = <<>> /\ \A p \in Publishers : pub[p].at = "idle")
    => \A m \in Matchers : Owned(m) =>
          shown[m] \in IF m.name \in {"cli.connected", "drone.connected"}
                       THEN {"undef", "false"}
                       ELSE IF m.name = "dvr.recording" THEN {"undef", "value"} ELSE {"undef"}

(* recv() waits for a server that keeps the connection and sends nothing.  *)
Silence == Receiving /\ wire = <<>> /\ ~closed

(* After the signal main gets through the join of the client and the stop  *)
(* of the OSD, although stop() may miss the OSD thread's wait, unless the  *)
(* server stays silent for good, which holds the client in recv().         *)
ExitCompletes == signal ~> (main = "end" \/ ~alive \/ []Silence)
=============================================================================
