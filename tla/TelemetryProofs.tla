--------------------------- MODULE TelemetryProofs ---------------------------
(***************************************************************************)
(* Theorems about the statistics client and the OSD service of Telemetry,  *)
(* for any publishers, any scripts of the server and any widgets: no       *)
(* publisher is inside a service that stop() has taken, the client         *)
(* processes the messages of a connection whole and in order, however TCP  *)
(* cuts their bodies, and a lost connection leaves nothing of it shown.    *)
(***************************************************************************)
EXTENDS Telemetry, SeqFilterProofs, TLAPS

-----------------------------------------------------------------------------
(* The publishers and stop() *)

\* Every publisher has a batch and a place in its publication of it.
PubShape == pub = [p \in Publishers |-> [at |-> pub[p].at, batch |-> pub[p].batch]]

\* instance_mutex_ is held by the publisher that is inside, and by no other.
MutexHeld == \A p \in Publishers : pub[p].at = "in" <=> locked = p

\* A publisher that is inside found the service, and no one takes it away.
InsideLive == \A p \in Publishers : pub[p].at = "in" => instance = "live"

\* Once main is past the move, instance_ is no longer the service.
Taken == main \in {"moved", "stored", "end"} => instance # "live"

\* Where the client handles a message: it publishes nothing until it is done
\* with it, and nothing of it is published before.
Handling == {"rx", "rx_ants", "rx_publish", "tx", "tx_publish", "title"}
OneBatch ==
  /\ wfb \in Handling \cup {"recv", "body"} => pub["wfb"].at = "idle"
  /\ wfb # "cleared" => clearing["wfb"].at = "none"

\* clear_osd_wfbcli() is run by the client thread and by main.
ClearShape == clearing = [t \in {"wfb", "main"} |-> [at |-> clearing[t].at, done |-> clearing[t].done]]

PubInv == PubShape /\ MutexHeld /\ InsideLive /\ Taken /\ OneBatch /\ ClearShape

\* What a publication that begins does to the publishers.
Begins(t) ==
  /\ pub[t].at = "idle" /\ UNCHANGED <<locked, instance>>
  /\ \E batch : publish(t, batch)

\* A thread that begins a publication was not in one.
LEMMA PublishKeeps ==
  ASSUME PubInv, NEW t \in Publishers, Begins(t)
  PROVE  /\ PubShape' /\ MutexHeld' /\ InsideLive'
         /\ \A p \in Publishers \ {t} : pub'[p].at = pub[p].at
<1>1. PICK batch : publish(t, batch)
  BY DEF Begins
<1>2. \A p \in Publishers : pub'[p] = IF p = t THEN [at |-> "want", batch |-> batch] ELSE pub[p]
  BY <1>1 DEF PubInv, PubShape, publish
<1>3. PubShape'
  BY <1>1, <1>2 DEF PubInv, PubShape, publish
<1> QED
  BY <1>2, <1>3 DEF PubInv, MutexHeld, InsideLive, Begins

\* A walk of clear_osd_wfbcli() moves on for its own thread only.
LEMMA WalkKeeps ==
  ASSUME PubInv, NEW t \in {"wfb", "main"}, NEW at, NEW done, Walk(t, at, done)
  PROVE  /\ ClearShape' /\ clearing'[t].at = at
         /\ \A u \in {"wfb", "main"} \ {t} : clearing'[u] = clearing[u]
  BY DEF PubInv, ClearShape, Walk

\* The steps that neither publish nor walk, nor are main's stop().
Silent ==
  \/ AfterClear \/ Retries \/ GivesUp \/ Leaves \/ Receives \/ ReadsPrefix \/ ReadsBody \/ RecvFails
  \/ UnpackFails \/ process_packet \/ RemembersRxId \/ RemembersRxAnts \/ RemembersTx
  \/ sig_handler \/ LeavesLoop \/ JoinsClient \/ Osd \/ ServerSends \/ ServerCloses

\* Each of them keeps PubInv.
LEMMA SilentStep ==
  ASSUME PubInv, Silent
  PROVE  PubInv'
<1>1. UNCHANGED <<pub, locked, instance, clearing>>
  BY DEF Silent, AfterClear, Retries, GivesUp, Leaves, Receives, ReadsPrefix, ReadsBody, RecvFails, Receiving,
    UnpackFails, process_packet, RemembersRxId, RemembersRxAnts, RemembersTx, sig_handler,
    LeavesLoop, JoinsClient, MainStep, Osd, OsdThread, WaitEnds, drainFacts, ServerSends,
    ServerCloses, service
<1>2. PubShape' /\ MutexHeld' /\ InsideLive' /\ ClearShape'
  BY <1>1 DEF PubInv, PubShape, MutexHeld, InsideLive, ClearShape
<1>3. UNCHANGED main \/ main' \in {"join", "stop"}
  BY DEF Silent, AfterClear, Retries, GivesUp, Leaves, Receives, ReadsPrefix, ReadsBody, RecvFails, Receiving,
    UnpackFails, process_packet, RemembersRxId, RemembersRxAnts, RemembersTx, sig_handler,
    LeavesLoop, JoinsClient, MainStep, Osd, ServerSends, ServerCloses, others
<1>4. Taken'
  BY <1>1, <1>3 DEF PubInv, Taken
<1>5. OneBatch'
  BY <1>1 DEF PubInv, OneBatch, Handling, Free, Go, Silent, AfterClear, Retries, GivesUp, Leaves, Receives,
    ReadsPrefix, ReadsBody, RecvFails, Receiving, UnpackFails, process_packet, RemembersRxId,
    RemembersRxAnts, RemembersTx, sig_handler, LeavesLoop, JoinsClient, MainStep, Osd,
    ServerSends, ServerCloses
<1> QED
  BY <1>2, <1>4, <1>5 DEF PubInv

\* The walk of a clear, by the client thread or by main.
LEMMA ClearStep ==
  ASSUME PubInv, NEW t \in {"wfb", "main"}, clear_osd_wfbcli(t)
  PROVE  PubInv'
<1>1. t \in Publishers /\ "wfb" \in Publishers
  BY TelemetryAssumption
<1>2. /\ pub[t].at = "idle" /\ clearing[t].at \in {"rx", "tx"}
      /\ UNCHANGED <<locked, instance, wfb, main>>
  BY DEF clear_osd_wfbcli, ClearRxId, ForgetRx, ClearTxId, ForgetTx, service, others
<1>3. \E at, done : Walk(t, at, done)
  BY DEF clear_osd_wfbcli, ClearRxId, ForgetRx, ClearTxId, ForgetTx
<1>4. ClearShape' /\ \A u \in {"wfb", "main"} \ {t} : clearing'[u] = clearing[u]
  BY <1>3, WalkKeeps
<1>5. UNCHANGED pub \/ Begins(t)
  BY <1>2 DEF clear_osd_wfbcli, ClearRxId, ForgetRx, ClearTxId, ForgetTx, Begins, service
<1>6. /\ PubShape' /\ MutexHeld' /\ InsideLive'
      /\ \A p \in Publishers \ {t} : pub'[p].at = pub[p].at
  BY <1>1, <1>2, <1>5, PublishKeeps DEF PubInv, PubShape, MutexHeld, InsideLive
<1>7. Taken'
  BY <1>2 DEF PubInv, Taken
<1>8. t = "wfb" => wfb = "cleared"
  BY <1>2 DEF PubInv, OneBatch
<1>9. OneBatch'
  BY <1>1, <1>2, <1>4, <1>6, <1>8 DEF PubInv, OneBatch, Handling
<1> QED
  BY <1>4, <1>6, <1>7, <1>9 DEF PubInv

\* Every step keeps PubInv.
LEMMA PubNext == PubInv /\ [Next]_vars => PubInv'
<1> SUFFICES ASSUME PubInv, [Next]_vars PROVE PubInv'
  OBVIOUS
<1>1. {"wfb", "main", "dvr"} \subseteq Publishers
  BY TelemetryAssumption
<1>2. CASE Silent
  BY <1>2, SilentStep
<1>3. CASE clear_osd_wfbcli("wfb") \/ clear_osd_wfbcli("main")
  BY <1>3, ClearStep
<1>4. CASE Disconnected \/ Connects \/ process_rx \/ process_tx \/ process_title
  <2>1. UNCHANGED pub \/ Begins("wfb")
    BY <1>4 DEF PubInv, OneBatch, Handling, Disconnected, Connects, process_rx, process_tx,
      process_title, Begins, Free
  <2>2. UNCHANGED <<locked, instance, clearing, main>> /\ wfb # "cleared" /\ wfb' \in {"done", "connect", "prefix"}
    BY <1>4 DEF Disconnected, Connects, process_rx, process_tx, process_title, others, Go
  <2>3. PubShape' /\ MutexHeld' /\ InsideLive'
    BY <1>1, <2>1, <2>2, PublishKeeps DEF PubInv, PubShape, MutexHeld, InsideLive
  <2> QED
    BY <2>2, <2>3 DEF PubInv, Taken, OneBatch, Handling, ClearShape
<1>5. CASE DvrPublishes
  <2>1. Begins("dvr") /\ UNCHANGED <<wfb, clearing, main>>
    BY <1>5 DEF DvrPublishes, Begins
  <2> QED
    BY <1>1, <2>1, PublishKeeps DEF PubInv, Taken, OneBatch, Handling, ClearShape, Begins
<1>6. CASE ConnectFails
  <2>1. UNCHANGED <<pub, locked, instance, main>> /\ wfb # "cleared"
    BY <1>6 DEF ConnectFails, service, others
  <2>2. \/ wfb' = "cleared" /\ Walk("wfb", "rx", {})
        \/ wfb' = "retry" /\ UNCHANGED clearing
    BY <1>6 DEF ConnectFails, Go
  <2>3. ClearShape' /\ OneBatch'
    BY <2>1, <2>2, WalkKeeps DEF PubInv, OneBatch, Handling, ClearShape
  <2> QED
    BY <2>1, <2>3 DEF PubInv, PubShape, MutexHeld, InsideLive, Taken
<1>7. CASE StreamLost
  <2>1. UNCHANGED <<pub, locked, instance, wfb, main>> /\ Walk("main", "rx", {})
    BY <1>7 DEF StreamLost, service
  <2>2. ClearShape' /\ clearing'["wfb"] = clearing["wfb"]
    BY <2>1, WalkKeeps
  <2> QED
    BY <2>1, <2>2 DEF PubInv, PubShape, MutexHeld, InsideLive, Taken, OneBatch
<1>8. CASE StopsOsd
  <2>1. UNCHANGED <<pub, locked, wfb, clearing>>
    BY <1>8 DEF StopsOsd, StopMoves, StopStores, StopJoins, MainStep
  <2>2. \A p \in Publishers : pub[p].at = "in" => UNCHANGED instance
    BY <1>8, OsdAssumption DEF PubInv, MutexHeld, InsideLive, Taken, StopsOsd, StopMoves, StopStores, StopJoins, MainStep
  <2>3. instance' # "live"
    BY <1>8 DEF PubInv, Taken, StopsOsd, StopMoves, StopStores, StopJoins, MainStep
  <2> QED
    BY <2>1, <2>2, <2>3 DEF PubInv, PubShape, MutexHeld, InsideLive, Taken, OneBatch, ClearShape
<1>9. ASSUME NEW p \in Publishers, Publish(p) PROVE PubInv'
  <2>1. UNCHANGED <<wfb, clearing, main, instance>>
    BY <1>9 DEF Publish, publishFacts, enqueueFacts, others
  <2>2. /\ pub[p].at \in {"want", "in"}
        /\ \/ pub' = [pub EXCEPT ![p].at = "in"] /\ locked' = p /\ locked = "none" /\ instance = "live"
           \/ pub' = [pub EXCEPT ![p] = Idle] /\ locked' = "none" /\ locked \in {p, "none"}
    BY <1>9 DEF Publish, publishFacts, enqueueFacts, PubInv, MutexHeld
  <2>3. \A q \in Publishers : q # p => pub'[q] = pub[q]
    BY <2>2 DEF PubInv, PubShape
  <2>4. PubShape' /\ pub'[p].at = IF locked' = p THEN "in" ELSE "idle"
    BY <2>2, OsdAssumption DEF PubInv, PubShape, Idle
  <2>5. MutexHeld' /\ InsideLive'
    BY <2>1, <2>2, <2>3, <2>4, OsdAssumption DEF PubInv, MutexHeld, InsideLive
  <2>6. OneBatch'
    BY <1>1, <2>1, <2>2, <2>3, <2>4 DEF PubInv, OneBatch, Handling
  <2> QED
    BY <2>1, <2>4, <2>5, <2>6 DEF PubInv, Taken, ClearShape
<1>10. CASE UNCHANGED vars
  BY <1>10 DEF PubInv, PubShape, MutexHeld, InsideLive, Taken, OneBatch, ClearShape, vars, service, others
<1> QED
  BY <1>2, <1>3, <1>4, <1>5, <1>6, <1>7, <1>8, <1>9, <1>10
    DEF Next, Running, Client, Main, Silent

\* No publisher is inside a service that stop() has taken.
THEOREM PublishersAreSafe == Spec => []PublishersSafe
<1>1. Init => PubInv
  BY TelemetryAssumption, OsdAssumption
    DEF Init, ServiceInit, PubInv, PubShape, MutexHeld, InsideLive, Taken, OneBatch, ClearShape,
      Handling, Idle, NotClearing
<1>2. PubInv => PublishersSafe
  BY DEF PubInv, MutexHeld, InsideLive, PublishersSafe
<1> QED
  BY <1>1, <1>2, PubNext, PTL DEF Spec

-----------------------------------------------------------------------------
(* The messages of a connection *)

\* The connections and what the server sends on them.
SocketOK ==
  /\ script \in Scripts
  /\ conns \in 0 .. Len(script.messages) /\ (~closed => conns # 0)
  /\ msgs \in Seq(Messages) /\ taken \in Seq(Int)
  /\ closed \in BOOLEAN /\ short \in BOOLEAN

\* While the client is in handle_server_connection().
Connected == Handling \cup {"prefix", "recv", "body"}

Byte == Int \X (1 .. PREFIX + BODY)

\* The bytes of the stream that the client has read.
BytesRead ==
  (PREFIX + BODY) * Len(taken) + IF wfb = "body" THEN PREFIX + Len(data) ELSE 0

\* What is on the wire continues what was read: byte <<i, j>> of message i is
\* the one at this place in the stream.
Place(byte) == (PREFIX + BODY) * (byte[1] - 1) + byte[2]
WireContinues ==
  /\ wire \in Seq(Byte)
  /\ BytesRead + Len(wire) = (PREFIX + BODY) * Len(msgs)
  /\ \A x \in 1 .. Len(wire) : Place(wire[x]) = BytesRead + x

\* The part of the body that was read is of the message after those taken.
BodySoFar ==
  wfb = "body" =>
    /\ msg_length = BODY
    /\ data \in Seq(Byte) /\ Len(data) <= BODY
    /\ \A x \in 1 .. Len(data) : data[x] = <<Len(taken) + 1, PREFIX + x>>

StreamInv ==
  /\ SocketOK /\ WholeMessages
  /\ ~short /\ wfb \in Connected => WireContinues /\ BodySoFar

USE DEF PREFIX, BODY

\* Of two bytes at the same place in the stream both are the same.
LEMMA PlaceIsOne ==
  ASSUME NEW b \in Byte, NEW i \in Int, NEW j \in 1 .. PREFIX + BODY,
         Place(b) = (PREFIX + BODY) * (i - 1) + j
  PROVE  b = <<i, j>>
  BY DEF Place, Byte

\* A read of n bytes takes them off the front of the wire.
LEMMA ReadKeeps ==
  ASSUME NEW w \in Seq(Byte), NEW n \in 1 .. Len(w)
  PROVE  /\ SubSeq(w, n + 1, Len(w)) \in Seq(Byte)
         /\ Len(SubSeq(w, n + 1, Len(w))) = Len(w) - n
         /\ \A x \in 1 .. Len(w) - n : SubSeq(w, n + 1, Len(w))[x] = w[n + x]
         /\ SubSeq(w, 1, n) \in Seq(Byte) /\ Len(SubSeq(w, 1, n)) = n
         /\ \A x \in 1 .. n : SubSeq(w, 1, n)[x] = w[x]
  OBVIOUS

\* What the concatenation of two runs of bytes holds.
LEMMA JoinKeeps ==
  ASSUME NEW u \in Seq(Byte), NEW v \in Seq(Byte)
  PROVE  /\ u \o v \in Seq(Byte) /\ Len(u \o v) = Len(u) + Len(v)
         /\ \A x \in 1 .. Len(u) : (u \o v)[x] = u[x]
         /\ \A x \in 1 .. Len(v) : (u \o v)[Len(u) + x] = v[x]
  OBVIOUS

\* The count of bytes read is one, within a body that is not complete or is.
LEMMA ReadTyped ==
  ASSUME SocketOK, BodySoFar
  PROVE  BytesRead \in Int
<1>1. Len(taken) \in Nat /\ (wfb = "body" => Len(data) \in Nat)
  BY DEF SocketOK, BodySoFar
<1> QED
  BY <1>1 DEF BytesRead

\* A whole body is the message after those taken.
LEMMA WholeBody ==
  ASSUME SocketOK, WireContinues, BodySoFar, wfb = "body", Len(data) = msg_length
  PROVE  Message = Len(taken) + 1 /\ Message # 0
<1>1. /\ Len(taken) \in Nat /\ Len(msgs) \in Nat /\ Len(wire) \in Nat
      /\ data \in Seq(Byte) /\ Len(data) = BODY
  BY DEF SocketOK, WireContinues, BodySoFar
<1>2. BytesRead = (PREFIX + BODY) * (Len(taken) + 1)
  BY <1>1 DEF BytesRead
<1>3. Len(taken) + 1 \in DOMAIN msgs
  BY <1>1, <1>2 DEF SocketOK, WireContinues
<1>4. data = [j \in 1 .. BODY |-> <<Len(taken) + 1, PREFIX + j>>]
  BY <1>1 DEF BodySoFar
<1>5. data[1][1] = Len(taken) + 1
  BY <1>4
<1> QED
  BY <1>1, <1>3, <1>4, <1>5 DEF Message

\* The steps that leave the stream alone, and the client where it is or outside
\* handle_server_connection(), or take it from one part of a message that it has
\* read to the next.
Aside ==
  /\ UNCHANGED <<script, wire, msgs, conns, msg_length, data, short, taken>>
  /\ closed' = closed \/ closed' = TRUE
  /\ \/ wfb' = wfb
     \/ wfb' \notin Connected
     \/ wfb \in Connected \ {"body"} /\ wfb' \in Connected \ {"body"}

\* Every step is one that moves the stream, or leaves it aside.
LEMMA AsideStep ==
  ASSUME [Next]_vars
  PROVE  Aside \/ Connects \/ ServerSends \/ ReadsPrefix \/ ReadsBody \/ UnpackFails \/ process_packet
<1>1. CASE \/ Disconnected \/ ConnectFails \/ AfterClear \/ Retries \/ GivesUp \/ Leaves \/ Receives \/ RecvFails
  BY <1>1 DEF Aside, Connected, Handling, Disconnected, ConnectFails, AfterClear, Retries, GivesUp,
    Leaves, Receives, RecvFails, Receiving, Go, socket
<1>2. CASE \/ RemembersRxId \/ RemembersRxAnts \/ process_rx \/ RemembersTx \/ process_tx \/ process_title
  BY <1>2 DEF Aside, Connected, Handling, RemembersRxId, RemembersRxAnts, process_rx, RemembersTx,
    process_tx, process_title, Go, socket
<1>3. CASE clear_osd_wfbcli("wfb") \/ clear_osd_wfbcli("main")
  BY <1>3 DEF Aside, clear_osd_wfbcli, ClearRxId, ForgetRx, ClearTxId, ForgetTx, socket
<1>4. CASE \/ StreamLost \/ LeavesLoop \/ JoinsClient \/ StopsOsd \/ Osd \/ DvrPublishes \/ sig_handler
           \/ ServerCloses
  BY <1>4 DEF Aside, StreamLost, LeavesLoop, JoinsClient, StopsOsd, MainStep, Osd, DvrPublishes,
    sig_handler, ServerCloses, socket
<1>5. ASSUME NEW p \in Publishers, Publish(p) PROVE Aside
  BY <1>5 DEF Aside, Publish, socket
<1>6. CASE UNCHANGED vars
  BY <1>6 DEF Aside, vars, socket
<1> QED
  BY <1>1, <1>2, <1>3, <1>4, <1>5, <1>6 DEF Next, Running, Client, Main

\* Every step keeps StreamInv.
LEMMA StreamNext == StreamInv /\ [Next]_vars => StreamInv'
<1> SUFFICES ASSUME StreamInv, [Next]_vars PROVE StreamInv'
  OBVIOUS
<1>0. SocketOK /\ WholeMessages /\ Len(taken) \in Nat /\ Len(msgs) \in Nat
  BY DEF StreamInv, SocketOK
<1>1. CASE Aside
  <2>1. SocketOK' /\ WholeMessages'
    <3>1. WholeMessages'
      BY <1>0, <1>1 DEF Aside, WholeMessages
    <3>2. SocketOK'
      <4>1. closed' \in BOOLEAN /\ (~closed' => conns # 0)
        <5>1. CASE closed' = closed
          BY <1>0, <5>1, Zenon DEF SocketOK
        <5>2. CASE closed' = TRUE
          BY <5>2, Zenon
        <5> QED
          BY <1>1, <5>1, <5>2 DEF Aside
      <4> QED
        BY <1>0, <1>1, <4>1, Zenon DEF Aside, SocketOK
    <3> QED
      BY <3>1, <3>2
  <2>2. ASSUME wfb' = wfb \/ (wfb \in Connected \ {"body"} /\ wfb' \in Connected \ {"body"}),
               ~short', wfb' \in Connected
        PROVE  WireContinues' /\ BodySoFar'
    <3>1. WireContinues /\ BodySoFar /\ BytesRead' = BytesRead
      BY <1>1, <2>2 DEF StreamInv, Aside, BytesRead
    <3> QED
      BY <1>1, <2>2, <3>1 DEF Aside, WireContinues, BodySoFar
  <2> QED
    BY <1>1, <2>1, <2>2 DEF Aside, StreamInv
<1>2. CASE Connects
  <2>1. /\ wfb' = "prefix" /\ wire' = <<>> /\ msgs' = <<>> /\ taken' = <<>> /\ UNCHANGED script
        /\ conns' = conns + 1 /\ conns < Len(script.messages)
    BY <1>2 DEF Connects, Go
  <2>2. SocketOK'
    <3>1. closed' = FALSE /\ short' = FALSE
      BY <1>2 DEF Connects
    <3>2. conns' \in 0 .. Len(script.messages) /\ conns' # 0
      BY <1>0, <2>1, TelemetryAssumption DEF SocketOK
    <3>3. msgs' \in Seq(Messages) /\ taken' \in Seq(Int)
      BY <2>1
    <3> QED
      BY <1>0, <2>1, <3>1, <3>2, <3>3 DEF SocketOK
  <2>3. BytesRead' = 0
    BY <2>1 DEF BytesRead
  <2>4. WireContinues' /\ BodySoFar' /\ WholeMessages'
    BY <2>1, <2>3 DEF WireContinues, BodySoFar, WholeMessages
  <2> QED
    BY <2>2, <2>4 DEF StreamInv
<1>3. CASE ServerSends
  <2> DEFINE m == script.messages[conns][Len(msgs) + 1]
             new == Bytes(Len(msgs) + 1)
  <2>1. /\ msgs' = Append(msgs, m) /\ wire' = wire \o new /\ ~closed
        /\ UNCHANGED <<script, closed, conns, taken, short, wfb, data, msg_length>>
        /\ Len(msgs) < Len(script.messages[conns])
    BY <1>3 DEF ServerSends
  <2>2. m \in Messages
    <3>1. conns \in DOMAIN script.messages /\ script.messages \in Seq(Seq(Messages))
      BY <1>0, <2>1, TelemetryAssumption DEF SocketOK
    <3>2. script.messages[conns] \in Seq(Messages)
      BY <3>1
    <3> QED
      BY <1>0, <2>1, <3>2
  <2>3. SocketOK' /\ WholeMessages' /\ Len(msgs') = Len(msgs) + 1
    BY <1>0, <2>1, <2>2 DEF SocketOK, WholeMessages
  <2>4. /\ new \in Seq(Byte) /\ Len(new) = PREFIX + BODY
        /\ \A x \in 1 .. PREFIX + BODY : Place(new[x]) = (PREFIX + BODY) * Len(msgs) + x
    BY <1>0 DEF Bytes, Place, Byte
  <2> HIDE DEF m, new
  <2>5. ASSUME ~short', wfb' \in Connected PROVE WireContinues' /\ BodySoFar'
    <3>0. ~short /\ wfb \in Connected
      BY <2>1, <2>5, Zenon
    <3>1. WireContinues /\ BodySoFar /\ BytesRead' = BytesRead /\ Len(wire) \in Nat
      <4>1. WireContinues /\ BodySoFar
        BY <3>0 DEF StreamInv
      <4>2. BytesRead' = BytesRead
        BY <2>1 DEF BytesRead
      <4> QED
        BY <4>1, <4>2 DEF WireContinues
    <3>2. /\ wire' \in Seq(Byte) /\ Len(wire') = Len(wire) + PREFIX + BODY
          /\ \A x \in 1 .. Len(wire) : wire'[x] = wire[x]
          /\ \A x \in 1 .. PREFIX + BODY : wire'[Len(wire) + x] = new[x]
      <4>1. wire \in Seq(Byte)
        BY <3>1 DEF WireContinues
      <4>2. Len(wire) + Len(new) = Len(wire) + PREFIX + BODY
        BY <2>4, <3>1
      <4>3. /\ wire' \in Seq(Byte) /\ Len(wire') = Len(wire) + Len(new)
            /\ \A x \in 1 .. Len(wire) : wire'[x] = wire[x]
            /\ \A x \in 1 .. Len(new) : wire'[Len(wire) + x] = new[x]
        BY <2>1, <2>4, <4>1, JoinKeeps, Zenon
      <4> QED
        BY <2>4, <4>2, <4>3, Zenon
    <3>3. BytesRead \in Int /\ BytesRead + Len(wire) = (PREFIX + BODY) * Len(msgs)
      BY <1>0, <3>1, ReadTyped DEF WireContinues
    <3>4. ASSUME NEW x \in 1 .. Len(wire') PROVE Place(wire'[x]) = BytesRead + x
      <4>1. CASE x <= Len(wire)
        BY <3>1, <3>2, <4>1 DEF WireContinues
      <4>2. CASE x > Len(wire)
        <5>1. x - Len(wire) \in 1 .. PREFIX + BODY /\ x = Len(wire) + (x - Len(wire))
          BY <3>1, <3>2, <4>2
        <5>2. Place(wire'[x]) = (PREFIX + BODY) * Len(msgs) + (x - Len(wire))
          BY <2>4, <3>2, <5>1
        <5> QED
          BY <3>1, <3>3, <5>2
      <4> QED
        BY <3>1, <4>1, <4>2
    <3>5. BytesRead' + Len(wire') = (PREFIX + BODY) * Len(msgs')
      BY <1>0, <2>3, <3>1, <3>2, <3>3
    <3> QED
      BY <2>1, <3>1, <3>2, <3>4, <3>5 DEF WireContinues, BodySoFar
  <2> QED
    BY <2>3, <2>5 DEF StreamInv
<1>4. CASE ReadsPrefix
  <2>1. PICK n \in 1 .. PREFIX, garbage \in {1, BODY + 1} :
          /\ wfb = "recv" /\ n <= Len(wire)
          /\ msg_length' = IF n = PREFIX /\ wire[1][2] = 1 THEN BODY ELSE garbage
          /\ short' = (short \/ n < PREFIX)
          /\ wire' = SubSeq(wire, n + 1, Len(wire)) /\ data' = <<>> /\ wfb' = "body"
          /\ UNCHANGED <<script, closed, msgs, conns, taken>>
    BY <1>4 DEF ReadsPrefix, Go
  <2>2. SocketOK' /\ WholeMessages'
    BY <1>0, <2>1 DEF SocketOK, WholeMessages
  <2>3. ASSUME ~short' PROVE WireContinues' /\ BodySoFar'
    <3>1. n = PREFIX /\ ~short
      <4>1. ~(n < PREFIX) /\ ~short
        BY <2>1, <2>3, Zenon
      <4> QED
        BY <4>1
    <3>2. WireContinues /\ BytesRead = (PREFIX + BODY) * Len(taken) /\ Len(wire) \in Nat
      BY <1>0, <2>1, <3>1 DEF StreamInv, Connected, BytesRead, WireContinues
    <3>3. n \in 1 .. Len(wire) /\ 1 \in 1 .. Len(wire)
      BY <2>1, <3>1, <3>2
    <3>4. wire[1] = <<Len(taken) + 1, 1>>
      <4>1. wire[1] \in Byte /\ Place(wire[1]) = (PREFIX + BODY) * Len(taken) + 1
        BY <3>2, <3>3 DEF WireContinues
      <4>2. (PREFIX + BODY) * Len(taken) + 1 = (PREFIX + BODY) * ((Len(taken) + 1) - 1) + 1
        BY <1>0
      <4>3. Len(taken) + 1 \in Int /\ 1 \in 1 .. PREFIX + BODY
        BY <1>0
      <4> QED
        BY <1>0, <4>1, <4>2, <4>3, PlaceIsOne
    <3>5. msg_length' = BODY
      BY <2>1, <3>1, <3>4
    <3>6. BytesRead' = BytesRead + n
      BY <1>0, <2>1, <3>1, <3>2 DEF BytesRead
    <3>7. /\ wire' \in Seq(Byte) /\ Len(wire') = Len(wire) - n
          /\ \A x \in 1 .. Len(wire) - n : wire'[x] = wire[n + x]
      BY <2>1, <3>2, <3>3, ReadKeeps DEF WireContinues
    <3>8. WireContinues'
      <4>0. BytesRead \in Int
        BY <1>0, <3>1, <3>2
      <4>1. BytesRead' + Len(wire') = (PREFIX + BODY) * Len(msgs')
        <5>1. BytesRead + Len(wire) = (PREFIX + BODY) * Len(msgs)
          BY <3>1, <3>2 DEF WireContinues
        <5>2. BytesRead' + Len(wire') = BytesRead + Len(wire)
          BY <3>1, <3>2, <3>6, <3>7, <4>0
        <5> QED
          BY <2>1, <5>1, <5>2
      <4>2. ASSUME NEW x \in 1 .. Len(wire') PROVE Place(wire'[x]) = BytesRead' + x
        <5>1. n + x \in 1 .. Len(wire) /\ wire'[x] = wire[n + x]
          BY <3>1, <3>2, <3>3, <3>6, <3>7
        <5>2. Place(wire[n + x]) = BytesRead + (n + x)
          BY <3>1, <3>2, <5>1 DEF WireContinues
        <5> QED
          BY <3>1, <5>1, <5>2, <3>6, <3>7, <4>0
      <4> QED
        BY <4>1, <4>2, <3>6, <3>7 DEF WireContinues
    <3> QED
      BY <2>1, <3>5, <3>8 DEF BodySoFar
  <2> QED
    BY <2>2, <2>3 DEF StreamInv
<1>5. CASE ReadsBody
  <2>1. PICK n \in 1 .. BODY + 1 :
          /\ wfb = "body" /\ n <= Len(wire) /\ n <= msg_length - Len(data)
          /\ data' = data \o SubSeq(wire, 1, n) /\ wire' = SubSeq(wire, n + 1, Len(wire))
          /\ UNCHANGED <<wfb, script, closed, msgs, conns, msg_length, short, taken>>
    BY <1>5 DEF ReadsBody
  <2>2. SocketOK' /\ WholeMessages'
    BY <1>0, <2>1 DEF SocketOK, WholeMessages
  <2>3. ASSUME ~short' PROVE WireContinues' /\ BodySoFar'
    <3>1. /\ WireContinues /\ BodySoFar /\ Len(wire) \in Nat /\ n \in 1 .. Len(wire)
          /\ msg_length = BODY /\ data \in Seq(Byte) /\ Len(data) \in Nat
          /\ Len(data) + n <= BODY
      BY <2>1, <2>3 DEF StreamInv, Connected, WireContinues, BodySoFar
    <3>2. BytesRead = (PREFIX + BODY) * Len(taken) + PREFIX + Len(data)
      BY <2>1, <1>0, <3>1 DEF BytesRead
    <3>3. /\ wire' \in Seq(Byte) /\ Len(wire') = Len(wire) - n
          /\ \A x \in 1 .. Len(wire) - n : wire'[x] = wire[n + x]
          /\ SubSeq(wire, 1, n) \in Seq(Byte) /\ Len(SubSeq(wire, 1, n)) = n
          /\ \A x \in 1 .. n : SubSeq(wire, 1, n)[x] = wire[x]
      BY <2>1, <3>1, ReadKeeps DEF WireContinues
    <3>4. /\ data' \in Seq(Byte) /\ Len(data') = Len(data) + n
          /\ \A x \in 1 .. Len(data) : data'[x] = data[x]
          /\ \A x \in 1 .. n : data'[Len(data) + x] = wire[x]
      BY <2>1, <3>1, <3>3, JoinKeeps
    <3>5. BytesRead' = BytesRead + n
      BY <1>0, <2>1, <3>1, <3>2, <3>4 DEF BytesRead
    <3>6. WireContinues'
      <4>0. BytesRead \in Int
        BY <1>0, <3>1, <3>2
      <4>1. BytesRead' + Len(wire') = (PREFIX + BODY) * Len(msgs')
        <5>1. BytesRead + Len(wire) = (PREFIX + BODY) * Len(msgs)
          BY <3>1, <3>2 DEF WireContinues
        <5>2. BytesRead' + Len(wire') = BytesRead + Len(wire)
          BY <3>1, <3>2, <3>3, <3>5, <4>0
        <5> QED
          BY <2>1, <5>1, <5>2
      <4>2. ASSUME NEW x \in 1 .. Len(wire') PROVE Place(wire'[x]) = BytesRead' + x
        <5>1. n + x \in 1 .. Len(wire) /\ wire'[x] = wire[n + x]
          BY <3>1, <3>2, <3>3, <3>3, <3>5
        <5>2. Place(wire[n + x]) = BytesRead + (n + x)
          BY <3>1, <3>2, <5>1 DEF WireContinues
        <5> QED
          BY <3>1, <5>1, <5>2, <3>3, <3>5, <4>0
      <4> QED
        BY <4>1, <4>2, <3>3, <3>5 DEF WireContinues
    <3>7. ASSUME NEW x \in 1 .. n PROVE wire[x] = <<Len(taken) + 1, PREFIX + (Len(data) + x)>>
      <4>1. wire[x] \in Byte
            /\ Place(wire[x]) = (PREFIX + BODY) * Len(taken) + (PREFIX + (Len(data) + x))
        BY <1>0, <3>1, <3>2 DEF WireContinues
      <4>2. PREFIX + (Len(data) + x) \in 1 .. PREFIX + BODY /\ Len(taken) + 1 \in Int
        BY <1>0, <3>1
      <4>3. (PREFIX + BODY) * Len(taken) = (PREFIX + BODY) * ((Len(taken) + 1) - 1)
        BY <1>0
      <4> QED
        BY <1>0, <4>1, <4>2, <4>3, PlaceIsOne
    <3>8. ASSUME NEW x \in 1 .. Len(data') PROVE data'[x] = <<Len(taken) + 1, PREFIX + x>>
      <4>1. CASE x <= Len(data)
        BY <2>1, <3>1, <3>4, <4>1 DEF BodySoFar
      <4>2. CASE x > Len(data)
        <5>1. x - Len(data) \in 1 .. n /\ x = Len(data) + (x - Len(data))
          BY <3>1, <3>4, <4>2
        <5> QED
          BY <3>4, <3>7, <5>1
      <4> QED
        BY <3>1, <3>4, <4>1, <4>2
    <3> QED
      BY <2>1, <3>1, <3>4, <3>6, <3>8 DEF BodySoFar
  <2> QED
    BY <2>2, <2>3 DEF StreamInv
<1>6. CASE UnpackFails \/ process_packet
  <2>1. /\ wfb = "body" /\ Len(data) = msg_length
        /\ UNCHANGED <<script, wire, closed, msgs, conns, msg_length, data, short>>
    BY <1>6 DEF UnpackFails, process_packet, socket
  <2>2. wfb' \in Connected \ {"body"}
    BY <1>6 DEF UnpackFails, process_packet, Go, Connected, Handling
  <2>3. ~short => Message = Len(taken) + 1 /\ Message # 0 /\ WireContinues
    BY <1>0, <2>1, WholeBody DEF StreamInv, Connected
  <2>4. Message \in Int
    BY <1>0 DEF Message, SocketOK
  <2>5. CASE UnpackFails
    <3>1. short /\ UNCHANGED taken
      BY <2>3, <2>5 DEF UnpackFails, socket
    <3> QED
      BY <1>0, <2>1, <3>1 DEF StreamInv, SocketOK, WholeMessages
  <2>6. CASE process_packet
    <3>1. taken' = Append(taken, Message)
      BY <2>6 DEF process_packet, Takes
    <3>2. SocketOK' /\ Len(taken') = Len(taken) + 1
      BY <1>0, <2>1, <2>4, <3>1 DEF SocketOK
    <3>3. ASSUME ~short PROVE WholeMessages' /\ WireContinues' /\ BodySoFar'
      <4>1. Message = Len(taken) + 1 /\ WireContinues /\ msg_length = BODY
        BY <2>1, <2>3, <3>3 DEF StreamInv, Connected, BodySoFar
      <4>2. WholeMessages'
        BY <1>0, <3>1, <3>3, <4>1 DEF WholeMessages, SocketOK
      <4>3. BytesRead' = BytesRead
        BY <1>0, <2>1, <2>2, <3>2, <4>1 DEF BytesRead
      <4> QED
        BY <2>1, <2>2, <4>1, <4>2, <4>3 DEF WireContinues, BodySoFar
    <3> QED
      BY <2>1, <3>2, <3>3 DEF StreamInv, WholeMessages
  <2> QED
    BY <1>6, <2>5, <2>6
<1> QED
  BY <1>1, <1>2, <1>3, <1>4, <1>5, <1>6, AsideStep

\* StreamInv is an invariant.
THEOREM StreamInvariance == Spec => []StreamInv
<1>1. Init => StreamInv
  <2> SUFFICES ASSUME Init PROVE StreamInv
    OBVIOUS
  <2>1. /\ script \in Scripts /\ conns = 0 /\ closed = TRUE /\ short = FALSE /\ msgs = <<>>
        /\ taken = <<>> /\ wfb = "top"
    BY DEF Init
  <2>2. Len(script.messages) \in Nat
    BY <2>1, TelemetryAssumption
  <2> QED
    <3>1. SocketOK
      <4>1. msgs \in Seq(Messages) /\ taken \in Seq(Int) /\ conns \in 0 .. Len(script.messages)
        BY <2>1, <2>2
      <4> QED
        BY <2>1, <4>1, Zenon DEF SocketOK
    <3>2. WholeMessages /\ wfb \notin Connected
      BY <2>1 DEF WholeMessages, Connected, Handling
    <3> QED
      BY <3>1, <3>2 DEF StreamInv
<1> QED
  BY <1>1, StreamNext, PTL DEF Spec

\* Unless recv() splits a prefix, the messages processed are those sent, in order.
THEOREM MessagesAreWhole == Spec => []WholeMessages
<1>1. StreamInv => WholeMessages
  BY DEF StreamInv
<1> QED
  BY <1>1, StreamInvariance, PTL

-----------------------------------------------------------------------------
(* What a run of facts does to the widgets *)

IsSeq(q) == \E S : q \in Seq(S)

\* The values on the way through a run of facts exist: the recursion of
\* Applied defines them.
LEMMA AppliedDef ==
  ASSUME NEW s, NEW q, Len(q) \in Nat
  PROVE  \E f : /\ f[0] = s /\ Applied(s, q) = f[Len(q)]
                /\ \A i \in 1 .. Len(q) : f[i] = setFact(f[i - 1], q[i])
<1> DEFINE Steps(f, n) == f = [i \in 0 .. n |-> IF i = 0 THEN s ELSE setFact(f[i - 1], q[i])]
           S == {n \in Nat : \E f : Steps(f, n)}
<1>1. 0 \in S
  <2> DEFINE f == [i \in 0 .. 0 |-> s]
  <2>1. Steps(f, 0)
    OBVIOUS
  <2> QED
    BY <2>1
<1>2. ASSUME NEW n \in Nat, n \in S PROVE n + 1 \in S
  <2>1. PICK f : Steps(f, n)
    BY <1>2
  <2>2. \A i \in 0 .. n : f[i] = IF i = 0 THEN s ELSE setFact(f[i - 1], q[i])
    BY <2>1, Zenon
  <2> DEFINE g == [i \in 0 .. n + 1 |-> IF i <= n THEN f[i] ELSE setFact(f[n], q[n + 1])]
  <2>3. ASSUME NEW i \in 0 .. n + 1
        PROVE  g[i] = IF i = 0 THEN s ELSE setFact(g[i - 1], q[i])
    <3>1. CASE i = 0
      BY <2>2, <3>1
    <3>2. CASE i # 0 /\ i <= n
      <4>1. i - 1 \in 0 .. n + 1 /\ i - 1 <= n /\ i \in 0 .. n
        BY <3>2
      <4>2. g[i] = f[i] /\ g[i - 1] = f[i - 1]
        BY <3>2, <4>1
      <4> QED
        BY <2>2, <3>2, <4>1, <4>2
    <3>3. CASE i = n + 1
      <4>1. g[n] = f[n] /\ g[n + 1] = setFact(f[n], q[n + 1]) /\ i - 1 = n /\ i # 0
        BY <3>3
      <4> QED
        BY <3>3, <4>1
    <3> QED
      BY <3>1, <3>2, <3>3
  <2>4. Steps(g, n + 1)
    <3> DEFINE h == [i \in 0 .. n + 1 |-> IF i = 0 THEN s ELSE setFact(g[i - 1], q[i])]
    <3>1. \A i \in 0 .. n + 1 : g[i] = h[i]
      BY <2>3
    <3> QED
      BY <3>1
  <2>5. \E h : Steps(h, n + 1)
    <3> HIDE DEF g, Steps
    <3> QED
      BY <2>4
  <2> HIDE DEF g, Steps
  <2> QED
    BY <2>5
<1>3. Len(q) \in S
  <2> HIDE DEF S
  <2> QED
    BY <1>1, <1>2, NatSetInduction
<1> DEFINE A == CHOOSE f : Steps(f, Len(q))
<1>4. Steps(A, Len(q)) /\ Applied(s, q) = A[Len(q)]
  <2>1. \E f : Steps(f, Len(q))
    BY <1>3
  <2>2. Steps(A, Len(q))
    BY <2>1, Zenon
  <2> QED
    BY <2>2, Zenon DEF Applied
<1> HIDE DEF A
<1>5. \A i \in 0 .. Len(q) : A[i] = IF i = 0 THEN s ELSE setFact(A[i - 1], q[i])
  BY <1>4, Zenon
<1>6. A[0] = s /\ \A i \in 1 .. Len(q) : A[i] = setFact(A[i - 1], q[i])
  BY <1>5
<1> QED
  BY <1>4, <1>6

\* The values of the facts of q that are for m.
Values(q, m) == {q[i].value : i \in {j \in 1 .. Len(q) : match(q[j], m)}}

\* What a widget shows after a run of facts: what it did, if none is for it,
\* or the value of one that is.
LEMMA AppliedValue ==
  ASSUME NEW s, NEW q, NEW m \in Matchers, Len(q) \in Nat
  PROVE  \/ Values(q, m) = {} /\ Applied(s, q)[m] = s[m]
         \/ Applied(s, q)[m] \in Values(q, m)
<1>1. PICK f : /\ f[0] = s /\ Applied(s, q) = f[Len(q)]
               /\ \A i \in 1 .. Len(q) : f[i] = setFact(f[i - 1], q[i])
  BY AppliedDef
<1> DEFINE After(n) == \/ (\A i \in 1 .. n : ~match(q[i], m)) /\ f[n][m] = s[m]
                       \/ \E i \in 1 .. n : match(q[i], m) /\ f[n][m] = q[i].value
           S == {n \in Nat : n <= Len(q) => After(n)}
<1>2. 0 \in S
  <2>1. f[0][m] = s[m]
    BY <1>1
  <2>2. \A i \in 1 .. 0 : ~match(q[i], m)
    OBVIOUS
  <2>3. After(0)
    BY <2>1, <2>2
  <2> HIDE DEF After
  <2> QED
    BY <2>3
<1>3. ASSUME NEW n \in Nat, n \in S PROVE n + 1 \in S
  <2>1. ASSUME n + 1 <= Len(q), After(n) PROVE After(n + 1)
    <3>1. f[n + 1][m] = IF match(q[n + 1], m) THEN q[n + 1].value ELSE f[n][m]
      <4>1. n + 1 \in 1 .. Len(q) /\ (n + 1) - 1 = n
        BY <2>1
      <4>2. f[n + 1] = setFact(f[n], q[n + 1])
        BY <1>1, <4>1
      <4> QED
        BY <4>2, Zenon DEF setFact
    <3>2. n + 1 \in 1 .. n + 1 /\ \A i \in 1 .. n + 1 : i = n + 1 \/ i \in 1 .. n
      OBVIOUS
    <3>3. 1 .. n \subseteq 1 .. n + 1
      OBVIOUS
    <3> QED
      BY <2>1, <3>1, <3>2, <3>3, Zenon
  <2> HIDE DEF After
  <2> QED
    BY <1>3, <2>1
<1>4. After(Len(q))
  <2>1. Len(q) \in S
    <3> HIDE DEF S
    <3> QED
      BY <1>2, <1>3, NatSetInduction
  <2> HIDE DEF After
  <2> QED
    BY <2>1
<1> QED
  BY <1>1, <1>4 DEF Values

\* A run of facts may be taken in two parts.
LEMMA AppliedJoin ==
  ASSUME NEW s, NEW q, NEW b, IsSeq(q), IsSeq(b)
  PROVE  Applied(s, q \o b) = Applied(Applied(s, q), b)
<1> DEFINE j == q \o b
<1>1. /\ Len(q) \in Nat /\ Len(b) \in Nat /\ Len(j) = Len(q) + Len(b)
      /\ \A i \in 1 .. Len(q) : j[i] = q[i]
      /\ \A i \in 1 .. Len(b) : j[Len(q) + i] = b[i]
  <2>1. PICK S : q \in Seq(S)
    BY DEF IsSeq
  <2>2. PICK T : b \in Seq(T)
    BY DEF IsSeq
  <2>3. q \in Seq(S \cup T) /\ b \in Seq(S \cup T)
    BY <2>1, <2>2
  <2>4. \A U : \A x, y \in Seq(U) :
          /\ Len(x) \in Nat /\ Len(y) \in Nat /\ Len(x \o y) = Len(x) + Len(y)
          /\ \A i \in 1 .. Len(x) : (x \o y)[i] = x[i]
          /\ \A i \in 1 .. Len(y) : (x \o y)[Len(x) + i] = y[i]
    OBVIOUS
  <2> QED
    BY <2>3, <2>4
<1> HIDE DEF j
<1>2. PICK f : /\ f[0] = s /\ Applied(s, j) = f[Len(j)]
               /\ \A i \in 1 .. Len(j) : f[i] = setFact(f[i - 1], j[i])
  <2>1. Len(j) \in Nat
    BY <1>1
  <2> QED
    BY <2>1, AppliedDef
<1>3. PICK g : /\ g[0] = s /\ Applied(s, q) = g[Len(q)]
               /\ \A i \in 1 .. Len(q) : g[i] = setFact(g[i - 1], q[i])
  <2>1. Len(q) \in Nat
    BY <1>1
  <2> QED
    BY <2>1, AppliedDef
<1>4. PICK h : /\ h[0] = Applied(s, q) /\ Applied(Applied(s, q), b) = h[Len(b)]
               /\ \A i \in 1 .. Len(b) : h[i] = setFact(h[i - 1], b[i])
  <2>1. Len(b) \in Nat
    BY <1>1
  <2> QED
    BY <2>1, AppliedDef
<1> DEFINE S == {n \in Nat : n <= Len(q) => f[n] = g[n]}
           T == {n \in Nat : n <= Len(b) => f[Len(q) + n] = h[n]}
<1>5. Len(q) \in S
  <2>1. 0 \in S
    BY <1>2, <1>3
  <2>2. ASSUME NEW n \in Nat, n \in S PROVE n + 1 \in S
    <3> SUFFICES ASSUME n + 1 <= Len(q) PROVE f[n + 1] = g[n + 1]
      OBVIOUS
    <3>1. n + 1 \in 1 .. Len(q) /\ n + 1 \in 1 .. Len(j) /\ (n + 1) - 1 = n /\ n <= Len(q)
      BY <1>1
    <3>2. f[n + 1] = setFact(f[n], j[n + 1]) /\ g[n + 1] = setFact(g[n], q[n + 1])
      BY <1>2, <1>3, <3>1
    <3> QED
      BY <1>1, <2>2, <3>1, <3>2
  <2> HIDE DEF S
  <2> QED
    BY <1>1, <2>1, <2>2, NatSetInduction
<1>6. Len(b) \in T
  <2>1. 0 \in T
    BY <1>1, <1>3, <1>4, <1>5
  <2>2. ASSUME NEW n \in Nat, n \in T PROVE n + 1 \in T
    <3> SUFFICES ASSUME n + 1 <= Len(b) PROVE f[Len(q) + (n + 1)] = h[n + 1]
      OBVIOUS
    <3>1. /\ n + 1 \in 1 .. Len(b) /\ Len(q) + (n + 1) \in 1 .. Len(j) /\ (n + 1) - 1 = n
          /\ (Len(q) + (n + 1)) - 1 = Len(q) + n /\ n <= Len(b)
      BY <1>1
    <3>2. /\ f[Len(q) + (n + 1)] = setFact(f[Len(q) + n], j[Len(q) + (n + 1)])
          /\ h[n + 1] = setFact(h[n], b[n + 1])
      BY <1>2, <1>4, <3>1
    <3> QED
      BY <1>1, <2>2, <3>1, <3>2
  <2> HIDE DEF T
  <2> QED
    BY <1>1, <2>1, <2>2, NatSetInduction
<1> QED
  BY <1>1, <1>2, <1>4, <1>6 DEF j

\* No facts, no change.
LEMMA AppliedNone == \A s : Applied(s, <<>>) = s
<1> SUFFICES ASSUME NEW s PROVE Applied(s, <<>>) = s
  OBVIOUS
<1>1. Len(<<>>) = 0
  OBVIOUS
<1> QED
  BY <1>1, AppliedDef

\* SetToSeq lists a finite set.
LEMMA SetToSeqHolds ==
  ASSUME NEW S, IsFiniteSet(S)
  PROVE  /\ SetToSeq(S) \in Seq(S)
         /\ \A x \in S : \E i \in DOMAIN SetToSeq(S) : SetToSeq(S)[i] = x
<1> DEFINE n == Cardinality(S)
           f == SetToSeq(S)
<1>1. n \in Nat /\ ExistsBijection(1 .. n, S)
  BY FS_NatBijection, FS_CountingElements
<1>2. \E g \in [1 .. n -> S] : IsInjective(g)
  BY <1>1 DEF ExistsBijection, Bijection, Injection
<1>3. f \in [1 .. n -> S] /\ IsInjective(f)
  BY <1>2 DEF SetToSeq
<1>4. f \in Surjection(1 .. n, S)
  <2>1. IsFiniteSet(1 .. n) /\ Cardinality(1 .. n) = n
    BY <1>1, FS_Interval
  <2>2. f \in Injection(1 .. n, S)
    BY <1>3 DEF Injection
  <2> HIDE DEF f
  <2> QED
    BY <2>1, <2>2, FS_Injection
<1> HIDE DEF f, n
<1>5. f \in Seq(S) /\ DOMAIN f = 1 .. n
  BY <1>1, <1>3
<1>6. \A x \in S : \E i \in 1 .. n : f[i] = x
  BY <1>4 DEF Surjection
<1> QED
  BY <1>5, <1>6 DEF f

\* A sequence that lists the elements of a set.
Lists(b, S) ==
  /\ IsSeq(b) /\ \A i \in DOMAIN b : b[i] \in S
  /\ \A x \in S : \E i \in DOMAIN b : b[i] = x

\* A sequence has the positions 1 to its length.
LEMMA SeqDomain == \A q : IsSeq(q) => Len(q) \in Nat /\ DOMAIN q = 1 .. Len(q)
  BY DEF IsSeq

\* The concatenation of two lists lists the union.
LEMMA ListsJoin ==
  ASSUME NEW a, NEW b, NEW S, NEW T, Lists(a, S), Lists(b, T)
  PROVE  Lists(a \o b, S \cup T)
<1>1. a \in Seq(S \cup T) /\ b \in Seq(S \cup T)
  <2>1. \A q, U : IsSeq(q) /\ (\A i \in DOMAIN q : q[i] \in U) => q \in Seq(U)
    BY DEF IsSeq
  <2> QED
    BY <2>1 DEF Lists
<1>2. \A U : \A x, y \in Seq(U) :
        /\ Len(x) \in Nat /\ Len(y) \in Nat
        /\ DOMAIN x = 1 .. Len(x) /\ DOMAIN y = 1 .. Len(y)
        /\ x \o y \in Seq(U) /\ DOMAIN (x \o y) = 1 .. Len(x) + Len(y)
        /\ \A i \in 1 .. Len(x) : (x \o y)[i] = x[i]
        /\ \A i \in 1 .. Len(y) : (x \o y)[Len(x) + i] = y[i]
  OBVIOUS
<1> DEFINE c == a \o b
<1>3. /\ Len(a) \in Nat /\ Len(b) \in Nat
      /\ DOMAIN a = 1 .. Len(a) /\ DOMAIN b = 1 .. Len(b)
      /\ c \in Seq(S \cup T) /\ DOMAIN c = 1 .. Len(a) + Len(b)
      /\ \A i \in 1 .. Len(a) : c[i] = a[i]
      /\ \A i \in 1 .. Len(b) : c[Len(a) + i] = b[i]
  BY <1>1, <1>2
<1> HIDE DEF c
<1>4. \A x \in S : \E i \in DOMAIN c : c[i] = x
  <2> SUFFICES ASSUME NEW x \in S PROVE \E i \in DOMAIN c : c[i] = x
    OBVIOUS
  <2>1. PICK i \in DOMAIN a : a[i] = x
    BY DEF Lists
  <2> QED
    BY <1>3, <2>1
<1>5. \A x \in T : \E i \in DOMAIN c : c[i] = x
  <2> SUFFICES ASSUME NEW x \in T PROVE \E i \in DOMAIN c : c[i] = x
    OBVIOUS
  <2>1. PICK i \in DOMAIN b : b[i] = x
    BY DEF Lists
  <2>2. Len(a) + i \in DOMAIN c /\ c[Len(a) + i] = x
    BY <1>3, <2>1
  <2> QED
    BY <2>2
<1>6. IsSeq(c) /\ \A i \in DOMAIN c : c[i] \in S \cup T
  BY <1>3 DEF IsSeq
<1> QED
  BY <1>4, <1>5, <1>6 DEF Lists, c

\* The short lists.
LEMMA ListsFew ==
  /\ Lists(<<>>, {})
  /\ \A x : Lists(<<x>>, {x})
  /\ \A x, y : Lists(<<x, y>>, {x, y})
<1>1. Lists(<<>>, {})
  <2>1. <<>> \in Seq({}) /\ DOMAIN <<>> = {}
    OBVIOUS
  <2> QED
    BY <2>1 DEF Lists, IsSeq
<1>2. ASSUME NEW x PROVE Lists(<<x>>, {x})
  <2> DEFINE q == <<x>>
  <2>1. q \in Seq({x}) /\ DOMAIN q = {1} /\ q[1] = x
    OBVIOUS
  <2> HIDE DEF q
  <2>2. IsSeq(q)
    BY <2>1, Zenon DEF IsSeq
  <2>3. Lists(q, {x})
    BY <2>1, <2>2, Zenon DEF Lists
  <2> QED
    BY <2>3 DEF q
<1>3. ASSUME NEW x, NEW y PROVE Lists(<<x, y>>, {x, y})
  <2> DEFINE q == <<x, y>>
  <2>1. q \in Seq({x, y}) /\ DOMAIN q = {1, 2} /\ q[1] = x /\ q[2] = y
    OBVIOUS
  <2> HIDE DEF q
  <2>2. IsSeq(q)
    BY <2>1, Zenon DEF IsSeq
  <2>3. Lists(q, {x, y})
    BY <2>1, <2>2, Zenon DEF Lists
  <2> QED
    BY <2>3 DEF q
<1> QED
  BY <1>1, <1>2, <1>3

\* A finite set is listed by SetToSeq, the image of one too.
LEMMA ListsImage ==
  ASSUME NEW A, IsFiniteSet(A), NEW f, DOMAIN f = A
  PROVE  Lists(SetToSeq({f[a] : a \in A}), {f[a] : a \in A})
<1> DEFINE S == {f[a] : a \in A}
           g == [a \in A |-> f[a]]
<1>1. g \in Surjection(A, S)
  BY DEF Surjection
<1>2. IsFiniteSet(S)
  <2> HIDE DEF S, g
  <2> QED
    BY <1>1, FS_Surjection
<1> DEFINE q == SetToSeq(S)
<1>3. q \in Seq(S) /\ \A x \in S : \E i \in DOMAIN q : q[i] = x
  <2> HIDE DEF S
  <2> QED
    BY <1>2, SetToSeqHolds
<1> HIDE DEF S, q
<1>4. IsSeq(q) /\ \A i \in DOMAIN q : q[i] \in S
  BY <1>3 DEF IsSeq
<1>5. Lists(q, S)
  BY <1>3, <1>4, Zenon DEF Lists
<1> QED
  BY <1>5 DEF q, S

\* What clear_wfbcli_rx_link_facts() and clear_wfbcli_tx_link_facts() publish.
RxClears(id) ==
  {Clears("rx", IdTag(id))} \cup {Clears("rx_ant", AntTags(id, a)) : a \in seen_rx_ant_ids}
TxClears(id) ==
  {Clears("tx", IdTag(id))} \cup {Clears("rf_temperature", AntTags(id, a)) : a \in seen_tx_ant_ids}

\* Their batches list them.
LEMMA ClearsListed ==
  ASSUME IsFiniteSet(seen_rx_ant_ids), IsFiniteSet(seen_tx_ant_ids), NEW id
  PROVE  /\ Lists(clear_wfbcli_rx_link_facts(id), RxClears(id))
         /\ Lists(clear_wfbcli_tx_link_facts(id), TxClears(id))
<1> DEFINE f == [a \in seen_rx_ant_ids |-> Clears("rx_ant", AntTags(id, a))]
           g == [a \in seen_tx_ant_ids |-> Clears("rf_temperature", AntTags(id, a))]
           F == {Clears("rx_ant", AntTags(id, a)) : a \in seen_rx_ant_ids}
           G == {Clears("rf_temperature", AntTags(id, a)) : a \in seen_tx_ant_ids}
<1>1. Lists(SetToSeq(F), F)
  <2>1. DOMAIN f = seen_rx_ant_ids /\ F = {f[a] : a \in seen_rx_ant_ids}
    OBVIOUS
  <2> HIDE DEF f, F
  <2> QED
    BY <2>1, ListsImage
<1>2. Lists(SetToSeq(G), G)
  <2>1. DOMAIN g = seen_tx_ant_ids /\ G = {g[a] : a \in seen_tx_ant_ids}
    OBVIOUS
  <2> HIDE DEF g, G
  <2> QED
    BY <2>1, ListsImage
<1> HIDE DEF f, g, F, G
<1>3. Lists(<<Clears("rx", IdTag(id))>>, {Clears("rx", IdTag(id))})
      /\ Lists(<<Clears("tx", IdTag(id))>>, {Clears("tx", IdTag(id))})
  BY ListsFew
<1>4. /\ Lists(<<Clears("rx", IdTag(id))>> \o SetToSeq(F), {Clears("rx", IdTag(id))} \cup F)
      /\ Lists(<<Clears("tx", IdTag(id))>> \o SetToSeq(G), {Clears("tx", IdTag(id))} \cup G)
  BY <1>1, <1>2, <1>3, ListsJoin
<1> QED
  BY <1>4, Zenon DEF F, G, RxClears, TxClears, clear_wfbcli_rx_link_facts, clear_wfbcli_tx_link_facts

\* What process_rx() and process_tx() publish of a link.
RxFacts(id, ants) ==
  {Fact("rx", IdTag(id), "value")} \cup {Fact("rx_ant", AntTags(id, a), "value") : a \in ants}
TxFacts(id, ants) ==
  {Fact("tx", IdTag(id), "value")} \cup {Fact("rf_temperature", AntTags(id, a), "value") : a \in ants}

\* Their batches list them.
LEMMA FactsListed ==
  ASSUME NEW id, NEW ants, IsFiniteSet(ants)
  PROVE  /\ Lists(<<Fact("rx", IdTag(id), "value")>>
                  \o SetToSeq({Fact("rx_ant", AntTags(id, a), "value") : a \in ants}),
                  RxFacts(id, ants))
         /\ Lists(<<Fact("tx", IdTag(id), "value")>>
                  \o SetToSeq({Fact("rf_temperature", AntTags(id, a), "value") : a \in ants}),
                  TxFacts(id, ants))
<1> DEFINE f == [a \in ants |-> Fact("rx_ant", AntTags(id, a), "value")]
           g == [a \in ants |-> Fact("rf_temperature", AntTags(id, a), "value")]
           F == {Fact("rx_ant", AntTags(id, a), "value") : a \in ants}
           G == {Fact("rf_temperature", AntTags(id, a), "value") : a \in ants}
<1>1. Lists(SetToSeq(F), F)
  <2>1. DOMAIN f = ants /\ F = {f[a] : a \in ants}
    OBVIOUS
  <2> HIDE DEF f, F
  <2> QED
    BY <2>1, ListsImage
<1>2. Lists(SetToSeq(G), G)
  <2>1. DOMAIN g = ants /\ G = {g[a] : a \in ants}
    OBVIOUS
  <2> HIDE DEF g, G
  <2> QED
    BY <2>1, ListsImage
<1> HIDE DEF f, g, F, G
<1>3. Lists(<<Fact("rx", IdTag(id), "value")>>, {Fact("rx", IdTag(id), "value")})
      /\ Lists(<<Fact("tx", IdTag(id), "value")>>, {Fact("tx", IdTag(id), "value")})
  BY ListsFew
<1>4. /\ Lists(<<Fact("rx", IdTag(id), "value")>> \o SetToSeq(F), {Fact("rx", IdTag(id), "value")} \cup F)
      /\ Lists(<<Fact("tx", IdTag(id), "value")>> \o SetToSeq(G), {Fact("tx", IdTag(id), "value")} \cup G)
  BY <1>1, <1>2, <1>3, ListsJoin
<1> QED
  BY <1>4, Zenon DEF F, G, RxFacts, TxFacts

-----------------------------------------------------------------------------
(* Where the threads are *)

\* What a thread is about to publish, and what waits for the OSD.
BatchShape ==
  /\ IsSeq(fact_queue)
  /\ \A p \in Publishers : /\ IsSeq(pub[p].batch)
                           /\ pub[p].at = "idle" => pub[p].batch = <<>>

\* The sets of antennas are those of finitely many messages.
SeenFinite == IsFiniteSet(seen_rx_ant_ids) /\ IsFiniteSet(seen_tx_ant_ids)

\* A message that is handled is one of the connection's, and of its type.
InHand ==
  /\ wfb \in Handling => Message \in DOMAIN msgs
  /\ wfb \in {"rx", "rx_ants", "rx_publish"} => current.type = "rx"
  /\ wfb \in {"tx", "tx_publish"} => current.type = "tx"

\* The client's place, its connection and what it has to publish.
ClientPlace ==
  /\ cli_connected \in BOOLEAN
  /\ wfb = "retry" => ~cli_connected
  /\ wfb \in Handling \cup {"prefix", "recv", "body", "cleared"} => cli_connected
  /\ wfb \in {"retry", "done"} => pub["wfb"].at = "idle"

\* main's place: it joins the client before it stops the service, and does
\* neither during a clear.
MainPlace ==
  /\ clearing["wfb"].at \in {"rx", "tx", "none"} /\ clearing["main"].at \in {"rx", "tx", "none"}
  /\ main # "loop" => clearing["main"].at = "none"
  /\ main \notin {"loop", "join"} => wfb = "done"
  /\ instance # "live" => main \notin {"loop", "join"}

PlaceInv == BatchShape /\ SeenFinite /\ InHand /\ ClientPlace /\ MainPlace

Before == PubInv /\ StreamInv /\ PlaceInv

\* The message in hand stays the same while more are sent.
LEMMA MessageStands ==
  ASSUME SocketOK, Message \in DOMAIN msgs, NEW m, msgs' = Append(msgs, m), data' = data
  PROVE  Message' = Message /\ current' = current /\ Message' \in DOMAIN msgs'
<1>1. msgs \in Seq(Messages) /\ Len(msgs) \in Nat /\ DOMAIN msgs = 1 .. Len(msgs)
  BY DEF SocketOK
<1>2. 0 \notin DOMAIN msgs
  BY <1>1
<1>3. DOMAIN msgs' = 1 .. Len(msgs) + 1 /\ \A i \in DOMAIN msgs : msgs'[i] = msgs[i]
  <2>1. msgs \in Seq(Messages \cup {m}) /\ m \in Messages \cup {m}
    BY <1>1
  <2> QED
    BY <1>1, <2>1
<1>4. \E i \in DOMAIN msgs : data = [j \in 1 .. BODY |-> <<i, PREFIX + j>>]
  BY <1>2 DEF Message
<1>5. DOMAIN msgs \subseteq DOMAIN msgs'
  BY <1>1, <1>3
<1>6. Message = data[1][1] /\ Message' = data[1][1]
  BY <1>4, <1>5, Zenon DEF Message
<1> QED
  BY <1>3, <1>5, <1>6 DEF current

\* A message that was read is one of the connection's.
LEMMA MessageRead == Message # 0 => Message \in DOMAIN msgs
<1> SUFFICES ASSUME Message # 0 PROVE Message \in DOMAIN msgs
  OBVIOUS
<1>1. PICK i \in DOMAIN msgs : data = [j \in 1 .. BODY |-> <<i, PREFIX + j>>]
  BY DEF Message
<1>2. Message = data[1][1]
  BY <1>1, Zenon DEF Message
<1>3. data[1] = <<i, PREFIX + 1>>
  BY <1>1
<1> QED
  BY <1>2, <1>3

\* What handles a message does not move the socket.
LEMMA InHandNext ==
  ASSUME Before, [Next]_vars
  PROVE  InHand'
<1>0. SocketOK /\ InHand
  BY DEF Before, StreamInv, PlaceInv
<1>1. CASE Aside /\ ~process_packet
  <2>1. Message' = Message /\ current' = current /\ UNCHANGED msgs
    BY <1>1 DEF Aside, Message, current
  <2>2. \/ wfb' = wfb \/ wfb' \notin Handling
        \/ (wfb = "rx" /\ wfb' = "rx_ants") \/ (wfb = "rx_ants" /\ wfb' = "rx_publish")
        \/ wfb = "tx" /\ wfb' = "tx_publish"
    <3>1. CASE \/ Disconnected \/ ConnectFails \/ AfterClear \/ Retries \/ GivesUp \/ Leaves \/ Receives \/ RecvFails
               \/ ReadsPrefix \/ ReadsBody \/ Connects \/ UnpackFails
      BY <3>1 DEF Handling, Disconnected, ConnectFails, AfterClear, Retries, GivesUp,
        Leaves, Receives, RecvFails, Receiving, ReadsPrefix, ReadsBody, Connects, UnpackFails, Go
    <3>2. CASE \/ RemembersRxId \/ RemembersRxAnts \/ process_rx \/ RemembersTx \/ process_tx \/ process_title
      <4>1. \/ wfb' = "prefix" \/ (wfb = "rx" /\ wfb' = "rx_ants") \/ (wfb = "rx_ants" /\ wfb' = "rx_publish")
            \/ wfb = "tx" /\ wfb' = "tx_publish"
        BY <3>2 DEF RemembersRxId, RemembersRxAnts, process_rx, RemembersTx, process_tx,
          process_title, Go
      <4> QED
        BY <4>1 DEF Handling
    <3>3. CASE clear_osd_wfbcli("wfb") \/ clear_osd_wfbcli("main")
      BY <3>3 DEF clear_osd_wfbcli, ClearRxId, ForgetRx, ClearTxId, ForgetTx
    <3>4. CASE \/ StreamLost \/ LeavesLoop \/ JoinsClient \/ StopsOsd \/ Osd \/ DvrPublishes \/ sig_handler
               \/ ServerSends \/ ServerCloses
      BY <3>4 DEF StreamLost, LeavesLoop, JoinsClient, StopsOsd, MainStep, Osd, DvrPublishes,
        sig_handler, ServerSends, ServerCloses
    <3>5. ASSUME NEW p \in Publishers, Publish(p) PROVE wfb' = wfb
      BY <3>5 DEF Publish
    <3>6. CASE UNCHANGED vars
      BY <3>6 DEF vars
    <3> QED
      BY <3>1, <3>2, <3>3, <3>4, <3>5, <3>6, <1>1 DEF Next, Running, Client, Main
  <2>3. "rx" \in Handling /\ "rx_ants" \in Handling /\ "tx" \in Handling
    BY DEF Handling
  <2>4. CASE wfb' = wfb
    BY <1>0, <2>1, <2>4 DEF InHand
  <2>5. CASE wfb' \notin Handling
    BY <2>5 DEF InHand, Handling
  <2>6. CASE \/ (wfb = "rx" /\ wfb' = "rx_ants") \/ (wfb = "rx_ants" /\ wfb' = "rx_publish")
             \/ wfb = "tx" /\ wfb' = "tx_publish"
    <3>1. Message' \in DOMAIN msgs'
      BY <1>0, <2>1, <2>3, <2>6 DEF InHand
    <3>2. \/ wfb' \in {"rx_ants", "rx_publish"} /\ current.type = "rx"
          \/ wfb' = "tx_publish" /\ current.type = "tx"
      BY <1>0, <2>6 DEF InHand
    <3> QED
      BY <2>1, <3>1, <3>2 DEF InHand
  <2> QED
    BY <2>2, <2>4, <2>5, <2>6
<1>2. CASE Connects \/ ReadsPrefix \/ UnpackFails \/ ReadsBody
  <2>1. wfb' \notin Handling
    BY <1>2 DEF Connects, ReadsPrefix, UnpackFails, ReadsBody, Go, Handling
  <2> QED
    BY <2>1 DEF InHand, Handling
<1>3. CASE ServerSends
  <2>1. PICK m : msgs' = Append(msgs, m)
    BY <1>3 DEF ServerSends
  <2>2. data' = data /\ wfb' = wfb
    BY <1>3 DEF ServerSends
  <2>3. CASE wfb \in Handling
    <3>1. Message' = Message /\ current' = current /\ Message' \in DOMAIN msgs'
      BY <1>0, <2>1, <2>2, <2>3, MessageStands DEF InHand
    <3> QED
      BY <1>0, <2>2, <3>1, Zenon DEF InHand
  <2>4. CASE wfb \notin Handling
    BY <2>2, <2>4 DEF InHand, Handling
  <2> QED
    BY <2>3, <2>4
<1>4. CASE process_packet
  <2>1. UNCHANGED <<msgs, data>> /\ Message \in DOMAIN msgs
    BY <1>4, MessageRead DEF process_packet
  <2>2. Message' = Message /\ current' = current
    BY <2>1 DEF Message, current
  <2>3. /\ wfb' = "rx" => current.type = "rx"
        /\ wfb' = "tx" => current.type = "tx"
        /\ wfb' \in {"rx", "tx", "title", "prefix"}
    BY <1>4 DEF process_packet, Go, current
  <2> QED
    BY <2>1, <2>2, <2>3 DEF InHand, Handling
<1> QED
  BY <1>1, <1>2, <1>3, <1>4, AsideStep

-----------------------------------------------------------------------------
(* What the threads publish *)

\* Thread t begins to publish the facts S.
Says(t, S) ==
  /\ pub'[t].at = "want" /\ Lists(pub'[t].batch, S)
  /\ \A p \in Publishers \ {t} : pub'[p] = pub[p]
  /\ UNCHANGED <<instance, locked, fact_queue, shown>>

\* A batch that lists S says S.
LEMMA SaysBatch ==
  ASSUME PubInv, NEW t \in Publishers, NEW b, NEW S, Lists(b, S), publish(t, b),
         UNCHANGED <<instance, locked, fact_queue, shown>>
  PROVE  Says(t, S)
<1>1. \A p \in Publishers : pub'[p] = IF p = t THEN [at |-> "want", batch |-> b] ELSE pub[p]
  BY DEF PubInv, PubShape, publish
<1> QED
  BY <1>1 DEF Says

\* The message of a link that is handled names finitely many antennas.
LEMMA AntsFinite ==
  ASSUME Before, wfb \in {"rx", "rx_ants", "rx_publish", "tx", "tx_publish"}
  PROVE  IsFiniteSet(current.ants)
<1>1. Message \in DOMAIN msgs /\ current.type \in {"rx", "tx"}
  BY DEF Before, PlaceInv, InHand, Handling
<1>2. current \in Messages
  BY <1>1 DEF current, Before, StreamInv, SocketOK
<1> QED
  BY <1>1, <1>2 DEF Messages

DroneFacts(id) == {Fact("drone.connected", IdTag(id), "true"), Fact("drone.connected", IdTag(id), "false")}

\* process_rx() publishes the link, its antennas and perhaps the drone's state.
LEMMA RxSays ==
  ASSUME Before, process_rx
  PROVE  \E D \in SUBSET DroneFacts(current.id) : Says("wfb", RxFacts(current.id, current.ants) \cup D)
<1> DEFINE id == current.id
           ants == current.ants
           b == <<Fact("rx", IdTag(id), "value")>>
                \o SetToSeq({Fact("rx_ant", AntTags(id, a), "value") : a \in ants})
           c(late) == IF ants # {} THEN <<Fact("drone.connected", IdTag(id), "true")>>
                      ELSE IF late THEN <<Fact("drone.connected", IdTag(id), "false")>> ELSE <<>>
<1>1. PICK late \in BOOLEAN : publish("wfb", b \o c(late)) /\ wfb = "rx_publish"
                              /\ UNCHANGED <<instance, locked, fact_queue, shown>>
  BY DEF process_rx
<1>2. IsFiniteSet(ants)
  BY <1>1, AntsFinite
<1>3. Lists(b, RxFacts(id, ants))
  <2> HIDE DEF id, ants
  <2> QED
    BY <1>2, FactsListed
<1>4. PICK D \in SUBSET DroneFacts(id) : Lists(c(late), D)
  <2>1. \/ c(late) = <<Fact("drone.connected", IdTag(id), "true")>>
        \/ c(late) = <<Fact("drone.connected", IdTag(id), "false")>>
        \/ c(late) = <<>>
    BY Zenon
  <2>2. /\ {Fact("drone.connected", IdTag(id), "true")} \in SUBSET DroneFacts(id)
        /\ {Fact("drone.connected", IdTag(id), "false")} \in SUBSET DroneFacts(id)
        /\ {} \in SUBSET DroneFacts(id)
    BY DEF DroneFacts
  <2> HIDE DEF c, id
  <2> QED
    BY <2>1, <2>2, ListsFew
<1> HIDE DEF b, c, id, ants
<1>5. Lists(b \o c(late), RxFacts(id, ants) \cup D)
  BY <1>3, <1>4, ListsJoin
<1>6. Says("wfb", RxFacts(id, ants) \cup D)
  BY <1>1, <1>5, SaysBatch, TelemetryAssumption DEF Before
<1> QED
  BY <1>4, <1>6 DEF id, ants

\* process_tx() publishes the link and its antennas.
LEMMA TxSays ==
  ASSUME Before, process_tx
  PROVE  Says("wfb", TxFacts(current.id, current.ants))
<1> DEFINE id == current.id
           ants == current.ants
           b == <<Fact("tx", IdTag(id), "value")>>
                \o SetToSeq({Fact("rf_temperature", AntTags(id, a), "value") : a \in ants})
<1>1. publish("wfb", b) /\ wfb = "tx_publish" /\ UNCHANGED <<instance, locked, fact_queue, shown>>
  BY DEF process_tx
<1>2. IsFiniteSet(ants)
  BY <1>1, AntsFinite
<1>3. Lists(b, TxFacts(id, ants))
  <2> HIDE DEF id, ants
  <2> QED
    BY <1>2, FactsListed
<1> HIDE DEF b, id, ants
<1>6. Says("wfb", TxFacts(id, ants))
  BY <1>1, <1>3, SaysBatch, TelemetryAssumption DEF Before
<1> QED
  BY <1>6 DEF id, ants

\* What the other steps that publish say.
LEMMA FewSay ==
  ASSUME Before
  PROVE  /\ Disconnected /\ ~signal =>
              Says("wfb", {Fact("cli.connected", NoTags, "false"), Fact("drone.connected", NoTags, "false")})
         /\ Connects => Says("wfb", {Fact("cli.connected", NoTags, "true")})
         /\ process_title => Says("wfb", {Fact("cli_title", NoTags, "value")})
         /\ DvrPublishes => Says("dvr", {Fact("dvr.recording", NoTags, "value")})
         /\ \A t \in {"wfb", "main"} : ForgetTx(t) => Says(t, {Clears("cli_title", NoTags)})
<1> USE TelemetryAssumption DEF Before
<1>1. Disconnected /\ ~signal =>
        Says("wfb", {Fact("cli.connected", NoTags, "false"), Fact("drone.connected", NoTags, "false")})
  BY ListsFew, SaysBatch DEF Disconnected
<1>2. Connects => Says("wfb", {Fact("cli.connected", NoTags, "true")})
  BY ListsFew, SaysBatch DEF Connects
<1>3. process_title => Says("wfb", {Fact("cli_title", NoTags, "value")})
  BY ListsFew, SaysBatch DEF process_title
<1>4. DvrPublishes => Says("dvr", {Fact("dvr.recording", NoTags, "value")})
  BY ListsFew, SaysBatch DEF DvrPublishes
<1>5. ASSUME NEW t \in {"wfb", "main"}, ForgetTx(t) PROVE Says(t, {Clears("cli_title", NoTags)})
  BY <1>5, ListsFew, SaysBatch DEF ForgetTx, clear_wfbcli_cli_header_facts
<1> QED
  BY <1>1, <1>2, <1>3, <1>4, <1>5

\* The step of a walk clears a link that is remembered and not yet done.
RxWalkStep(t, id) ==
  /\ id \in seen_rx_ids \ clearing[t].done /\ clearing[t].at = "rx" /\ pub[t].at = "idle"
  /\ Walk(t, "rx", clearing[t].done \cup {id}) /\ IF id = "" THEN UNCHANGED pub ELSE Says(t, RxClears(id))
  /\ UNCHANGED <<fact_queue, shown>>
TxWalkStep(t, id) ==
  /\ id \in seen_tx_ids \ clearing[t].done /\ clearing[t].at = "tx" /\ pub[t].at = "idle"
  /\ Walk(t, "tx", clearing[t].done \cup {id}) /\ IF id = "" THEN UNCHANGED pub ELSE Says(t, TxClears(id))
  /\ UNCHANGED <<fact_queue, shown>>

\* Each step of a walk over the links is one of them.
LEMMA WalksSay ==
  ASSUME Before, NEW t \in {"wfb", "main"}
  PROVE  /\ ClearRxId(t) => \E id : RxWalkStep(t, id)
         /\ ClearTxId(t) => \E id : TxWalkStep(t, id)
<1>0. t \in Publishers /\ IsFiniteSet(seen_rx_ant_ids) /\ IsFiniteSet(seen_tx_ant_ids) /\ PubInv
  BY TelemetryAssumption DEF Before, PlaceInv, SeenFinite
<1>1. ASSUME ClearRxId(t) PROVE \E id : RxWalkStep(t, id)
  <2>1. PICK id \in seen_rx_ids \ clearing[t].done :
          /\ clearing[t].at = "rx" /\ pub[t].at = "idle"
          /\ IF id = "" THEN UNCHANGED pub ELSE publish(t, clear_wfbcli_rx_link_facts(id))
          /\ Walk(t, "rx", clearing[t].done \cup {id})
          /\ UNCHANGED <<instance, locked, fact_queue, shown>>
    BY <1>1 DEF ClearRxId
  <2>2. Lists(clear_wfbcli_rx_link_facts(id), RxClears(id))
    BY <1>0, ClearsListed
  <2>3. IF id = "" THEN UNCHANGED pub ELSE Says(t, RxClears(id))
    BY <1>0, <2>1, <2>2, SaysBatch
  <2> QED
    BY <2>1, <2>3 DEF RxWalkStep
<1>2. ASSUME ClearTxId(t) PROVE \E id : TxWalkStep(t, id)
  <2>1. PICK id \in seen_tx_ids \ clearing[t].done :
          /\ clearing[t].at = "tx" /\ pub[t].at = "idle"
          /\ IF id = "" THEN UNCHANGED pub ELSE publish(t, clear_wfbcli_tx_link_facts(id))
          /\ Walk(t, "tx", clearing[t].done \cup {id})
          /\ UNCHANGED <<instance, locked, fact_queue, shown>>
    BY <1>2 DEF ClearTxId
  <2>2. Lists(clear_wfbcli_tx_link_facts(id), TxClears(id))
    BY <1>0, ClearsListed
  <2>3. IF id = "" THEN UNCHANGED pub ELSE Says(t, TxClears(id))
    BY <1>0, <2>1, <2>2, SaysBatch
  <2> QED
    BY <2>1, <2>3 DEF TxWalkStep
<1> QED
  BY <1>1, <1>2

\* The client moves on to where it neither publishes nor walks, and only when
\* it has published what it had to.
Moved ==
  \/ UNCHANGED <<wfb, cli_connected>>
  \/ /\ pub["wfb"].at = "idle" /\ clearing["wfb"].at = "none"
     /\ \/ wfb = "cleared" /\ wfb' = "retry" /\ cli_connected' = FALSE
        \/ /\ cli_connected' = cli_connected
           /\ \/ wfb = "retry" /\ wfb' = "connect"
              \/ wfb \in {"connect", "prefix", "recv", "body"} /\ wfb' = "top"
              \/ wfb \in {"prefix", "recv", "body"} /\ wfb' \in {"prefix", "recv", "body", "rx", "tx", "title"}
              \/ wfb = "top" /\ wfb' = "done"

\* The steps that publish nothing, walk nowhere and remember nothing.
Passing ==
  \/ AfterClear \/ Retries \/ GivesUp \/ Leaves \/ Receives \/ ReadsPrefix \/ ReadsBody \/ RecvFails
  \/ UnpackFails \/ process_packet \/ (Disconnected /\ signal)
  \/ sig_handler \/ LeavesLoop \/ JoinsClient \/ StopsOsd \/ Osd \/ ServerSends \/ ServerCloses
  \/ UNCHANGED vars

LEMMA PassingMoves ==
  ASSUME Before, Passing
  PROVE  /\ Moved /\ UNCHANGED <<pub, clearing, seen>>
         /\ UNCHANGED <<fact_queue, shown>> \/ drainFacts
<1>0. /\ wfb \in {"recv", "body"} => pub["wfb"].at = "idle"
      /\ wfb = "retry" => pub["wfb"].at = "idle"
      /\ wfb # "cleared" => clearing["wfb"].at = "none"
  BY DEF Before, PubInv, OneBatch, PlaceInv, ClientPlace
<1>1. CASE AfterClear \/ Retries \/ GivesUp \/ Leaves \/ Receives \/ ReadsPrefix \/ ReadsBody
  <2>1. Moved
    BY <1>0, <1>1 DEF AfterClear, Retries, GivesUp, Leaves, Receives, ReadsPrefix, ReadsBody, Moved, Go, Free
  <2> QED
    BY <1>1, <2>1 DEF AfterClear, Retries, GivesUp, Leaves, Receives, ReadsPrefix, ReadsBody, service
<1>2. CASE RecvFails \/ UnpackFails \/ process_packet \/ (Disconnected /\ signal)
  <2>1. Moved
    BY <1>0, <1>2 DEF RecvFails, Receiving, UnpackFails, process_packet, Disconnected, Moved, Go, Free
  <2> QED
    BY <1>2, <2>1 DEF RecvFails, Receiving, UnpackFails, process_packet, Disconnected, service
<1>3. CASE sig_handler \/ LeavesLoop \/ JoinsClient \/ StopsOsd
  BY <1>3 DEF sig_handler, LeavesLoop, JoinsClient, StopsOsd, StopMoves, StopStores, StopJoins,
    MainStep, Moved, service
<1>4. CASE Osd \/ ServerSends \/ ServerCloses \/ UNCHANGED vars
  BY <1>4 DEF Osd, OsdThread, WaitEnds, drainFacts, ServerSends, ServerCloses, vars, Moved, service
<1> QED
  BY <1>1, <1>2, <1>3, <1>4 DEF Passing

\* Every step passes, or publishes, walks or remembers.
LEMMA StepKinds ==
  ASSUME [Next]_vars
  PROVE  \/ Passing
         \/ RemembersRxId \/ RemembersRxAnts \/ RemembersTx
         \/ (Disconnected /\ ~signal) \/ Connects \/ process_rx \/ process_tx \/ process_title
         \/ ConnectFails \/ StreamLost
         \/ \E t \in {"wfb", "main"} : clear_osd_wfbcli(t)
         \/ DvrPublishes
         \/ \E p \in Publishers : Publish(p)
  BY DEF Next, Running, Client, Main, Passing

\* The steps that say something say it all in one batch.
LEMMA BatchSaid ==
  ASSUME Before, NEW t \in Publishers, NEW S, Says(t, S)
  PROVE  BatchShape'
  BY DEF Before, PlaceInv, BatchShape, Says, Lists

\* Every step keeps BatchShape.
LEMMA BatchNext ==
  ASSUME Before, [Next]_vars
  PROVE  BatchShape'
<1>0. BatchShape /\ {"wfb", "main", "dvr"} \subseteq Publishers /\ IsSeq(<<>>)
  BY TelemetryAssumption, ListsFew DEF Before, PlaceInv, Lists
<1>1. ASSUME UNCHANGED <<pub, fact_queue>> PROVE BatchShape'
  BY <1>0, <1>1 DEF BatchShape
<1>2. CASE Passing
  <2>1. CASE UNCHANGED <<pub, fact_queue>>
    BY <1>1, <2>1
  <2>2. CASE drainFacts
    BY <1>0, <2>2 DEF drainFacts, BatchShape
  <2> QED
    BY <1>2, <2>1, <2>2, PassingMoves
<1>3. CASE RemembersRxId \/ RemembersRxAnts \/ RemembersTx \/ ConnectFails \/ StreamLost
  BY <1>1, <1>3 DEF RemembersRxId, RemembersRxAnts, RemembersTx, ConnectFails, StreamLost, service
<1>4. CASE (Disconnected /\ ~signal) \/ Connects \/ process_rx \/ process_tx \/ process_title \/ DvrPublishes
  <2>1. \E t \in Publishers : \E S : Says(t, S)
    BY <1>0, <1>4, FewSay, RxSays, TxSays, Zenon
  <2> QED
    BY <2>1, BatchSaid
<1>5. ASSUME NEW t \in {"wfb", "main"}, clear_osd_wfbcli(t) PROVE BatchShape'
  <2>1. CASE ForgetRx(t)
    BY <1>1, <2>1 DEF ForgetRx, service
  <2>2. CASE ~ForgetRx(t)
    <3>1. UNCHANGED <<pub, fact_queue>> \/ \E S : Says(t, S)
      <4>1. ClearRxId(t) \/ ClearTxId(t) \/ ForgetTx(t)
        BY <1>5, <2>2 DEF clear_osd_wfbcli
      <4> QED
        BY <4>1, FewSay, WalksSay DEF RxWalkStep, TxWalkStep
    <3>2. CASE UNCHANGED <<pub, fact_queue>>
      BY <1>1, <3>2
    <3> QED
      BY <1>0, <3>1, <3>2, BatchSaid
  <2> QED
    BY <2>1, <2>2
<1>6. ASSUME NEW p \in Publishers, Publish(p) PROVE BatchShape'
  <2>1. CASE publishFacts(p)
    <3>1. UNCHANGED fact_queue
      BY <2>1 DEF publishFacts
    <3>2. \A q \in Publishers :
            pub'[q] = pub[q] \/ pub'[q] = Idle \/ (pub'[q].batch = pub[q].batch /\ pub'[q].at = "in")
      BY <2>1 DEF publishFacts, Before, PubInv, PubShape
    <3> QED
      BY <1>0, <3>1, <3>2 DEF BatchShape, Idle
  <2>2. CASE enqueueFacts(p)
    <3>1. fact_queue' = fact_queue \o pub[p].batch /\ \A q \in Publishers : pub'[q] = pub[q] \/ pub'[q] = Idle
      BY <2>2 DEF enqueueFacts, Before, PubInv, PubShape
    <3>2. IsSeq(fact_queue')
      <4>1. \A a, b : IsSeq(a) /\ IsSeq(b) => IsSeq(a \o b)
        <5> SUFFICES ASSUME NEW a, NEW b, IsSeq(a), IsSeq(b) PROVE IsSeq(a \o b)
          OBVIOUS
        <5>1. PICK S : a \in Seq(S)
          BY DEF IsSeq
        <5>2. PICK T : b \in Seq(T)
          BY DEF IsSeq
        <5>3. a \o b \in Seq(S \cup T)
          BY <5>1, <5>2
        <5> QED
          BY <5>3 DEF IsSeq
      <4> QED
        BY <1>0, <3>1, <4>1 DEF BatchShape
    <3> QED
      BY <1>0, <3>1, <3>2 DEF BatchShape, Idle
  <2> QED
    BY <1>6, <2>1, <2>2 DEF Publish
<1> QED
  BY <1>2, <1>3, <1>4, <1>5, <1>6, StepKinds

\* Every step keeps the antennas finite.
LEMMA SeenNext ==
  ASSUME Before, [Next]_vars
  PROVE  SeenFinite'
<1>0. IsFiniteSet(seen_rx_ant_ids) /\ IsFiniteSet(seen_tx_ant_ids)
  BY DEF Before, PlaceInv, SeenFinite
<1>1. \/ UNCHANGED <<seen_rx_ant_ids, seen_tx_ant_ids>>
      \/ RemembersRxAnts \/ RemembersTx
      \/ \E t \in {"wfb", "main"} : ForgetRx(t) \/ ForgetTx(t)
  <2>1. CASE Passing \/ RemembersRxId
    BY <2>1, PassingMoves DEF RemembersRxId, seen
  <2>2. CASE (Disconnected /\ ~signal) \/ Connects \/ process_rx \/ process_tx \/ process_title
    BY <2>2 DEF Disconnected, Connects, process_rx, process_tx, process_title, seen
  <2>3. CASE ConnectFails \/ StreamLost \/ DvrPublishes
    BY <2>3 DEF ConnectFails, StreamLost, DvrPublishes, seen
  <2>4. ASSUME NEW t \in {"wfb", "main"}, ClearRxId(t) \/ ClearTxId(t)
        PROVE  UNCHANGED <<seen_rx_ant_ids, seen_tx_ant_ids>>
    BY <2>4 DEF ClearRxId, ClearTxId, seen
  <2>5. ASSUME NEW p \in Publishers, Publish(p) PROVE UNCHANGED <<seen_rx_ant_ids, seen_tx_ant_ids>>
    BY <2>5 DEF Publish, seen
  <2> QED
    BY <2>1, <2>2, <2>3, <2>4, <2>5, StepKinds DEF clear_osd_wfbcli
<1>2. ASSUME RemembersRxAnts \/ RemembersTx PROVE SeenFinite'
  <2>1. IsFiniteSet(current.ants)
    BY <1>2, AntsFinite DEF RemembersRxAnts, RemembersTx
  <2>2. \A S : IsFiniteSet(S) => IsFiniteSet(S \cup current.ants)
    BY <2>1, FS_Union
  <2> QED
    BY <1>0, <1>2, <2>2 DEF SeenFinite, RemembersRxAnts, RemembersTx
<1>3. ASSUME NEW t, ForgetRx(t) \/ ForgetTx(t) PROVE SeenFinite'
  <2>1. IsFiniteSet({})
    BY FS_EmptySet
  <2> QED
    BY <1>0, <1>3, <2>1 DEF SeenFinite, ForgetRx, ForgetTx
<1> QED
  BY <1>0, <1>1, <1>2, <1>3 DEF SeenFinite

\* Every step keeps ClientPlace and MainPlace.
LEMMA PlacesNext ==
  ASSUME Before, [Next]_vars
  PROVE  ClientPlace' /\ MainPlace'
<1>0. ClientPlace /\ MainPlace /\ {"wfb", "main", "dvr"} \subseteq Publishers
  BY TelemetryAssumption DEF Before, PlaceInv
<1>1. CASE Passing
  <2>1. Moved /\ UNCHANGED <<pub, clearing>>
    BY <1>1, PassingMoves
  <2>2. ClientPlace'
    <3>1. cli_connected' \in BOOLEAN
      <4>1. cli_connected' = cli_connected \/ cli_connected' = FALSE
        BY <2>1 DEF Moved
      <4> QED
        BY <1>0, <4>1, Zenon DEF ClientPlace
    <3>2. CASE UNCHANGED <<wfb, cli_connected>>
      BY <1>0, <2>1, <3>2 DEF ClientPlace
    <3>3. CASE wfb = "cleared" /\ wfb' = "retry" /\ cli_connected' = FALSE /\ pub["wfb"].at = "idle"
      BY <2>1, <3>1, <3>3 DEF ClientPlace, Handling
    <3>4. CASE /\ cli_connected' = cli_connected /\ pub["wfb"].at = "idle"
               /\ \/ wfb = "retry" /\ wfb' = "connect"
                  \/ wfb \in {"connect", "prefix", "recv", "body"} /\ wfb' = "top"
                  \/ wfb \in {"prefix", "recv", "body"} /\ wfb' \in {"prefix", "recv", "body", "rx", "tx", "title"}
                  \/ wfb = "top" /\ wfb' = "done"
      <4>1. wfb' # "retry" /\ (wfb' \in Handling \cup {"prefix", "recv", "body", "cleared"} => wfb \in {"prefix", "recv", "body"})
        BY <3>4 DEF Handling
      <4>2. wfb \in {"prefix", "recv", "body"} => cli_connected
        BY <1>0 DEF ClientPlace
      <4> QED
        BY <2>1, <3>1, <3>4, <4>1, <4>2 DEF ClientPlace
    <3> QED
      BY <2>1, <3>2, <3>3, <3>4 DEF Moved
  <2>3. wfb = "done" => wfb' = "done"
    BY <2>1 DEF Moved
  <2>4. /\ main' # "loop" => main # "loop" \/ clearing["main"].at = "none"
        /\ main' \notin {"loop", "join"} => main \notin {"loop", "join"} \/ wfb = "done"
        /\ main \notin {"loop", "join"} => main' \notin {"loop", "join"}
        /\ instance' # "live" => instance # "live" \/ main' \notin {"loop", "join"}
    <3>1. CASE AfterClear \/ Retries \/ GivesUp \/ Leaves \/ Receives \/ ReadsPrefix \/ ReadsBody \/ RecvFails
               \/ UnpackFails \/ process_packet \/ (Disconnected /\ signal)
      BY <3>1 DEF AfterClear, Retries, GivesUp, Leaves, Receives, ReadsPrefix, ReadsBody, RecvFails, Receiving,
        UnpackFails, process_packet, Disconnected, others, service
    <3>2. CASE sig_handler \/ LeavesLoop \/ JoinsClient \/ StopsOsd
      BY <3>2 DEF sig_handler, LeavesLoop, JoinsClient, StopsOsd, StopMoves, StopStores, StopJoins,
        MainStep, service, Free
    <3>3. CASE Osd \/ ServerSends \/ ServerCloses \/ UNCHANGED vars
      BY <3>3 DEF Osd, OsdThread, WaitEnds, drainFacts, ServerSends, ServerCloses, vars, others, service
    <3> QED
      BY <1>1, <3>1, <3>2, <3>3 DEF Passing
  <2>5. MainPlace'
    BY <1>0, <2>1, <2>3, <2>4 DEF MainPlace
  <2> QED
    BY <2>2, <2>5
<1>2. CASE RemembersRxId \/ RemembersRxAnts \/ RemembersTx
  <2>1. UNCHANGED <<cli_connected, pub, clearing, main, instance>> /\ wfb \in Handling /\ wfb' \in Handling
    BY <1>2 DEF RemembersRxId, RemembersRxAnts, RemembersTx, Handling, Go, service, others
  <2> QED
    BY <1>0, <2>1 DEF ClientPlace, MainPlace, Handling
<1>3. CASE (Disconnected /\ ~signal) \/ Connects \/ process_rx \/ process_tx \/ process_title
  <2>1. /\ UNCHANGED <<clearing, main, instance>> /\ wfb # "done"
        /\ \/ wfb' = "connect" /\ UNCHANGED cli_connected
           \/ wfb' = "prefix" /\ cli_connected'
    <3>1. CASE process_rx \/ process_tx \/ process_title
      <4>1. wfb \in Handling /\ UNCHANGED <<cli_connected, clearing, main, instance>> /\ wfb' = "prefix"
        BY <3>1 DEF process_rx, process_tx, process_title, Go, Handling, others
      <4>2. cli_connected
        BY <1>0, <4>1 DEF ClientPlace
      <4> QED
        BY <4>1, <4>2 DEF Handling
    <3> QED
      BY <1>3, <3>1 DEF Disconnected, Connects, Go, others
  <2>2. cli_connected' \in BOOLEAN
    <3>1. CASE Connects
      BY <3>1, Zenon DEF Connects
    <3>2. CASE ~Connects
      <4>1. UNCHANGED cli_connected
        BY <1>3, <3>2 DEF Disconnected, process_rx, process_tx, process_title
      <4> QED
        BY <1>0, <4>1 DEF ClientPlace
    <3> QED
      BY <3>1, <3>2
  <2>3. ClientPlace'
    BY <2>1, <2>2 DEF ClientPlace, Handling
  <2>4. MainPlace'
    BY <1>0, <2>1 DEF MainPlace
  <2> QED
    BY <2>3, <2>4
<1>4. CASE ConnectFails
  <2>1. /\ UNCHANGED <<pub, main, instance, cli_connected>> /\ wfb = "connect" /\ pub["wfb"].at = "idle"
        /\ \/ cli_connected /\ wfb' = "cleared" /\ Walk("wfb", "rx", {})
           \/ ~cli_connected /\ wfb' = "retry" /\ UNCHANGED clearing
    BY <1>4 DEF ConnectFails, Go, Free, service, others
  <2>2. clearing'["main"] = clearing["main"] /\ (clearing'["wfb"] = clearing["wfb"] \/ clearing'["wfb"].at = "rx")
    BY <2>1, WalkKeeps DEF Before
  <2>3. ClientPlace'
    BY <1>0, <2>1 DEF ClientPlace, Handling
  <2>4. MainPlace'
    BY <1>0, <2>1, <2>2 DEF MainPlace
  <2> QED
    BY <2>3, <2>4
<1>5. CASE StreamLost
  <2>1. UNCHANGED <<pub, wfb, cli_connected, main, instance>> /\ main = "loop" /\ Walk("main", "rx", {})
    BY <1>5 DEF StreamLost, service
  <2>2. clearing'["wfb"] = clearing["wfb"] /\ clearing'["main"].at = "rx"
    BY <2>1, WalkKeeps DEF Before
  <2> QED
    BY <1>0, <2>1, <2>2 DEF ClientPlace, MainPlace
<1>6. ASSUME NEW t \in {"wfb", "main"}, clear_osd_wfbcli(t) PROVE ClientPlace' /\ MainPlace'
  <2>1. /\ UNCHANGED <<wfb, cli_connected, main, instance>> /\ clearing[t].at # "none"
        /\ \E at \in {"rx", "tx", "none"} : \E done : Walk(t, at, done)
    BY <1>6 DEF clear_osd_wfbcli, ClearRxId, ForgetRx, ClearTxId, ForgetTx, service, others
  <2>2. /\ clearing'[t].at \in {"rx", "tx", "none"}
        /\ \A u \in {"wfb", "main"} \ {t} : clearing'[u] = clearing[u]
    BY <2>1, WalkKeeps DEF Before
  <2>3. MainPlace'
    <3>1. main # "loop" => t = "wfb"
      BY <1>0, <2>1 DEF MainPlace
    <3> QED
      BY <1>0, <2>1, <2>2, <3>1 DEF MainPlace
  <2>4. wfb \in {"retry", "done"} => UNCHANGED pub \/ (t # "wfb" /\ pub'["wfb"] = pub["wfb"])
    <3> SUFFICES ASSUME wfb \in {"retry", "done"} PROVE t = "main" /\ pub'["wfb"] = pub["wfb"]
      OBVIOUS
    <3>1. t = "main"
      BY <2>1 DEF Before, PubInv, OneBatch
    <3>2. ClearRxId("main") \/ ClearTxId("main") \/ ForgetTx("main") \/ ForgetRx("main")
      BY <1>6, <3>1 DEF clear_osd_wfbcli
    <3>3. UNCHANGED pub \/ \E S : Says("main", S)
      BY <3>2, FewSay, WalksSay DEF ForgetRx, service, RxWalkStep, TxWalkStep
    <3> QED
      BY <1>0, <3>1, <3>3 DEF Says
  <2>5. ClientPlace'
    BY <1>0, <2>1, <2>4 DEF ClientPlace
  <2> QED
    BY <2>3, <2>5
<1>7. CASE DvrPublishes
  <2>1. UNCHANGED <<wfb, cli_connected, clearing, main, instance>> /\ pub'["wfb"] = pub["wfb"]
    BY <1>0, <1>7, FewSay DEF DvrPublishes, Says
  <2> QED
    BY <1>0, <2>1 DEF ClientPlace, MainPlace
<1>8. ASSUME NEW p \in Publishers, Publish(p) PROVE ClientPlace' /\ MainPlace'
  <2>1. UNCHANGED <<wfb, cli_connected, clearing, main, instance>>
    BY <1>8 DEF Publish, publishFacts, enqueueFacts, others
  <2>2. pub["wfb"].at = "idle" => pub'["wfb"] = pub["wfb"]
    BY <1>0, <1>8 DEF Publish, publishFacts, enqueueFacts, Before, PubInv, PubShape
  <2> QED
    BY <1>0, <2>1, <2>2 DEF ClientPlace, MainPlace
<1> QED
  BY <1>1, <1>2, <1>3, <1>4, <1>5, <1>6, <1>7, <1>8, StepKinds

\* Every step keeps PlaceInv.
LEMMA PlaceNext == Before /\ [Next]_vars => PlaceInv'
  BY InHandNext, BatchNext, SeenNext, PlacesNext DEF PlaceInv

\* The message in hand stays in hand.
LEMMA CurrentStays ==
  ASSUME Before, [Next]_vars, wfb \in Handling
  PROVE  current' = current
<1>1. CASE Aside
  BY <1>1 DEF Aside, Message, current
<1>2. CASE ServerSends
  <2>1. PICK m : msgs' = Append(msgs, m)
    BY <1>2 DEF ServerSends
  <2>2. data' = data /\ Message \in DOMAIN msgs /\ SocketOK
    BY <1>2 DEF ServerSends, Before, PlaceInv, InHand, StreamInv
  <2> QED
    BY <2>1, <2>2, MessageStands
<1>3. CASE Connects \/ ReadsPrefix \/ ReadsBody \/ UnpackFails \/ process_packet
  BY <1>3 DEF Connects, ReadsPrefix, ReadsBody, UnpackFails, process_packet, Handling
<1> QED
  BY <1>1, <1>2, <1>3, AsideStep

-----------------------------------------------------------------------------
(* What the widgets are due *)

\* What the widgets show once the OSD thread has drained the queue.
Due == Applied(shown, fact_queue)

\* The widget of m has something to clear.
Held(m) == Due[m] # "undef"

\* The batch of publisher p has a fact for m.
Meets(p, m) == Values(pub[p].batch, m) # {}

\* A drain of the queue changes nothing of it.
LEMMA DueStays ==
  ASSUME UNCHANGED <<fact_queue, shown>> \/ drainFacts
  PROVE  Due' = Due
<1>1. CASE UNCHANGED <<fact_queue, shown>>
  BY <1>1 DEF Due
<1>2. CASE drainFacts
  <2>1. shown' = Applied(shown, fact_queue) /\ fact_queue' = <<>>
    BY <1>2 DEF drainFacts
  <2>2. Applied(shown', <<>>) = shown'
    BY AppliedNone
  <2> QED
    BY <2>1, <2>2 DEF Due
<1> QED
  BY <1>1, <1>2

\* A batch that is queued gives the widgets that it has facts for one of their
\* values, and leaves the others alone.
LEMMA DueLands ==
  ASSUME Before, NEW p \in Publishers, enqueueFacts(p), NEW m \in Matchers
  PROVE  \/ ~Meets(p, m) /\ Due'[m] = Due[m]
         \/ Due'[m] \in Values(pub[p].batch, m)
<1> DEFINE b == pub[p].batch
<1>1. IsSeq(fact_queue) /\ IsSeq(b)
  BY DEF Before, PlaceInv, BatchShape
<1>2. fact_queue' = fact_queue \o b /\ shown' = shown
  BY DEF enqueueFacts
<1> HIDE DEF b
<1>3. Due' = Applied(Due, b)
  BY <1>1, <1>2, AppliedJoin DEF Due
<1>4. Len(b) \in Nat /\ DOMAIN b = 1 .. Len(b)
  BY <1>1, SeqDomain
<1>5. \/ Values(b, m) = {} /\ Applied(Due, b)[m] = Due[m]
      \/ Applied(Due, b)[m] \in Values(b, m)
  BY <1>4, AppliedValue
<1> QED
  BY <1>3, <1>4, <1>5 DEF Meets, b

\* m is a matcher for statistics of one of the links ids, or of one of their
\* antennas ants.
RxOf(m, ids, ants) ==
  \E id \in ids : \/ match(Clears("rx", IdTag(id)), m)
                  \/ \E a \in ants : match(Clears("rx_ant", AntTags(id, a)), m)
TxOf(m, ids, ants) ==
  \E id \in ids : \/ match(Clears("tx", IdTag(id)), m)
                  \/ \E a \in ants : match(Clears("rf_temperature", AntTags(id, a)), m)

Linked == {"cli.connected", "drone.connected"}

\* What clear_osd_wfbcli() or the end of the connection will clear, and what
\* nothing does: the recorder's state and what a link without an id may reach.
Covered(m) ==
  \/ RxOf(m, seen_rx_ids, seen_rx_ant_ids) \/ TxOf(m, seen_tx_ids, seen_tx_ant_ids)
  \/ m.name \in {"cli.connected", "cli_title"} /\ match(Clears(m.name, NoTags), m)
  \/ m.name \in {"drone.connected", "dvr.recording"}
  \/ ~Owned(m)

\* What a publisher's batch may hold: clears, but for the recorder's state and
\* the client's facts, which are clears during its own clear and of the link
\* outside a connection.
Known(p, name, value) ==
  /\ value # "undef" /\ p # "wfb" => p = "dvr" /\ name = "dvr.recording" /\ value = "value"
  /\ p = "wfb" => name # "dvr.recording"
  /\ p = "wfb" /\ wfb = "cleared" => value = "undef"
  /\ p = "wfb" /\ ~cli_connected => value = "undef" \/ name \in Linked
  /\ p = "wfb" /\ wfb = "connect" /\ name \in Linked => value = "false"
BatchesKnown ==
  \A p \in Publishers : \A i \in DOMAIN pub[p].batch :
    Known(p, pub[p].batch[i].name, pub[p].batch[i].value)

\* The recorder's state is known or not.
DvrShown == \A m \in Matchers : m.name = "dvr.recording" => Due[m] \in {"undef", "value"}

\* main's clear meets no message in hand.
Apart == clearing["main"].at # "none" => ~Processing(wfb) /\ pub["wfb"].at = "idle"

\* Whatever a widget shows, or the client is about to publish for it, will be
\* cleared.
HeldCovered ==
  /\ \A m \in Matchers : Held(m) => Covered(m)
  /\ \A m \in Matchers : Values(pub["wfb"].batch, m) \subseteq {"undef"} \/ Covered(m)

\* The link of the message in hand is remembered before it is published.
Remembered ==
  /\ wfb \in {"rx_ants", "rx_publish"} => current.id \in seen_rx_ids
  /\ wfb = "rx_publish" => current.ants \subseteq seen_rx_ant_ids
  /\ wfb = "tx_publish" => current.id \in seen_tx_ids /\ current.ants \subseteq seen_tx_ant_ids

\* During a walk, what is still shown of the links is being cleared or will be.
Walked ==
  \A t \in {"wfb", "main"}, m \in Matchers :
    /\ clearing[t].at = "rx" /\ m.name \in {"rx", "rx_ant"} /\ Held(m) /\ Owned(m)
         => Meets(t, m) \/ RxOf(m, seen_rx_ids \ clearing[t].done, seen_rx_ant_ids)
    /\ clearing[t].at = "tx" /\ m.name \in {"tx", "rf_temperature"} /\ Held(m) /\ Owned(m)
         => Meets(t, m) \/ TxOf(m, seen_tx_ids \ clearing[t].done, seen_tx_ant_ids)

\* After the client's own clear nothing of the connection is remembered, and
\* the title is gone or going.
QuietRx == wfb = "cleared" /\ clearing["wfb"].at # "rx" => seen_rx_ids = {}
QuietTx ==
  wfb = "cleared" /\ clearing["wfb"].at = "none" =>
    /\ seen_tx_ids = {}
    /\ \A m \in Matchers : m.name = "cli_title" /\ Held(m) => Meets("wfb", m)
QuietOff ==
  ~cli_connected => /\ seen_rx_ids = {} /\ seen_tx_ids = {}
                    /\ \A m \in Matchers : m.name = "cli_title" => ~Held(m)

\* Outside a connection neither link is shown as connected for long.
LinksDown ==
  wfb \in {"connect", "cleared", "retry"} =>
     \A m \in Matchers : m.name \in Linked => Due[m] \in {"undef", "false"} \/ Meets("wfb", m)

Tidy == Apart /\ HeldCovered /\ Remembered /\ Walked /\ QuietRx /\ QuietTx /\ QuietOff /\ LinksDown

\* Where every message names its link, so does everything that is remembered.
NamesKept ==
  Named => /\ \A i \in DOMAIN msgs : msgs[i].type \in {"rx", "tx"} => msgs[i].id # ""
           /\ "" \notin seen_rx_ids /\ "" \notin seen_tx_ids

LossInv == BatchesKnown /\ DvrShown /\ NamesKept /\ (~raced => Tidy)

\* A link without an id reaches no widget that is owned by the links with one.
LEMMA OwnedNamed ==
  ASSUME NamesKept, NEW m, Owned(m), NEW id, NEW a,
         \/ id \in seen_rx_ids /\ (match(Clears("rx", IdTag(id)), m) \/ match(Clears("rx_ant", AntTags(id, a)), m))
         \/ id \in seen_tx_ids /\ (match(Clears("tx", IdTag(id)), m) \/ match(Clears("rf_temperature", AntTags(id, a)), m))
  PROVE  id # ""
<1>1. m.name \in LinkFacts
  BY DEF match, Clears, Fact, LinkFacts
<1>2. "id" \in DOMAIN m.tags => m.tags["id"] = id
  BY DEF match, Clears, Fact, IdTag, AntTags
<1> QED
  BY <1>1, <1>2 DEF Owned, NamesKept

\* The script stays, and with it what is owned.
LEMMA OwnedStays ==
  ASSUME [Next]_vars
  PROVE  (Named' <=> Named) /\ \A m : Owned(m)' <=> Owned(m)
<1>1. script' = script
  <2>1. Connects \/ ServerSends \/ ReadsPrefix \/ ReadsBody \/ process_packet \/ UnpackFails => script' = script
    BY DEF Connects, ServerSends, ReadsPrefix, ReadsBody, process_packet, UnpackFails, socket
  <2> QED
    BY <2>1, AsideStep DEF Aside
<1>2. Named' <=> Named
  BY <1>1 DEF Named
<1> QED
  BY <1>2 DEF Owned

\* Every step keeps NamesKept.
LEMMA NamesNext ==
  ASSUME Before, NamesKept, [Next]_vars
  PROVE  NamesKept'
<1>0. SocketOK /\ InHand /\ (Named' <=> Named)
  BY OwnedStays DEF Before, StreamInv, PlaceInv
<1>1. SUFFICES ASSUME Named, Named' PROVE NamesKept'
  BY <1>0 DEF NamesKept
<1>2. \A i \in DOMAIN msgs : msgs[i].type \in {"rx", "tx"} => msgs[i].id # ""
  BY <1>1 DEF NamesKept
<1>3. "" \notin seen_rx_ids' /\ "" \notin seen_tx_ids'
  <2>1. CASE RemembersRxId
    <3>1. current.id # ""
      BY <1>0, <1>2, <2>1 DEF RemembersRxId, InHand, Handling, current
    <3> QED
      BY <1>1, <2>1, <3>1 DEF RemembersRxId, NamesKept
  <2>2. CASE RemembersTx
    <3>1. current.id # ""
      BY <1>0, <1>2, <2>2 DEF RemembersTx, InHand, Handling, current
    <3> QED
      BY <1>1, <2>2, <3>1 DEF RemembersTx, NamesKept
  <2>3. CASE ~RemembersRxId /\ ~RemembersTx
    <3>1. /\ seen_rx_ids' \in {seen_rx_ids, {}}
          /\ seen_tx_ids' \in {seen_tx_ids, {}}
      <4>1. CASE Passing
        BY <4>1, PassingMoves DEF seen
      <4>2. CASE RemembersRxAnts \/ Disconnected \/ Connects \/ process_rx \/ process_tx
                 \/ process_title \/ ConnectFails \/ StreamLost \/ DvrPublishes
        BY <4>2 DEF RemembersRxAnts, Disconnected, Connects, process_rx, process_tx, process_title,
          ConnectFails, StreamLost, DvrPublishes, seen
      <4>3. ASSUME NEW t \in {"wfb", "main"}, clear_osd_wfbcli(t)
            PROVE  seen_rx_ids' \in {seen_rx_ids, {}} /\ seen_tx_ids' \in {seen_tx_ids, {}}
        BY <4>3 DEF clear_osd_wfbcli, ClearRxId, ForgetRx, ClearTxId, ForgetTx, seen
      <4>4. ASSUME NEW q \in Publishers, Publish(q)
            PROVE  seen_rx_ids' \in {seen_rx_ids, {}} /\ seen_tx_ids' \in {seen_tx_ids, {}}
        BY <4>4 DEF Publish, seen
      <4> QED
        BY <2>3, <4>1, <4>2, <4>3, <4>4, StepKinds
    <3> QED
      BY <1>1, <3>1 DEF NamesKept
  <2> QED
    BY <2>1, <2>2, <2>3
<1>4. \A i \in DOMAIN msgs' : msgs'[i].type \in {"rx", "tx"} => msgs'[i].id # ""
  <2>1. CASE Connects
    <3>1. msgs' = <<>> /\ DOMAIN <<>> = {}
      BY <2>1, ListsFew DEF Connects, Lists
    <3> QED
      BY <3>1
  <2>2. CASE ServerSends
    <3> DEFINE c == script.messages[conns]
               n == Len(msgs)
    <3>0. n \in Nat /\ msgs \in Seq(Messages) /\ DOMAIN msgs = 1 .. n
      BY <1>0 DEF SocketOK
    <3>1. conns \in DOMAIN script.messages /\ c \in Seq(Messages) /\ n < Len(c) /\ msgs' = Append(msgs, c[n + 1])
      <4>1. script.messages \in Seq(Seq(Messages)) /\ conns \in 1 .. Len(script.messages)
        BY <1>0, <2>2, TelemetryAssumption DEF SocketOK, ServerSends
      <4> QED
        BY <2>2, <4>1 DEF ServerSends
    <3>2. n + 1 \in DOMAIN c
      <4> HIDE DEF c, n
      <4> QED
        BY <3>0, <3>1
    <3>3. c[n + 1] \in Messages
      <4> HIDE DEF c, n
      <4> QED
        BY <3>1, <3>2
    <3>4. c[n + 1].type \in {"rx", "tx"} => c[n + 1].id # ""
      BY <1>1, <3>1, <3>2 DEF Named
    <3>5. DOMAIN msgs' = 1 .. n + 1 /\ msgs'[n + 1] = c[n + 1] /\ \A i \in 1 .. n : msgs'[i] = msgs[i]
      <4> DEFINE x == c[n + 1]
      <4> HIDE DEF c, x
      <4> QED
        BY <3>0, <3>1, <3>3 DEF x
    <3> DEFINE x == c[n + 1]
    <3>6. (x.type \in {"rx", "tx"} => x.id # "") /\ msgs'[n + 1] = x
      BY <3>4, <3>5
    <3> HIDE DEF c, n, x
    <3>7. \A i \in 1 .. n : msgs'[i].type \in {"rx", "tx"} => msgs'[i].id # ""
      BY <1>2, <3>0, <3>5
    <3>8. \A i \in 1 .. n + 1 : i \in 1 .. n \/ i = n + 1
      BY <3>0
    <3> QED
      BY <3>5, <3>6, <3>7, <3>8, Zenon
  <2>3. CASE ~Connects /\ ~ServerSends
    <3>1. msgs' = msgs
      <4>1. ReadsPrefix \/ ReadsBody \/ process_packet \/ UnpackFails => msgs' = msgs
        BY DEF ReadsPrefix, ReadsBody, process_packet, UnpackFails, socket
      <4> QED
        BY <2>3, <4>1, AsideStep DEF Aside
    <3> QED
      BY <1>2, <3>1
  <2> QED
    BY <2>1, <2>2, <2>3
<1> QED
  BY <1>3, <1>4 DEF NamesKept

\* A matcher is for facts of its name, whatever their value.
LEMMA MatchName ==
  /\ \A f, m : match(f, m) => f.name = m.name
  /\ \A name, tags, value, m : match(Fact(name, tags, value), m) <=> match(Clears(name, tags), m)
  BY DEF match, Fact, Clears

\* The matchers of the statistics are for those of the two kinds of link.
LEMMA OfName ==
  ASSUME NEW m, NEW ids, NEW ants
  PROVE  /\ RxOf(m, ids, ants) => m.name \in {"rx", "rx_ant"}
         /\ TxOf(m, ids, ants) => m.name \in {"tx", "rf_temperature"}
         /\ ~RxOf(m, {}, ants) /\ ~TxOf(m, {}, ants)
<1>1. \A name, tags : match(Clears(name, tags), m) => m.name = name
  BY DEF match, Clears, Fact
<1> QED
  BY <1>1 DEF RxOf, TxOf

\* An idle publisher has no facts.
LEMMA IdleEmpty ==
  ASSUME Before, NEW p \in Publishers, pub[p].at = "idle"
  PROVE  DOMAIN pub[p].batch = {} /\ \A m : Values(pub[p].batch, m) = {} /\ ~Meets(p, m)
<1>1. pub[p].batch = <<>> /\ DOMAIN <<>> = {}
  BY DEF Before, PlaceInv, BatchShape
<1> QED
  BY <1>1 DEF Meets, Values

\* A step that keeps raced false keeps main's clear apart.
LEMMA StillApart ==
  ASSUME Before, LossInv, [Next]_vars, ~raced'
  PROVE  Tidy /\ Apart'
<1>1. CASE Next
  <2>1. raced' = (raced \/ (clearing'["main"].at # "none" /\ (Processing(wfb') \/ pub'["wfb"].at # "idle")))
    BY <1>1 DEF Next, Running
  <2>2. ~raced /\ ~(clearing'["main"].at # "none" /\ (Processing(wfb') \/ pub'["wfb"].at # "idle"))
    BY <2>1, Zenon
  <2>3. Apart'
    BY <2>2 DEF Apart, Processing
  <2> QED
    BY <2>2, <2>3 DEF LossInv
<1>2. CASE UNCHANGED vars
  BY <1>2 DEF LossInv, Tidy, Apart, Processing, vars, service
<1> QED
  BY <1>1, <1>2

-----------------------------------------------------------------------------
(* The facts that are published keep to what is known of them *)

\* The values that the facts S have for m, and so a list of them has.
Said(S, m) == {f.value : f \in {g \in S : match(g, m)}}

\* A list of facts has their values.
LEMMA ListsValues ==
  ASSUME NEW b, NEW S, Lists(b, S), NEW m
  PROVE  Values(b, m) = Said(S, m)
<1>1. Len(b) \in Nat /\ DOMAIN b = 1 .. Len(b)
  BY SeqDomain DEF Lists
<1>2. (\A i \in 1 .. Len(b) : b[i] \in S) /\ \A x \in S : \E i \in 1 .. Len(b) : b[i] = x
  BY <1>1 DEF Lists
<1> HIDE DEF match
<1> QED
  BY <1>2 DEF Values, Said

\* What a batch has for m is known.
LEMMA ValuesKnown ==
  ASSUME Before, BatchesKnown, NEW p \in Publishers, NEW m, NEW v \in Values(pub[p].batch, m)
  PROVE  Known(p, m.name, v)
<1> DEFINE b == pub[p].batch
<1>1. PICK i \in 1 .. Len(b) : match(b[i], m) /\ v = b[i].value
  BY DEF Values
<1>2. i \in DOMAIN b
  BY SeqDomain DEF Before, PlaceInv, BatchShape
<1>3. b[i].name = m.name
  BY <1>1, MatchName
<1>4. Known(p, b[i].name, b[i].value)
  BY <1>2 DEF BatchesKnown
<1> QED
  BY <1>1, <1>3, <1>4

\* What the batches hold stays known when a thread says what is.
LEMMA KnownSaid ==
  ASSUME Before, BatchesKnown, NEW t \in Publishers, NEW S, Says(t, S),
         t = "wfb" \/ UNCHANGED <<wfb, cli_connected>>,
         \A f \in S : Known(t, f.name, f.value)'
  PROVE  BatchesKnown'
<1> SUFFICES ASSUME NEW p \in Publishers, NEW i \in DOMAIN pub'[p].batch
             PROVE  Known(p, pub[p].batch[i].name, pub[p].batch[i].value)'
  BY DEF BatchesKnown
<1>1. CASE p = t
  <2>1. pub'[t].batch[i] \in S
    BY <1>1 DEF Says, Lists
  <2> QED
    BY <1>1, <2>1 DEF Known
<1>2. CASE p # t
  <2>1. pub'[p] = pub[p] /\ Known(p, pub[p].batch[i].name, pub[p].batch[i].value)
    BY <1>2 DEF Says, BatchesKnown
  <2> QED
    BY <1>2, <2>1 DEF Known
<1> QED
  BY <1>1, <1>2

\* And when the client moves on with nothing to publish.
LEMMA KnownMoved ==
  ASSUME Before, BatchesKnown, UNCHANGED pub,
         UNCHANGED <<wfb, cli_connected>> \/ pub["wfb"].at = "idle"
  PROVE  BatchesKnown'
<1> SUFFICES ASSUME NEW p \in Publishers, NEW i \in DOMAIN pub[p].batch
             PROVE  Known(p, pub[p].batch[i].name, pub[p].batch[i].value)'
  BY DEF BatchesKnown
<1>1. Known(p, pub[p].batch[i].name, pub[p].batch[i].value)
  BY DEF BatchesKnown
<1>2. p = "wfb" => UNCHANGED <<wfb, cli_connected>>
  BY IdleEmpty
<1> QED
  BY <1>1, <1>2 DEF Known

\* Every step keeps what is known of the batches.
LEMMA KnownNext ==
  ASSUME Before, BatchesKnown, [Next]_vars
  PROVE  BatchesKnown'
<1>0. {"wfb", "main", "dvr"} \subseteq Publishers
  BY TelemetryAssumption
<1>1. CASE Passing
  BY <1>1, PassingMoves, KnownMoved DEF Moved
<1>2. CASE RemembersRxId \/ RemembersRxAnts \/ RemembersTx \/ ConnectFails \/ StreamLost
  <2>1. UNCHANGED pub /\ (UNCHANGED <<wfb, cli_connected>> \/ pub["wfb"].at = "idle")
    BY <1>2 DEF RemembersRxId, RemembersRxAnts, RemembersTx, ConnectFails, StreamLost, service, Free,
      Before, PubInv, OneBatch, Handling
  <2> QED
    BY <2>1, KnownMoved
<1>3. CASE Disconnected /\ ~signal
  <2> DEFINE S == {Fact("cli.connected", NoTags, "false"), Fact("drone.connected", NoTags, "false")}
  <2>1. Says("wfb", S) /\ wfb' = "connect"
    BY <1>3, FewSay DEF Disconnected, Go
  <2>2. \A f \in S : Known("wfb", f.name, f.value)'
    BY <2>1 DEF Known, Fact, Linked
  <2> HIDE DEF S
  <2> QED
    BY <1>0, <2>1, <2>2, KnownSaid
<1>4. CASE Connects
  <2> DEFINE S == {Fact("cli.connected", NoTags, "true")}
  <2>1. Says("wfb", S) /\ wfb' = "prefix" /\ cli_connected'
    BY <1>4, FewSay DEF Connects, Go
  <2>2. \A f \in S : Known("wfb", f.name, f.value)'
    BY <2>1 DEF Known, Fact, Linked
  <2> HIDE DEF S
  <2> QED
    BY <1>0, <2>1, <2>2, KnownSaid
<1>5. CASE process_rx \/ process_tx \/ process_title
  <2>1. wfb' = "prefix" /\ cli_connected'
    <3>1. wfb \in Handling /\ wfb' = "prefix" /\ UNCHANGED cli_connected
      BY <1>5 DEF process_rx, process_tx, process_title, Go, Handling
    <3> QED
      BY <3>1 DEF Before, PlaceInv, ClientPlace
  <2>2. PICK S : Says("wfb", S) /\ \A f \in S : f.name # "dvr.recording"
    <3>1. CASE process_rx
      <4>1. PICK D \in SUBSET DroneFacts(current.id) : Says("wfb", RxFacts(current.id, current.ants) \cup D)
        BY <3>1, RxSays
      <4>2. \A f \in RxFacts(current.id, current.ants) \cup D : f.name # "dvr.recording"
        BY <4>1 DEF RxFacts, DroneFacts, Fact
      <4> QED
        BY <4>1, <4>2
    <3>2. CASE process_tx
      <4>1. Says("wfb", TxFacts(current.id, current.ants))
        BY <3>2, TxSays
      <4>2. \A f \in TxFacts(current.id, current.ants) : f.name # "dvr.recording"
        BY DEF TxFacts, Fact
      <4> QED
        BY <4>1, <4>2
    <3>3. CASE process_title
      <4>1. Says("wfb", {Fact("cli_title", NoTags, "value")})
        BY <3>3, FewSay
      <4>2. \A f \in {Fact("cli_title", NoTags, "value")} : f.name # "dvr.recording"
        BY DEF Fact
      <4> QED
        BY <4>1, <4>2
    <3> QED
      BY <1>5, <3>1, <3>2, <3>3
  <2>3. \A f \in S : Known("wfb", f.name, f.value)'
    BY <2>1, <2>2 DEF Known
  <2> QED
    BY <1>0, <2>2, <2>3, KnownSaid
<1>6. ASSUME NEW t \in {"wfb", "main"}, clear_osd_wfbcli(t) PROVE BatchesKnown'
  <2>1. UNCHANGED <<wfb, cli_connected>> /\ (t = "wfb" => wfb = "cleared")
    BY <1>6 DEF clear_osd_wfbcli, ClearRxId, ForgetRx, ClearTxId, ForgetTx, Before, PubInv, OneBatch
  <2>2. CASE ForgetRx(t)
    BY <2>1, <2>2, KnownMoved DEF ForgetRx, service
  <2>3. CASE ~ForgetRx(t)
    <3>0. CASE UNCHANGED pub
      BY <2>1, <3>0, KnownMoved
    <3>1. SUFFICES ASSUME NEW S, Says(t, S), \A f \in S : f.value = "undef" /\ f.name # "dvr.recording"
                   PROVE  BatchesKnown'
      <4>1. CASE ForgetTx(t)
        <5>1. Says(t, {Clears("cli_title", NoTags)})
          BY <4>1, FewSay
        <5>2. \A f \in {Clears("cli_title", NoTags)} : f.value = "undef" /\ f.name # "dvr.recording"
          BY DEF Clears, Fact
        <5> QED
          BY <5>1, <5>2
      <4>2. CASE ClearRxId(t)
        <5>1. PICK id : UNCHANGED pub \/ Says(t, RxClears(id))
          BY <4>2, WalksSay DEF RxWalkStep
        <5>2. \A f \in RxClears(id) : f.value = "undef" /\ f.name # "dvr.recording"
          BY DEF RxClears, Clears, Fact
        <5> QED
          BY <3>0, <5>1, <5>2
      <4>3. CASE ClearTxId(t)
        <5>1. PICK id : UNCHANGED pub \/ Says(t, TxClears(id))
          BY <4>3, WalksSay DEF TxWalkStep
        <5>2. \A f \in TxClears(id) : f.value = "undef" /\ f.name # "dvr.recording"
          BY DEF TxClears, Clears, Fact
        <5> QED
          BY <3>0, <5>1, <5>2
      <4> QED
        BY <1>6, <2>3, <4>1, <4>2, <4>3 DEF clear_osd_wfbcli
    <3>2. \A f \in S : Known(t, f.name, f.value)'
      <4>1. wfb' = "cleared" => ~(wfb' = "connect")
        OBVIOUS
      <4> QED
        BY <2>1, <3>1, <4>1 DEF Known
    <3> QED
      BY <1>0, <2>1, <3>1, <3>2, KnownSaid
  <2> QED
    BY <2>2, <2>3
<1>7. CASE DvrPublishes
  <2> DEFINE S == {Fact("dvr.recording", NoTags, "value")}
  <2>1. Says("dvr", S) /\ UNCHANGED <<wfb, cli_connected>>
    BY <1>7, FewSay DEF DvrPublishes
  <2>2. \A f \in S : Known("dvr", f.name, f.value)'
    BY DEF Known, Fact
  <2> HIDE DEF S
  <2> QED
    BY <1>0, <2>1, <2>2, KnownSaid
<1>8. ASSUME NEW p \in Publishers, Publish(p) PROVE BatchesKnown'
  <2>1. UNCHANGED <<wfb, cli_connected>>
    BY <1>8 DEF Publish
  <2>2. \A q \in Publishers : pub'[q].batch = pub[q].batch \/ pub'[q].batch = <<>>
    BY <1>8 DEF Publish, publishFacts, enqueueFacts, Before, PubInv, PubShape, Idle
  <2>3. DOMAIN <<>> = {}
    OBVIOUS
  <2> QED
    BY <2>1, <2>2, <2>3 DEF BatchesKnown, Known
<1> QED
  BY <1>1, <1>2, <1>3, <1>4, <1>5, <1>6, <1>7, <1>8, StepKinds

-----------------------------------------------------------------------------
(* What is shown keeps to what will be cleared *)

\* Only a batch that is queued changes what the widgets are due.
LEMMA DueNext ==
  ASSUME Before, [Next]_vars
  PROVE  Due' = Due \/ \E p \in Publishers : enqueueFacts(p) /\ Publish(p)
<1>1. CASE Passing
  BY <1>1, PassingMoves, DueStays
<1>2. CASE RemembersRxId \/ RemembersRxAnts \/ RemembersTx \/ ConnectFails \/ StreamLost
  BY <1>2, DueStays DEF RemembersRxId, RemembersRxAnts, RemembersTx, ConnectFails, StreamLost, service
<1>3. CASE (Disconnected /\ ~signal) \/ Connects \/ process_rx \/ process_tx \/ process_title \/ DvrPublishes
  BY <1>3, DueStays DEF Disconnected, Connects, process_rx, process_tx, process_title, DvrPublishes
<1>4. ASSUME NEW t \in {"wfb", "main"}, clear_osd_wfbcli(t) PROVE Due' = Due
  BY <1>4, DueStays DEF clear_osd_wfbcli, ClearRxId, ForgetRx, ClearTxId, ForgetTx, service
<1>5. ASSUME NEW p \in Publishers, Publish(p), ~enqueueFacts(p) PROVE Due' = Due
  BY <1>5, DueStays DEF Publish, publishFacts
<1> QED
  BY <1>1, <1>2, <1>3, <1>4, <1>5, StepKinds

\* Every step keeps the recorder's state known or not.
LEMMA DvrNext ==
  ASSUME Before, BatchesKnown, DvrShown, [Next]_vars
  PROVE  DvrShown'
<1>1. CASE Due' = Due
  BY <1>1 DEF DvrShown
<1>2. ASSUME NEW p \in Publishers, enqueueFacts(p) PROVE DvrShown'
  <2> SUFFICES ASSUME NEW m \in Matchers, m.name = "dvr.recording"
               PROVE  Due'[m] \in {"undef", "value"}
    BY DEF DvrShown
  <2>1. CASE Due'[m] = Due[m]
    BY <2>1 DEF DvrShown
  <2>2. CASE Due'[m] \in Values(pub[p].batch, m)
    BY <2>2, ValuesKnown DEF Known
  <2> QED
    BY <1>2, <2>1, <2>2, DueLands
<1> QED
  BY <1>1, <1>2, DueNext

\* What a thread says, as the widgets see it.
LEMMA SaysMeets ==
  ASSUME NEW t, NEW S, Says(t, S)
  PROVE  /\ \A m : Meets(t, m)' <=> \E g \in S : match(g, m)
         /\ Due' = Due
<1>1. Lists(pub'[t].batch, S) /\ Due' = Due
  BY DueStays DEF Says
<1>2. \A m : Values(pub'[t].batch, m) = Said(S, m)
  BY <1>1, ListsValues
<1>3. ASSUME NEW m PROVE Meets(t, m)' <=> \E g \in S : match(g, m)
  <2>1. Meets(t, m)' <=> Said(S, m) # {}
    BY <1>2 DEF Meets
  <2> QED
    BY <2>1 DEF Said
<1> QED
  BY <1>1, <1>3

\* A step that leaves the client where it is, and what is published and walked.
LEMMA SameTidy ==
  ASSUME \A m : Owned(m)' <=> Owned(m),
         Before, Tidy, [Next]_vars, Apart', Due' = Due,
         UNCHANGED <<wfb, cli_connected, clearing, seen>>,
         pub'["wfb"].batch = pub["wfb"].batch, pub'["main"].batch = pub["main"].batch
  PROVE  Tidy'
<1>1. HeldCovered' /\ QuietRx' /\ QuietTx' /\ QuietOff' /\ LinksDown'
  BY DEF Tidy, HeldCovered, QuietRx, QuietTx, QuietOff, LinksDown, Held, Meets, Covered, seen
<1>2. Walked'
  BY DEF Tidy, Walked, Held, Meets, seen
<1>3. Remembered'
  <2>1. CASE wfb \in Handling
    BY <2>1, CurrentStays DEF Tidy, Remembered, seen
  <2>2. CASE wfb \notin Handling
    BY <2>2 DEF Remembered, Handling
  <2> QED
    BY <2>1, <2>2
<1> QED
  BY <1>1, <1>2, <1>3 DEF Tidy

\* The client moves on.
LEMMA PassingTidy ==
  ASSUME \A m : Owned(m)' <=> Owned(m),
         Before, Tidy, [Next]_vars, Apart', Passing
  PROVE  Tidy'
<1>1. Moved /\ UNCHANGED <<pub, clearing, seen>> /\ Due' = Due
  BY PassingMoves, DueStays
<1>2. CASE UNCHANGED <<wfb, cli_connected>>
  BY <1>1, <1>2, SameTidy
<1>3. CASE pub["wfb"].at = "idle" /\ clearing["wfb"].at = "none" /\ ~UNCHANGED <<wfb, cli_connected>>
  <2>1. HeldCovered' /\ Walked'
    BY <1>1 DEF Tidy, HeldCovered, Walked, Held, Meets, Covered, seen
  <2>2. Remembered'
    <3>1. wfb' \in {"retry", "connect", "top", "prefix", "recv", "body", "rx", "tx", "title", "done"}
      BY <1>1, <1>3 DEF Moved
    <3> QED
      BY <3>1 DEF Remembered
  <2>3. QuietRx' /\ QuietTx'
    <3>1. wfb' # "cleared"
      BY <1>1, <1>3 DEF Moved
    <3> QED
      BY <3>1 DEF QuietRx, QuietTx
  <2>4. QuietOff'
    <3>1. CASE cli_connected' = cli_connected
      BY <1>1, <3>1 DEF Tidy, QuietOff, Held, seen
    <3>2. CASE wfb = "cleared"
      <4>1. seen_rx_ids = {} /\ seen_tx_ids = {}
        BY <1>3, <3>2 DEF Tidy, QuietRx, QuietTx
      <4>2. \A m \in Matchers : m.name = "cli_title" => ~Held(m)
        BY <1>3, <3>2, IdleEmpty, TelemetryAssumption DEF Tidy, QuietTx
      <4> QED
        BY <1>1, <4>1, <4>2 DEF QuietOff, Held, seen
    <3> QED
      BY <1>1, <1>3, <3>1, <3>2 DEF Moved
  <2>5. LinksDown'
    <3>1. wfb' \in {"connect", "cleared", "retry"} => wfb \in {"connect", "cleared", "retry"}
      BY <1>1, <1>3 DEF Moved
    <3> QED
      BY <1>1, <3>1 DEF Tidy, LinksDown, Meets
  <2> QED
    BY <2>1, <2>2, <2>3, <2>4, <2>5 DEF Tidy
<1> QED
  BY <1>1, <1>2, <1>3 DEF Moved

\* The client publishes, with nothing left of what it published before.
LEMMA SpeakTidy ==
  ASSUME \A m : Owned(m)' <=> Owned(m),
         Before, Tidy, Apart', NEW S, Says("wfb", S), UNCHANGED <<clearing, seen>>,
         wfb # "cleared", wfb' \in {"connect", "prefix"}, cli_connected' \/ cli_connected' = cli_connected,
         \A f \in S, m \in Matchers : f.value # "undef" /\ match(f, m) => Covered(m),
         wfb' = "connect" => \A m \in Matchers : m.name \in Linked /\ Held(m) => \E f \in S : match(f, m)
  PROVE  Tidy'
<1>1. Due' = Due
  BY SaysMeets
<1>2. \A m : Covered(m)' <=> Covered(m)
  BY DEF Covered, seen
<1>3. HeldCovered'
  <2>1. \A m \in Matchers : Held(m)' => Covered(m)'
    BY <1>1, <1>2 DEF Tidy, HeldCovered, Held
  <2>2. \A m \in Matchers : Values(pub'["wfb"].batch, m) \subseteq {"undef"} \/ Covered(m)'
    <3> SUFFICES ASSUME NEW m \in Matchers, NEW v \in Values(pub'["wfb"].batch, m), v # "undef"
                 PROVE  Covered(m)'
      OBVIOUS
    <3>1. PICK g \in S : match(g, m) /\ v = g.value
      <4>0. Lists(pub'["wfb"].batch, S)
        BY DEF Says
      <4>1. v \in Said(S, m)
        BY <4>0, ListsValues
      <4> QED
        BY <4>1 DEF Said
    <3>2. Covered(m)
      BY <3>1
    <3> QED
      BY <1>2, <3>2
  <2> QED
    BY <2>1, <2>2 DEF HeldCovered
<1>4. Remembered' /\ QuietRx' /\ QuietTx'
  BY DEF Remembered, QuietRx, QuietTx
<1>5. Walked'
  <2>1. clearing'["main"].at = "none"
    BY DEF Apart, Says
  <2>2. clearing'["wfb"].at = "none"
    BY DEF Before, PubInv, OneBatch
  <2> QED
    BY <2>1, <2>2 DEF Walked
<1>6. QuietOff'
  BY <1>1 DEF Tidy, QuietOff, Held, seen
<1>7. LinksDown'
  <2> SUFFICES ASSUME NEW m \in Matchers, wfb' = "connect", m.name \in Linked, Held(m)
               PROVE  Meets("wfb", m)'
    BY <1>1 DEF LinksDown, Held
  <2> QED
    BY SaysMeets
<1> QED
  BY <1>3, <1>4, <1>5, <1>6, <1>7 DEF Tidy

\* What is remembered of more links and antennas covers more.
LEMMA OfMore ==
  ASSUME NEW m, NEW ids, NEW ants, NEW ids2, NEW ants2, ids \subseteq ids2, ants \subseteq ants2
  PROVE  /\ RxOf(m, ids, ants) => RxOf(m, ids2, ants2)
         /\ TxOf(m, ids, ants) => TxOf(m, ids2, ants2)
  BY DEF RxOf, TxOf

\* The link of the message in hand is remembered.
LEMMA RememberTidy ==
  ASSUME \A m : Owned(m)' <=> Owned(m),
         Before, Tidy, [Next]_vars, Apart', RemembersRxId \/ RemembersRxAnts \/ RemembersTx
  PROVE  Tidy'
<1>1. /\ UNCHANGED <<pub, clearing, cli_connected>> /\ wfb \in Handling
      /\ wfb' \in {"rx_ants", "rx_publish", "tx_publish"}
  BY DEF RemembersRxId, RemembersRxAnts, RemembersTx, service, Go, Handling
<1>2. Due' = Due
  BY DueStays DEF RemembersRxId, RemembersRxAnts, RemembersTx, service
<1>3. /\ seen_rx_ids \subseteq seen_rx_ids' /\ seen_rx_ant_ids \subseteq seen_rx_ant_ids'
      /\ seen_tx_ids \subseteq seen_tx_ids' /\ seen_tx_ant_ids \subseteq seen_tx_ant_ids'
  BY DEF RemembersRxId, RemembersRxAnts, RemembersTx
<1>4. \A m : Covered(m) => Covered(m)'
  <2> SUFFICES ASSUME NEW m, Covered(m) PROVE Covered(m)'
    OBVIOUS
  <2>1. /\ RxOf(m, seen_rx_ids, seen_rx_ant_ids) => RxOf(m, seen_rx_ids', seen_rx_ant_ids')
        /\ TxOf(m, seen_tx_ids, seen_tx_ant_ids) => TxOf(m, seen_tx_ids', seen_tx_ant_ids')
    BY <1>3, OfMore
  <2> QED
    BY <2>1 DEF Covered
<1>5. HeldCovered'
  BY <1>1, <1>2, <1>4 DEF Tidy, HeldCovered, Held
<1>6. Remembered'
  <2>1. current' = current
    BY <1>1, CurrentStays
  <2>2. CASE RemembersRxId
    BY <2>1, <2>2 DEF Remembered, RemembersRxId, Go
  <2>3. CASE RemembersRxAnts
    BY <2>1, <2>3 DEF Tidy, Remembered, RemembersRxAnts, Go
  <2>4. CASE RemembersTx
    BY <2>1, <2>4 DEF Remembered, RemembersTx, Go
  <2> QED
    BY <2>2, <2>3, <2>4
<1>7. Walked'
  <2>1. clearing'["main"].at = "none"
    BY <1>1 DEF Apart, Processing
  <2>2. clearing'["wfb"].at = "none"
    BY <1>1 DEF Before, PubInv, OneBatch, Handling
  <2> QED
    BY <2>1, <2>2 DEF Walked
<1>8. QuietOff'
  <2>1. cli_connected
    BY <1>1 DEF Before, PlaceInv, ClientPlace
  <2> QED
    BY <1>1, <2>1 DEF QuietOff
<1> QED
  BY <1>1, <1>5, <1>6, <1>7, <1>8 DEF Tidy, QuietRx, QuietTx, LinksDown

\* What is shown of the links is of links that are remembered.
LEMMA HeldRemembered ==
  ASSUME Tidy, NEW m \in Matchers, Held(m)
  PROVE  /\ m.name \in {"rx", "rx_ant"} /\ Owned(m) => RxOf(m, seen_rx_ids, seen_rx_ant_ids)
         /\ m.name \in {"tx", "rf_temperature"} /\ Owned(m) => TxOf(m, seen_tx_ids, seen_tx_ant_ids)
         /\ m.name \in {"cli_title", "cli.connected"} => match(Clears(m.name, NoTags), m)
<1>1. Covered(m)
  BY DEF Tidy, HeldCovered
<1> QED
  BY <1>1, OfName DEF Covered, Owned, LinkFacts

\* A clear begins, or the client has nothing to clear.
LEMMA StartTidy ==
  ASSUME \A m : Owned(m)' <=> Owned(m),
         Before, Tidy, [Next]_vars, Apart', ConnectFails \/ StreamLost
  PROVE  Tidy'
<1>1. UNCHANGED <<pub, cli_connected, seen>>
  BY DEF ConnectFails, StreamLost, service
<1>2. Due' = Due
  BY DueStays DEF ConnectFails, StreamLost, service
<1>3. HeldCovered'
  BY <1>1, <1>2 DEF Tidy, HeldCovered, Held, Covered, seen
<1>4. QuietOff'
  BY <1>1, <1>2 DEF Tidy, QuietOff, Held, seen
<1>5. ASSUME NEW t \in {"wfb", "main"}, clearing'[t].at = "none" \/ (clearing'[t].at = "rx" /\ clearing'[t].done = {}),
             NEW m \in Matchers
      PROVE  /\ clearing'[t].at = "rx" /\ m.name \in {"rx", "rx_ant"} /\ Held(m)' /\ Owned(m)'
                  => Meets(t, m)' \/ RxOf(m, seen_rx_ids' \ clearing'[t].done, seen_rx_ant_ids')
             /\ clearing'[t].at # "tx"
  <2>1. seen_rx_ids \ {} = seen_rx_ids
    OBVIOUS
  <2> QED
    BY <1>1, <1>2, <1>5, <2>1, HeldRemembered DEF Held, seen
<1>6. CASE ConnectFails
  <2>1. /\ wfb = "connect" /\ clearing["wfb"].at = "none"
        /\ \/ wfb' = "cleared" /\ Walk("wfb", "rx", {})
           \/ wfb' = "retry" /\ UNCHANGED clearing
    BY <1>6 DEF ConnectFails, Go, Free
  <2>2. /\ clearing'["main"] = clearing["main"]
        /\ \/ wfb' = "cleared" /\ clearing'["wfb"].at = "rx" /\ clearing'["wfb"].done = {}
           \/ wfb' = "retry" /\ clearing' = clearing
    BY <2>1 DEF Walk, Before, PubInv, ClearShape
  <2>3. LinksDown'
    BY <1>1, <1>2, <2>1 DEF Tidy, LinksDown, Meets
  <2>4. Remembered' /\ QuietRx' /\ QuietTx'
    BY <2>2 DEF Remembered, QuietRx, QuietTx
  <2>5. CASE wfb' = "cleared"
    <3>1. clearing'["main"].at = "none"
      BY <2>5 DEF Apart, Processing
    <3>2. Walked'
      BY <1>5, <2>2, <2>5, <3>1 DEF Walked
    <3> QED
      BY <1>3, <1>4, <2>3, <2>4, <3>2 DEF Tidy
  <2>6. CASE wfb' = "retry"
    <3>1. clearing' = clearing
      BY <2>2, <2>6
    <3>2. Walked'
      BY <1>1, <1>2, <3>1 DEF Tidy, Walked, Held, Meets, seen
    <3> QED
      BY <1>3, <1>4, <2>3, <2>4, <3>2 DEF Tidy
  <2> QED
    BY <2>1, <2>5, <2>6
<1>7. CASE StreamLost
  <2>1. UNCHANGED wfb /\ Walk("main", "rx", {})
    BY <1>7 DEF StreamLost
  <2>2. /\ clearing'["main"].at = "rx" /\ clearing'["main"].done = {}
        /\ clearing'["wfb"] = clearing["wfb"]
    BY <2>1 DEF Walk, Before, PubInv, ClearShape
  <2>3. ~Processing(wfb)
    BY <2>1, <2>2 DEF Apart, Processing
  <2>4. clearing["wfb"].at = "none" /\ wfb \notin {"rx_ants", "rx_publish", "tx_publish", "cleared"}
    BY <2>3 DEF Processing, Before, PubInv, OneBatch
  <2>5. Walked'
    BY <1>5, <2>2, <2>4 DEF Walked
  <2>6. Remembered' /\ QuietRx' /\ QuietTx'
    BY <2>1, <2>4 DEF Remembered, QuietRx, QuietTx
  <2>7. LinksDown'
    BY <1>1, <1>2, <2>1 DEF Tidy, LinksDown, Meets
  <2> QED
    BY <1>3, <1>4, <2>5, <2>6, <2>7 DEF Tidy
<1> QED
  BY <1>6, <1>7

\* A walk is the only one, and the client publishes nothing else meanwhile.
LEMMA WalkAlone ==
  ASSUME Before, Tidy, NEW t \in {"wfb", "main"}, clear_osd_wfbcli(t)
  PROVE  /\ UNCHANGED <<wfb, cli_connected>> /\ Due' = Due
         /\ pub["wfb"].at = "idle" /\ pub[t].at = "idle"
         /\ wfb \notin {"rx_ants", "rx_publish", "tx_publish"}
         /\ wfb = "cleared" <=> t = "wfb"
         /\ \A u \in {"wfb", "main"} \ {t} : clearing[u].at = "none" /\ clearing'[u] = clearing[u]
<1>1. /\ UNCHANGED <<wfb, cli_connected>> /\ pub[t].at = "idle" /\ clearing[t].at \in {"rx", "tx"}
      /\ \E at, done : Walk(t, at, done)
  BY DEF clear_osd_wfbcli, ClearRxId, ForgetRx, ClearTxId, ForgetTx
<1>2. Due' = Due
  BY DueStays DEF clear_osd_wfbcli, ClearRxId, ForgetRx, ClearTxId, ForgetTx, service
<1>3. \A u \in {"wfb", "main"} \ {t} : clearing'[u] = clearing[u]
  BY <1>1, WalkKeeps DEF Before
<1>4. CASE t = "wfb"
  <2>1. wfb = "cleared"
    BY <1>1, <1>4 DEF Before, PubInv, OneBatch
  <2>2. clearing["main"].at = "none"
    BY <2>1 DEF Tidy, Apart, Processing
  <2> QED
    BY <1>1, <1>2, <1>3, <1>4, <2>1, <2>2
<1>5. CASE t = "main"
  <2>1. ~Processing(wfb) /\ pub["wfb"].at = "idle"
    BY <1>1, <1>5 DEF Tidy, Apart
  <2>2. wfb \notin {"rx_ants", "rx_publish", "tx_publish", "cleared"}
    BY <2>1 DEF Processing
  <2>3. clearing["wfb"].at = "none"
    BY <2>2 DEF Before, PubInv, OneBatch
  <2> QED
    BY <1>1, <1>2, <1>3, <1>5, <2>1, <2>2, <2>3
<1> QED
  BY <1>4, <1>5

\* What a walk publishes are clears.
LEMMA ClearsCover ==
  ASSUME Before, NEW t \in {"wfb", "main"}, NEW S, Says(t, S), pub["wfb"].at = "idle",
         \A f \in S : f.value = "undef"
  PROVE  \A m \in Matchers : Values(pub'["wfb"].batch, m) \subseteq {"undef"}
<1> SUFFICES ASSUME NEW m \in Matchers PROVE Values(pub'["wfb"].batch, m) \subseteq {"undef"}
  OBVIOUS
<1>1. CASE t = "wfb"
  <2>0. Lists(pub'["wfb"].batch, S)
    BY <1>1 DEF Says
  <2>1. Values(pub'["wfb"].batch, m) = Said(S, m)
    BY <2>0, ListsValues
  <2> QED
    BY <2>1 DEF Said
<1>2. CASE t = "main"
  <2>1. pub'["wfb"] = pub["wfb"] /\ "wfb" \in Publishers
    BY <1>2, TelemetryAssumption DEF Says
  <2>2. Values(pub["wfb"].batch, m) = {}
    BY <2>1, IdleEmpty
  <2> QED
    BY <2>1, <2>2
<1> QED
  BY <1>1, <1>2

\* A step of a walk that clears the facts of one link.
LEMMA WalkStepTidy ==
  ASSUME \A m : Owned(m)' <=> Owned(m),
         NamesKept, Before, Tidy, NEW t \in {"wfb", "main"}, NEW id, clear_osd_wfbcli(t), Apart', UNCHANGED seen,
         RxWalkStep(t, id) \/ TxWalkStep(t, id)
  PROVE  Tidy'
<1>0. "wfb" \in Publishers /\ t \in Publishers
  BY TelemetryAssumption
<1>1. /\ UNCHANGED <<wfb, cli_connected>> /\ Due' = Due
      /\ pub["wfb"].at = "idle" /\ pub[t].at = "idle"
      /\ wfb \notin {"rx_ants", "rx_publish", "tx_publish"}
      /\ wfb = "cleared" <=> t = "wfb"
      /\ \A u \in {"wfb", "main"} \ {t} : clearing[u].at = "none" /\ clearing'[u] = clearing[u]
  BY WalkAlone
<1>2. \A m : ~Meets(t, m) /\ ~Meets("wfb", m)
  BY <1>0, <1>1, IdleEmpty
<1>3. UNCHANGED pub \/ \E S : Says(t, S) /\ \A f \in S : f.value = "undef"
  <2>1. \A f \in RxClears(id) \cup TxClears(id) : f.value = "undef"
    BY DEF RxClears, TxClears, Clears, Fact
  <2> QED
    BY <2>1 DEF RxWalkStep, TxWalkStep
<1>4. HeldCovered'
  <2>1. \A m \in Matchers : Values(pub'["wfb"].batch, m) \subseteq {"undef"}
    <3>1. CASE UNCHANGED pub
      BY <1>0, <1>1, <3>1, IdleEmpty
    <3> QED
      BY <1>1, <1>3, <3>1, ClearsCover
  <2> QED
    BY <1>1, <2>1 DEF Tidy, HeldCovered, Held, Covered, seen
<1>5. Remembered'
  BY <1>1 DEF Remembered
<1>6. QuietOff'
  BY <1>1 DEF Tidy, QuietOff, Held, seen
<1>7. LinksDown'
  BY <1>1, <1>2 DEF Tidy, LinksDown
<1>8. /\ clearing'[t].at = clearing[t].at /\ clearing[t].at \in {"rx", "tx"}
      /\ clearing'[t].done = clearing[t].done \cup {id}
  <2>1. CASE RxWalkStep(t, id)
    BY <2>1 DEF RxWalkStep, Walk, Before, PubInv, ClearShape
  <2>2. CASE TxWalkStep(t, id)
    BY <2>2 DEF TxWalkStep, Walk, Before, PubInv, ClearShape
  <2> QED
    BY <2>1, <2>2
<1>9. QuietRx' /\ QuietTx'
  BY <1>1, <1>8 DEF Tidy, QuietRx, QuietTx, seen
<1>10. Walked'
  <2>1. ASSUME NEW m \in Matchers, clearing'[t].at = "rx", m.name \in {"rx", "rx_ant"}, Held(m)', Owned(m)
        PROVE  Meets(t, m)' \/ RxOf(m, seen_rx_ids' \ clearing'[t].done, seen_rx_ant_ids')
    <3>1. Held(m) /\ clearing[t].at = "rx"
      BY <1>1, <1>8, <2>1 DEF Held
    <3>2. id # "" => Says(t, RxClears(id))
      BY <3>1 DEF RxWalkStep, TxWalkStep
    <3>3. RxOf(m, seen_rx_ids \ clearing[t].done, seen_rx_ant_ids)
      BY <1>2, <2>1, <3>1 DEF Tidy, Walked
    <3>4. PICK i \in seen_rx_ids \ clearing[t].done :
            \/ match(Clears("rx", IdTag(i)), m)
            \/ \E a \in seen_rx_ant_ids : match(Clears("rx_ant", AntTags(i, a)), m)
      BY <3>3 DEF RxOf
    <3>5. CASE i = id
      <4>1. \E g \in RxClears(id) : match(g, m)
        BY <3>4, <3>5 DEF RxClears
      <4>2. id # ""
        BY <2>1, <3>4, <3>5, OwnedNamed
      <4> QED
        BY <3>2, <4>1, <4>2, SaysMeets
    <3>6. CASE i # id
      <4>1. i \in seen_rx_ids' \ clearing'[t].done /\ seen_rx_ant_ids' = seen_rx_ant_ids
        BY <1>8, <3>4, <3>6 DEF seen
      <4> QED
        BY <3>4, <4>1 DEF RxOf
    <3> QED
      BY <3>5, <3>6
  <2>2. ASSUME NEW m \in Matchers, clearing'[t].at = "tx", m.name \in {"tx", "rf_temperature"}, Held(m)', Owned(m)
        PROVE  Meets(t, m)' \/ TxOf(m, seen_tx_ids' \ clearing'[t].done, seen_tx_ant_ids')
    <3>1. Held(m) /\ clearing[t].at = "tx"
      BY <1>1, <1>8, <2>2 DEF Held
    <3>2. id # "" => Says(t, TxClears(id))
      BY <3>1 DEF RxWalkStep, TxWalkStep
    <3>3. TxOf(m, seen_tx_ids \ clearing[t].done, seen_tx_ant_ids)
      BY <1>2, <2>2, <3>1 DEF Tidy, Walked
    <3>4. PICK i \in seen_tx_ids \ clearing[t].done :
            \/ match(Clears("tx", IdTag(i)), m)
            \/ \E a \in seen_tx_ant_ids : match(Clears("rf_temperature", AntTags(i, a)), m)
      BY <3>3 DEF TxOf
    <3>5. CASE i = id
      <4>1. \E g \in TxClears(id) : match(g, m)
        BY <3>4, <3>5 DEF TxClears
      <4>2. id # ""
        BY <2>2, <3>4, <3>5, OwnedNamed
      <4> QED
        BY <3>2, <4>1, <4>2, SaysMeets
    <3>6. CASE i # id
      <4>1. i \in seen_tx_ids' \ clearing'[t].done /\ seen_tx_ant_ids' = seen_tx_ant_ids
        BY <1>8, <3>4, <3>6 DEF seen
      <4> QED
        BY <3>4, <4>1 DEF TxOf
    <3> QED
      BY <3>5, <3>6
  <2>3. \A u \in {"wfb", "main"} \ {t} : clearing'[u].at = "none"
    BY <1>1
  <2> QED
    BY <2>1, <2>2, <2>3 DEF Walked
<1> QED
  BY <1>4, <1>5, <1>6, <1>7, <1>9, <1>10 DEF Tidy

\* The ends of the two parts of a walk: what was walked is forgotten.
LEMMA ForgetTidy ==
  ASSUME \A m : Owned(m)' <=> Owned(m),
         Before, Tidy, NEW t \in {"wfb", "main"}, Apart', ForgetRx(t) \/ ForgetTx(t)
  PROVE  Tidy'
<1>0. "wfb" \in Publishers /\ t \in Publishers /\ clear_osd_wfbcli(t)
  BY TelemetryAssumption DEF clear_osd_wfbcli
<1>1. /\ UNCHANGED <<wfb, cli_connected>> /\ Due' = Due
      /\ pub["wfb"].at = "idle" /\ pub[t].at = "idle"
      /\ wfb \notin {"rx_ants", "rx_publish", "tx_publish"}
      /\ wfb = "cleared" <=> t = "wfb"
      /\ \A u \in {"wfb", "main"} \ {t} : clearing[u].at = "none" /\ clearing'[u] = clearing[u]
  BY <1>0, WalkAlone
<1>2. \A m : ~Meets(t, m) /\ ~Meets("wfb", m)
  BY <1>0, <1>1, IdleEmpty
<1>3. Remembered' /\ LinksDown'
  BY <1>1, <1>2 DEF Tidy, Remembered, LinksDown
<1>4. CASE ForgetRx(t)
  <2>1. /\ UNCHANGED <<pub, seen_tx_ids, seen_tx_ant_ids>> /\ clearing[t].at = "rx"
        /\ seen_rx_ids' = {} /\ seen_rx_ids \ clearing[t].done = {}
    BY <1>4 DEF ForgetRx, service
  <2>2. clearing'[t].at = "tx" /\ clearing'[t].done = {}
    BY <1>4 DEF ForgetRx, Walk, Before, PubInv, ClearShape
  <2>3. ASSUME NEW m \in Matchers, Held(m), Owned(m) PROVE m.name \notin {"rx", "rx_ant"} /\ Covered(m)'
    <3>1. m.name \notin {"rx", "rx_ant"}
      BY <1>2, <2>1, <2>3, OfName DEF Tidy, Walked
    <3>2. Covered(m) /\ ~RxOf(m, seen_rx_ids, seen_rx_ant_ids)
      BY <2>3, <3>1, OfName DEF Tidy, HeldCovered
    <3> QED
      BY <2>1, <3>1, <3>2 DEF Covered
  <2>4. HeldCovered'
    <3>1. \A m : Values(pub'["wfb"].batch, m) = {}
      BY <1>0, <1>1, <2>1, IdleEmpty
    <3> QED
      BY <1>1, <2>3, <3>1 DEF HeldCovered, Held, Covered
  <2>5. Walked'
    <3>1. seen_tx_ids' \ {} = seen_tx_ids
      BY <2>1
    <3>2. ASSUME NEW m \in Matchers, m.name \in {"tx", "rf_temperature"}, Held(m)', Owned(m)
          PROVE  TxOf(m, seen_tx_ids' \ clearing'[t].done, seen_tx_ant_ids')
      BY <1>1, <2>1, <2>2, <3>1, <3>2, HeldRemembered DEF Held
    <3> QED
      BY <1>1, <2>2, <3>2 DEF Walked
  <2>6. QuietRx' /\ QuietTx'
    BY <1>1, <2>1, <2>2 DEF QuietRx, QuietTx
  <2>7. QuietOff'
    BY <1>1, <2>1 DEF Tidy, QuietOff, Held
  <2> QED
    BY <1>3, <2>4, <2>5, <2>6, <2>7 DEF Tidy
<1>5. CASE ForgetTx(t)
  <2>1. /\ UNCHANGED <<seen_rx_ids, seen_rx_ant_ids>> /\ clearing[t].at = "tx"
        /\ seen_tx_ids' = {} /\ seen_tx_ids \ clearing[t].done = {}
    BY <1>5 DEF ForgetTx
  <2>2. clearing'[t].at = "none"
    BY <1>5 DEF ForgetTx, Walk, Before, PubInv, ClearShape
  <2> DEFINE S == {Clears("cli_title", NoTags)}
  <2>3. Says(t, S) /\ \A f \in S : f.value = "undef"
    BY <1>5, FewSay DEF Clears, Fact
  <2>4. ASSUME NEW m \in Matchers, Held(m), Owned(m) PROVE Covered(m)'
    <3>1. m.name \notin {"tx", "rf_temperature"}
      BY <1>2, <2>1, <2>4, OfName DEF Tidy, Walked
    <3>2. Covered(m) /\ ~TxOf(m, seen_tx_ids, seen_tx_ant_ids)
      BY <2>4, <3>1, OfName DEF Tidy, HeldCovered
    <3> QED
      BY <2>1, <3>1, <3>2 DEF Covered
  <2>5. HeldCovered'
    <3>1. \A m \in Matchers : Values(pub'["wfb"].batch, m) \subseteq {"undef"}
      <4> HIDE DEF S
      <4> QED
        BY <1>1, <2>3, ClearsCover
    <3> QED
      BY <1>1, <2>4, <3>1 DEF HeldCovered, Held, Covered
  <2>6. Walked'
    BY <1>1, <2>2 DEF Walked
  <2>7. QuietRx'
    BY <1>1, <2>1 DEF Tidy, QuietRx
  <2>8. QuietTx'
    <3> SUFFICES ASSUME NEW m \in Matchers, t = "wfb", m.name = "cli_title", Held(m) PROVE Meets("wfb", m)'
      BY <1>1, <2>1 DEF QuietTx, Held
    <3>1. match(Clears("cli_title", NoTags), m)
      BY HeldRemembered
    <3>2. \E g \in S : match(g, m)
      BY <3>1
    <3> HIDE DEF S
    <3> QED
      BY <2>3, <3>2, SaysMeets
  <2>9. QuietOff'
    BY <1>1, <2>1 DEF Tidy, QuietOff, Held
  <2> QED
    BY <1>3, <2>5, <2>6, <2>7, <2>8, <2>9 DEF Tidy
<1> QED
  BY <1>4, <1>5

\* The facts without tags that the client publishes will be cleared.
LEMMA PlainCovered ==
  ASSUME NEW m, NEW name, NEW value, match(Fact(name, NoTags, value), m)
  PROVE  /\ m.name = name
         /\ name \in {"cli.connected", "cli_title", "drone.connected"} => Covered(m)
<1>1. match(Clears(name, NoTags), m)
  BY MatchName
<1>2. m.name = name
  BY DEF match, Fact
<1> QED
  BY <1>1, <1>2 DEF Covered

\* The client publishes what it will clear.
LEMMA SpeaksTidy ==
  ASSUME \A m : Owned(m)' <=> Owned(m),
         Before, Tidy, Apart', \A m \in Matchers : m.name = "drone.connected" => DOMAIN m.tags = {},
         (Disconnected /\ ~signal) \/ Connects \/ process_rx \/ process_tx \/ process_title
  PROVE  Tidy'
<1>0. \A name, m : m.name = name /\ DOMAIN m.tags = {} => match(Clears(name, NoTags), m)
  BY DEF match, Clears, Fact
<1>1. CASE Disconnected /\ ~signal
  <2> DEFINE S == {Fact("cli.connected", NoTags, "false"), Fact("drone.connected", NoTags, "false")}
  <2>1. /\ Says("wfb", S) /\ wfb = "top" /\ wfb' = "connect" /\ UNCHANGED <<clearing, seen, cli_connected>>
    BY <1>1, FewSay DEF Disconnected, Go
  <2>2. \A f \in S, m \in Matchers : f.value # "undef" /\ match(f, m) => Covered(m)
    BY PlainCovered
  <2>3. ASSUME NEW m \in Matchers, m.name \in Linked, Held(m) PROVE \E f \in S : match(f, m)
    <3>1. match(Clears(m.name, NoTags), m)
      BY <1>0, <2>3, HeldRemembered DEF Linked
    <3>2. match(Fact(m.name, NoTags, "false"), m)
      BY <3>1, MatchName
    <3> QED
      BY <2>3, <3>2 DEF Linked
  <2> HIDE DEF S
  <2> QED
    BY <2>1, <2>2, <2>3, SpeakTidy
<1>2. CASE Connects
  <2> DEFINE S == {Fact("cli.connected", NoTags, "true")}
  <2>1. /\ Says("wfb", S) /\ wfb = "connect" /\ wfb' = "prefix" /\ UNCHANGED <<clearing, seen>> /\ cli_connected'
    BY <1>2, FewSay DEF Connects, Go
  <2>2. \A f \in S, m \in Matchers : f.value # "undef" /\ match(f, m) => Covered(m)
    BY PlainCovered
  <2> HIDE DEF S
  <2> QED
    BY <2>1, <2>2, SpeakTidy
<1>3. CASE process_title
  <2> DEFINE S == {Fact("cli_title", NoTags, "value")}
  <2>1. /\ Says("wfb", S) /\ wfb = "title" /\ wfb' = "prefix" /\ UNCHANGED <<clearing, seen, cli_connected>>
    BY <1>3, FewSay DEF process_title, Go
  <2>2. \A f \in S, m \in Matchers : f.value # "undef" /\ match(f, m) => Covered(m)
    BY PlainCovered
  <2> HIDE DEF S
  <2> QED
    BY <2>1, <2>2, SpeakTidy
<1>4. CASE process_rx
  <2>1. /\ wfb = "rx_publish" /\ wfb' = "prefix" /\ UNCHANGED <<clearing, seen, cli_connected>>
    BY <1>4 DEF process_rx, Go
  <2>2. PICK D \in SUBSET DroneFacts(current.id) : Says("wfb", RxFacts(current.id, current.ants) \cup D)
    BY <1>4, RxSays
  <2>3. current.id \in seen_rx_ids /\ current.ants \subseteq seen_rx_ant_ids
    BY <2>1 DEF Tidy, Remembered
  <2>4. ASSUME NEW f \in RxFacts(current.id, current.ants) \cup D, NEW m \in Matchers, match(f, m) PROVE Covered(m)
    <3>1. CASE f \in RxFacts(current.id, current.ants)
      <4>1. RxOf(m, seen_rx_ids, seen_rx_ant_ids)
        BY <2>3, <2>4, <3>1, MatchName DEF RxFacts, RxOf
      <4> QED
        BY <4>1 DEF Covered
    <3>2. CASE f \in D
      <4>1. f.name = "drone.connected"
        BY <2>2, <3>2 DEF DroneFacts, Fact
      <4> QED
        BY <2>4, <4>1, MatchName DEF Covered
    <3> QED
      BY <3>1, <3>2
  <2> DEFINE S == RxFacts(current.id, current.ants) \cup D
  <2>5. Says("wfb", S) /\ \A f \in S, m \in Matchers : f.value # "undef" /\ match(f, m) => Covered(m)
    BY <2>2, <2>4
  <2> HIDE DEF S
  <2> QED
    BY <2>1, <2>5, SpeakTidy
<1>5. CASE process_tx
  <2>1. /\ wfb = "tx_publish" /\ wfb' = "prefix" /\ UNCHANGED <<clearing, seen, cli_connected>>
    BY <1>5 DEF process_tx, Go
  <2>3. current.id \in seen_tx_ids /\ current.ants \subseteq seen_tx_ant_ids
    BY <2>1 DEF Tidy, Remembered
  <2> DEFINE S == TxFacts(current.id, current.ants)
  <2>4. ASSUME NEW f \in S, NEW m \in Matchers, match(f, m) PROVE Covered(m)
    <3>1. TxOf(m, seen_tx_ids, seen_tx_ant_ids)
      BY <2>3, <2>4, MatchName DEF TxFacts, TxOf
    <3> QED
      BY <3>1 DEF Covered
  <2>5. Says("wfb", S) /\ \A f \in S, m \in Matchers : f.value # "undef" /\ match(f, m) => Covered(m)
    BY <1>5, <2>4, TxSays
  <2> HIDE DEF S
  <2> QED
    BY <2>1, <2>5, SpeakTidy
<1> QED
  BY <1>1, <1>2, <1>3, <1>4, <1>5

\* A batch is taken by the service, or dropped when there is none.
LEMMA PublishTidy ==
  ASSUME \A m : Owned(m)' <=> Owned(m),
         Before, BatchesKnown, Tidy, [Next]_vars, Apart', NEW p \in Publishers, Publish(p)
  PROVE  Tidy'
<1>0. {"wfb", "main"} \subseteq Publishers /\ UNCHANGED <<wfb, cli_connected, clearing, seen>>
  BY TelemetryAssumption DEF Publish
<1>1. CASE publishFacts(p) /\ instance = "live"
  <2>1. \A q \in Publishers : pub'[q].batch = pub[q].batch
    BY <1>1 DEF publishFacts, Before, PubInv, PubShape
  <2>2. Due' = Due
    BY <1>1, DueStays DEF publishFacts
  <2> QED
    BY <1>0, <2>1, <2>2, SameTidy
<1>2. CASE publishFacts(p) /\ instance # "live"
  <2>1. wfb = "done" /\ clearing["main"].at = "none" /\ clearing["wfb"].at = "none"
    BY <1>2 DEF Before, PlaceInv, MainPlace, PubInv, OneBatch
  <2>2. Due' = Due
    BY <1>2, DueStays DEF publishFacts
  <2>3. pub["wfb"].at = "idle" /\ pub'["wfb"] = pub["wfb"]
    BY <1>0, <1>2, <2>1 DEF publishFacts, Before, PubInv, PubShape, PlaceInv, ClientPlace
  <2>4. HeldCovered' /\ QuietOff'
    BY <1>0, <2>2, <2>3 DEF Tidy, HeldCovered, QuietOff, Held, Covered, seen
  <2> QED
    BY <1>0, <2>1, <2>4 DEF Tidy, Remembered, Walked, QuietRx, QuietTx, LinksDown
<1>3. CASE enqueueFacts(p)
  <2>1. ASSUME NEW q \in Publishers, q # p PROVE pub'[q] = pub[q]
    BY <1>3, <2>1 DEF enqueueFacts, Before, PubInv, PubShape
  <2>2. pub'[p].batch = <<>> /\ \A m : Values(pub'[p].batch, m) = {}
    <3>1. pub'[p].batch = <<>>
      BY <1>3 DEF enqueueFacts, Before, PubInv, PubShape, Idle
    <3> QED
      BY <3>1 DEF Values
  <2>3. ASSUME NEW m \in Matchers
        PROVE  \/ ~Meets(p, m) /\ Due'[m] = Due[m]
               \/ Due'[m] \in Values(pub[p].batch, m) /\ Known(p, m.name, Due'[m])
    BY <1>3, DueLands, ValuesKnown
  <2>4. \A m \in Matchers : Covered(m)' <=> Covered(m)
    BY <1>0 DEF Covered, seen
  \* A value other than a clear is new to m only from the client or the recorder.
  <2>5. ASSUME NEW m \in Matchers, Held(m)'
        PROVE  \/ Held(m) /\ ~Meets(p, m)
               \/ p = "wfb" /\ wfb # "cleared" /\ (cli_connected \/ m.name \in Linked)
               \/ p = "dvr" /\ m.name = "dvr.recording"
    BY <2>3, <2>5 DEF Held, Known
  <2>6. HeldCovered'
    <3>1. ASSUME NEW m \in Matchers, Held(m)' PROVE Covered(m)
      <4>1. CASE Due'[m] = Due[m]
        BY <3>1, <4>1 DEF Tidy, HeldCovered, Held
      <4>2. CASE Due'[m] \in Values(pub[p].batch, m) /\ p = "wfb"
        BY <3>1, <4>2 DEF Tidy, HeldCovered, Held
      <4>3. CASE Known(p, m.name, Due'[m]) /\ p # "wfb"
        BY <3>1, <4>3 DEF Known, Held, Covered
      <4> QED
        BY <2>3, <4>1, <4>2, <4>3
    <3>2. \A m \in Matchers : Values(pub'["wfb"].batch, m) \subseteq {"undef"} \/ Covered(m)
      <4>1. CASE p = "wfb"
        BY <2>2, <4>1
      <4>2. CASE p # "wfb"
        BY <1>0, <2>1, <4>2 DEF Tidy, HeldCovered
      <4> QED
        BY <4>1, <4>2
    <3> QED
      BY <2>4, <3>1, <3>2 DEF HeldCovered
  <2>7. Remembered'
    <3>1. CASE wfb \in Handling
      BY <1>0, <3>1, CurrentStays DEF Tidy, Remembered, seen
    <3>2. CASE wfb \notin Handling
      BY <1>0, <3>2 DEF Remembered, Handling
    <3> QED
      BY <3>1, <3>2
  <2>8. Walked'
    <3>1. ASSUME NEW t \in {"wfb", "main"}, clearing[t].at # "none",
                 NEW m \in Matchers, m.name \in {"rx", "rx_ant", "tx", "rf_temperature"}, Held(m)'
          PROVE  Held(m) /\ (Meets(t, m) => Meets(t, m)')
      <4>0. pub[p].at # "idle"
        BY <1>3 DEF enqueueFacts
      <4>1. ~(p = "wfb" /\ wfb # "cleared")
        <5>1. t = "wfb" => wfb = "cleared"
          BY <3>1 DEF Before, PubInv, OneBatch
        <5>2. t = "main" => pub["wfb"].at = "idle"
          BY <3>1 DEF Tidy, Apart
        <5> QED
          BY <4>0, <5>1, <5>2
      <4>2. Held(m) /\ ~Meets(p, m)
        BY <2>5, <3>1, <4>1
      <4>3. CASE t = p
        BY <4>2, <4>3
      <4>4. CASE t # p
        <5>1. pub'[t] = pub[t]
          BY <1>0, <2>1, <4>4
        <5> QED
          BY <4>2, <5>1 DEF Meets
      <4> QED
        BY <4>3, <4>4
    <3> QED
      BY <1>0, <3>1 DEF Tidy, Walked, seen
  <2>9. QuietRx' /\ QuietTx'
    <3>1. QuietRx'
      BY <1>0 DEF Tidy, QuietRx, seen
    <3>2. ASSUME NEW m \in Matchers, wfb = "cleared", m.name = "cli_title", Held(m)', Held(m) => Meets("wfb", m)
          PROVE  Meets("wfb", m)'
      <4>1. Held(m) /\ ~Meets(p, m)
        BY <2>5, <3>2
      <4>2. p # "wfb"
        BY <3>2, <4>1
      <4>3. pub'["wfb"] = pub["wfb"]
        BY <1>0, <2>1, <4>2
      <4> QED
        BY <3>2, <4>1, <4>3 DEF Meets
    <3> QED
      BY <1>0, <3>1, <3>2 DEF Tidy, QuietTx, seen
  <2>10. QuietOff'
    <3>1. ASSUME NEW m \in Matchers, ~cli_connected, m.name = "cli_title", Held(m)' PROVE Held(m)
      BY <2>5, <3>1 DEF Linked
    <3> QED
      BY <1>0, <3>1 DEF Tidy, QuietOff, seen
  <2>11. LinksDown'
    <3> SUFFICES ASSUME NEW m \in Matchers, wfb \in {"connect", "cleared", "retry"}, m.name \in Linked
                 PROVE  Due'[m] \in {"undef", "false"} \/ Meets("wfb", m)'
      BY <1>0 DEF LinksDown
    <3>1. Due[m] \in {"undef", "false"} \/ Meets("wfb", m)
      BY DEF Tidy, LinksDown
    <3>2. CASE p = "wfb"
      <4>1. wfb # "retry"
        BY <1>3, <3>2 DEF enqueueFacts, Before, PlaceInv, ClientPlace
      <4> QED
        BY <2>3, <3>1, <3>2, <4>1 DEF Known
    <3>3. CASE p # "wfb"
      <4>1. pub'["wfb"] = pub["wfb"]
        BY <1>0, <2>1, <3>3
      <4>2. Due'[m] = Due[m] \/ Due'[m] = "undef"
        BY <2>3, <3>3 DEF Known, Linked
      <4> QED
        BY <3>1, <4>1, <4>2 DEF Meets
    <3> QED
      BY <3>2, <3>3
  <2> QED
    BY <2>6, <2>7, <2>8, <2>9, <2>10, <2>11 DEF Tidy
<1> QED
  BY <1>1, <1>2, <1>3 DEF Publish

\* Every step keeps LossInv.
LEMMA LossNext ==
  ASSUME \A m \in Matchers : m.name = "drone.connected" => DOMAIN m.tags = {},
         Before, LossInv, [Next]_vars
  PROVE  LossInv'
<1>1. BatchesKnown' /\ DvrShown' /\ NamesKept' /\ NamesKept /\ \A m : Owned(m)' <=> Owned(m)
  BY KnownNext, DvrNext, NamesNext, OwnedStays DEF LossInv
<1>2. ASSUME ~raced' PROVE Tidy'
  <2>0. Tidy /\ Apart' /\ BatchesKnown
    BY <1>2, StillApart DEF LossInv
  <2>1. CASE Passing
    BY <1>1, <2>0, <2>1, PassingTidy
  <2>2. CASE RemembersRxId \/ RemembersRxAnts \/ RemembersTx
    BY <1>1, <2>0, <2>2, RememberTidy
  <2>3. CASE (Disconnected /\ ~signal) \/ Connects \/ process_rx \/ process_tx \/ process_title
    BY <1>1, <2>0, <2>3, SpeaksTidy
  <2>4. CASE ConnectFails \/ StreamLost
    BY <1>1, <2>0, <2>4, StartTidy
  <2>5. ASSUME NEW t \in {"wfb", "main"}, clear_osd_wfbcli(t) PROVE Tidy'
    <3>1. CASE ForgetRx(t) \/ ForgetTx(t)
      BY <1>1, <2>0, <3>1, ForgetTidy
    <3>2. CASE ClearRxId(t)
      <4>1. PICK id : RxWalkStep(t, id)
        BY <3>2, WalksSay
      <4>2. UNCHANGED seen
        BY <3>2 DEF ClearRxId
      <4> QED
        BY <1>1, <2>0, <2>5, <4>1, <4>2, WalkStepTidy
    <3>3. CASE ClearTxId(t)
      <4>1. PICK id : TxWalkStep(t, id)
        BY <3>3, WalksSay
      <4>2. UNCHANGED seen
        BY <3>3 DEF ClearTxId
      <4> QED
        BY <1>1, <2>0, <2>5, <4>1, <4>2, WalkStepTidy
    <3> QED
      BY <2>5, <3>1, <3>2, <3>3 DEF clear_osd_wfbcli
  <2>6. CASE DvrPublishes
    <3>1. Says("dvr", {Fact("dvr.recording", NoTags, "value")}) /\ UNCHANGED <<wfb, cli_connected, clearing, seen>>
      BY <2>6, FewSay DEF DvrPublishes
    <3>2. pub'["wfb"] = pub["wfb"] /\ pub'["main"] = pub["main"]
      BY <3>1, TelemetryAssumption DEF Says
    <3>3. Due' = Due
      BY <3>1, DueStays DEF Says
    <3> QED
      BY <1>1, <2>0, <3>1, <3>2, <3>3, SameTidy
  <2>7. ASSUME NEW p \in Publishers, Publish(p) PROVE Tidy'
    BY <1>1, <2>0, <2>7, PublishTidy
  <2> QED
    BY <2>1, <2>2, <2>3, <2>4, <2>5, <2>6, <2>7, StepKinds
<1> QED
  BY <1>1, <1>2 DEF LossInv

\* It holds at the start.
LEMMA LossStarts == Init => PlaceInv /\ LossInv
<1> SUFFICES ASSUME Init PROVE PlaceInv /\ LossInv
  OBVIOUS
<1>0. {"wfb", "main", "dvr"} \subseteq Publishers /\ DOMAIN <<>> = {} /\ IsSeq(<<>>) /\ IsFiniteSet({})
  BY TelemetryAssumption, ListsFew, FS_EmptySet DEF Lists
<1>1. \A p \in Publishers : pub[p].at = "idle" /\ pub[p].batch = <<>>
  BY DEF Init, ServiceInit, Idle
<1>2. PlaceInv
  <2>1. BatchShape /\ SeenFinite
    BY <1>0, <1>1 DEF Init, ServiceInit, BatchShape, SeenFinite
  <2>2. InHand /\ ClientPlace /\ MainPlace
    BY <1>0, <1>1 DEF Init, ServiceInit, InHand, ClientPlace, MainPlace, Handling, NotClearing
  <2> QED
    BY <2>1, <2>2 DEF PlaceInv
<1>3. \A m \in Matchers : Due[m] = "undef"
  <2>1. Due = shown
    BY AppliedNone DEF Init, ServiceInit, Due
  <2> QED
    BY <2>1 DEF Init, ServiceInit
<1>4. BatchesKnown /\ DvrShown
  BY <1>0, <1>1, <1>3 DEF BatchesKnown, DvrShown
<1>5. \A m : Values(pub["wfb"].batch, m) = {}
  <2>1. pub["wfb"].batch = <<>> /\ 1 .. Len(<<>>) = {}
    BY <1>0, <1>1
  <2> QED
    BY <2>1 DEF Values
<1>6. Tidy
  <2>1. wfb = "top" /\ clearing["wfb"].at = "none" /\ clearing["main"].at = "none"
    BY DEF Init, NotClearing
  <2>2. HeldCovered /\ QuietOff
    BY <1>3, <1>5 DEF Init, HeldCovered, QuietOff, Held
  <2> QED
    BY <2>1, <2>2 DEF Tidy, Apart, Remembered, Walked, QuietRx, QuietTx, LinksDown
<1>7. NamesKept
  BY <1>0 DEF Init, NamesKept
<1> QED
  BY <1>2, <1>4, <1>6, <1>7 DEF LossInv

\* After a lost connection that is not re-established at once, the OSD shows
\* nothing of a link with an id, whatever the server sent and whatever the
\* widgets ask for, as long as none asks for "drone.connected" of one link, and
\* unless main's clear met the client at work (clear_osd_wfbcli(),
\* reconnect_to_server(), and the early return of clear_wfbcli_rx_link_facts()).
THEOREM LossesClear ==
  ASSUME \A m \in Matchers : m.name = "drone.connected" => DOMAIN m.tags = {}
  PROVE  Spec => []LossClears
<1>1. PlaceInv /\ LossInv => LossClears
  <2> SUFFICES ASSUME PlaceInv, LossInv, wfb = "retry", ~raced, fact_queue = <<>>,
                      \A p \in Publishers : pub[p].at = "idle", NEW m \in Matchers, Owned(m)
               PROVE  shown[m] \in IF m.name \in {"cli.connected", "drone.connected"}
                                   THEN {"undef", "false"}
                                   ELSE IF m.name = "dvr.recording" THEN {"undef", "value"} ELSE {"undef"}
    BY DEF LossClears
  <2>1. Due = shown
    BY AppliedNone DEF Due
  <2>2. Tidy /\ DvrShown /\ ~cli_connected
    BY DEF LossInv, PlaceInv, ClientPlace
  <2>3. ~Meets("wfb", m)
    <3>1. pub["wfb"].batch = <<>>
      BY TelemetryAssumption DEF PlaceInv, BatchShape
    <3> QED
      BY <3>1 DEF Meets, Values
  <2>4. CASE m.name \in Linked
    <3>1. shown[m] \in {"undef", "false"}
      BY <2>1, <2>2, <2>3, <2>4 DEF Tidy, LinksDown
    <3> QED
      BY <2>4, <3>1 DEF Linked
  <2>5. CASE m.name = "dvr.recording"
    BY <2>1, <2>2, <2>5 DEF DvrShown
  <2>6. CASE m.name \notin Linked \cup {"dvr.recording"}
    <3>1. ~Held(m)
      <4> SUFFICES ASSUME Held(m) PROVE FALSE
        OBVIOUS
      <4>1. Covered(m)
        BY <2>2 DEF Tidy, HeldCovered
      <4>2. seen_rx_ids = {} /\ seen_tx_ids = {} /\ m.name # "cli_title"
        BY <2>2 DEF Tidy, QuietOff
      <4> QED
        BY <2>6, <4>1, <4>2, OfName DEF Covered, Linked
    <3> QED
      BY <2>1, <2>6, <3>1 DEF Held, Linked
  <2> QED
    BY <2>4, <2>5, <2>6
<1>2. Init => PubInv
  BY TelemetryAssumption, OsdAssumption
    DEF Init, ServiceInit, PubInv, PubShape, MutexHeld, InsideLive, Taken, OneBatch, ClearShape,
      Handling, Idle, NotClearing
<1>3. PubInv /\ StreamInv /\ PlaceInv /\ [Next]_vars => PlaceInv'
  BY PlaceNext DEF Before
<1>4. PubInv /\ StreamInv /\ PlaceInv /\ LossInv /\ [Next]_vars => LossInv'
  BY LossNext DEF Before
<1> QED
  BY <1>1, <1>2, <1>3, <1>4, PubNext, StreamNext, StreamInvariance, LossStarts, PTL DEF Spec

=============================================================================
