------------------------------ MODULE OsdFacts ------------------------------
(***************************************************************************)
(* The facts shown on the OSD: osd_publish.cpp, the queue of               *)
(* osd_service.cpp and the matching of lib/libosd.  Any thread publishes;  *)
(* the OSD thread drains the queue and hands every fact to the widgets     *)
(* whose matchers it satisfies; main starts and stops the service.         *)
(*                                                                         *)
(* A fact is [name, tags, value] with tags a function from tag keys to     *)
(* values; a clear fact has the value "undef".  fact_mutex_ is only held   *)
(* within a step.                                                          *)
(***************************************************************************)
EXTENDS Integers, Sequences, FiniteSets

CONSTANTS Publishers,     \* threads that publish facts
          Matchers        \* the matchers of the configured widgets

ASSUME OsdAssumption == "none" \notin Publishers

VARIABLES instance,       \* OsdService::instance_: "live", "moved" out of it, "deleted"
          locked,         \* the holder of instance_mutex_, or "none"
          stop_,
          fact_queue,
          osd,            \* where the OSD thread is
          shown,          \* the value every matcher's widget holds
          pub             \* per publisher, the batch it publishes and where it is

service == <<instance, locked, stop_, fact_queue, osd, shown, pub>>

Fact(name, tags, value) == [name |-> name, tags |-> tags, value |-> value]
NoTags == [k \in {} |-> "none"]
IdTag(id) == [k \in {"id"} |-> id]
AntTags(id, ant) == [k \in {"id", "ant_id"} |-> IF k = "id" THEN id ELSE ant]

Idle == [at |-> "idle", batch |-> <<>>]

ServiceInit ==
    /\ instance = "live" /\ locked = "none" /\ stop_ = FALSE
    /\ fact_queue = <<>> /\ osd = "wait"
    /\ shown = [m \in Matchers |-> "undef"]
    /\ pub = [p \in Publishers |-> Idle]

-----------------------------------------------------------------------------
(* FactMeta::match and Osd::setFact. *)

match(fact, m) ==
    /\ fact.name = m.name
    /\ \A k \in DOMAIN m.tags : k \in DOMAIN fact.tags /\ fact.tags[k] = m.tags[k]

setFact(s, fact) == [m \in Matchers |-> IF match(fact, m) THEN fact.value ELSE s[m]]

Applied(s, facts) ==
    LET A[i \in 0 .. Len(facts)] == IF i = 0 THEN s ELSE setFact(A[i - 1], facts[i])
    IN  A[Len(facts)]

-----------------------------------------------------------------------------
(* Publishing.  osd_publish_batch() or osd_publish_*_fact() of a thread    *)
(* begins with publish(p, batch); the two steps below are publishFacts().  *)
(* The service is enabled (params_.enabled): main starts the client only   *)
(* then, and without the client the recorder's facts alone would be lost.  *)

publish(p, batch) == pub' = [pub EXCEPT ![p] = [at |-> "want", batch |-> batch]]

(* Altered: the instance is tested and then used without its mutex. *)
LookWithoutLock(p) ==
    /\ pub[p].at = "want"
    /\ pub' = [pub EXCEPT ![p] = IF instance = "live" THEN [@ EXCEPT !.at = "in"] ELSE Idle]
    /\ UNCHANGED <<instance, locked, stop_, fact_queue, osd, shown>>

publishFacts(p) ==
    /\ pub[p].at = "want" /\ locked = "none"
    /\ IF instance = "live"
       THEN locked' = p /\ pub' = [pub EXCEPT ![p].at = "in"]
       ELSE pub' = [pub EXCEPT ![p] = Idle] /\ UNCHANGED locked
    /\ UNCHANGED <<instance, stop_, fact_queue, osd, shown>>

enqueueFacts(p) ==
    /\ pub[p].at = "in"
    /\ fact_queue' = fact_queue \o pub[p].batch
    /\ locked' = "none" /\ pub' = [pub EXCEPT ![p] = Idle]
    /\ UNCHANGED <<instance, stop_, osd, shown>>

-----------------------------------------------------------------------------
(* OsdService::run().  stop() sets stop_ without fact_mutex_, so that its  *)
(* notification may be missed; the wait ends at the next time to display   *)
(* anyway, and notifications, which only end it earlier, are left out.     *)

WaitEnds ==
    /\ osd = "wait"
    /\ \/ stop_ /\ osd' = "done"
       \/ ~stop_ /\ fact_queue # <<>> /\ osd' = "drain"
    /\ UNCHANGED <<instance, locked, stop_, fact_queue, shown, pub>>

drainFacts ==
    /\ osd = "drain" /\ osd' = "wait"
    /\ shown' = Applied(shown, fact_queue)
    /\ fact_queue' = <<>>
    /\ UNCHANGED <<instance, locked, stop_, pub>>

OsdThread == WaitEnds \/ drainFacts

-----------------------------------------------------------------------------
(* OsdService::stop(), in three steps of main. *)

StopMoves ==
    /\ locked = "none" /\ instance' = "moved"
    /\ UNCHANGED <<locked, stop_, fact_queue, osd, shown, pub>>

StopStores ==
    /\ stop_' = TRUE
    /\ UNCHANGED <<instance, locked, fact_queue, osd, shown, pub>>

StopJoins ==
    /\ osd = "done" /\ instance' = "deleted"
    /\ UNCHANGED <<locked, stop_, fact_queue, osd, shown, pub>>
=============================================================================
