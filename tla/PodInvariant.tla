---------------------------- MODULE PodInvariant ----------------------------
(***************************************************************************)
(* The inductive invariant of Pod: what every reachable state of a process *)
(* has to satisfy for its cache, its breaker, its placements and its       *)
(* shutdown to be right, for any plan, topic and request.                  *)
(***************************************************************************)
EXTENDS Pod

Phases == {"migrate", "ping", "dial", "replay", "serving", "not ready", "drain", "stop lookup",
           "stop relay", "close pool", "flush", "exited", "killed"}
Windows == {"replay", "listen", "requests", "lookup", "relay", "flush"}
Stages  == {"idle", "looking", "calling", "done"} \cup Querying

Processes == [phase : Phases, tries : 1 .. BootRetries, listening : BOOLEAN,
              pool : {"none", "open", "closing", "closed"}, relay : {"off", "passing", "waiting", "stopped"},
              reader : {"none", "open", "closed"}, cancelled : BOOLEAN, hurried : SUBSET Windows]
RequestStates == [stage : Stages, conn : BOOLEAN, version : Nat, class : Classifications \cup {Absent}]
Consumers == [loop : {"off", "reading", "rejected", "applied", "stopped"},
              at : Partitions \cup {0}, rejoined : BOOLEAN]
Breakers == [state : {"closed", "open", "half-open"}, requests : 0 .. MaxCounted, failures : Nat,
             inARow : Nat]
Calls == [attempts : Nat, current : BOOLEAN]

RequestsTyped ==
    /\ req \in [Requests -> RequestStates]
    /\ classes \in [Skus -> Classifications \cup {Absent}]
    /\ binVersion \in [Bins -> Nat]
    /\ contents \subseteq Skus \X Bins /\ unasked \subseteq Skus \X Bins

TopicTyped ==
    /\ feed \in [Partitions -> Seq(Messages)]
    /\ \A p \in Partitions : \A n \in DOMAIN feed[p] :
          Publishable(feed[p][n]) /\ PartitionOf[feed[p][n].key] = p
    /\ news \in Seq(Messages) /\ \A n \in DOMAIN news : Publishable(news[n])

CacheTyped ==
    /\ startedAt \in [Partitions -> Nat] /\ offset \in [Partitions -> Nat]
    /\ ready \in BOOLEAN
    /\ consumer \in Consumers
    /\ consumer.loop \in {"rejected", "applied"} => consumer.at \in Partitions

LayoutTyped == breaker \in Breakers /\ calls \in [Requests -> Calls]

Typed ==
    /\ plan \in Plans /\ pod \in Processes
    /\ RequestsTyped /\ TopicTyped /\ CacheTyped /\ LayoutTyped

-----------------------------------------------------------------------------
(* The breaker *)

Current == {a \in Requests : calls[a].current}

(* Of the requests counted since the generation began, each has failed, is *)
(* under way, or has ended otherwise; half-open, one is counted at most.   *)
BreakerInv ==
    /\ breaker.failures + Cardinality(Current) <= breaker.requests
    /\ breaker.state = "half-open" => breaker.requests <= MaxRequests

    /\ \A a \in Requests : Calling(a) => req[a].stage = "calling"

-----------------------------------------------------------------------------
(* The cache *)

ZoneEvents == {"ZoneRegistered"}
SlotEvents == {"LocationSlotRegistered", "LocationSlotDecommissioned"}

(* The last message of the given types about a key among the first n.      *)
Latest(entries, types, key, n) ==
    LET about == {i \in 1 .. n : entries[i].type \in types /\ entries[i].key = key}
    IN  IF about = {} THEN Absent ELSE entries[Max(about)]

(* The zone is cached as its partition's first n messages tell it.         *)
ZoneAsOf(z, n) ==
    LET m == Latest(feed[PartitionOf[z]], ZoneEvents, z, n)
    IN  IF m = Absent THEN z \notin DOMAIN zones
        ELSE z \in DOMAIN zones /\ zones[z] = SlotAttributes(m.hazmat, m.temperature)

SlotAsOf(c, n) ==
    LET m == Latest(feed[PartitionOf[c]], SlotEvents, c, n)
    IN  IF m = Absent \/ m.type = "LocationSlotDecommissioned" THEN c \notin DOMAIN slots
        ELSE c \in DOMAIN slots /\ slots[c] = ZoneIn(m)

(* What has been read, or, while messages are read a second time, more.    *)
Heard(k) == {n \in offset[PartitionOf[k]] .. Len(feed[PartitionOf[k]]) :
                consumer.rejoined \/ n = offset[PartitionOf[k]]}

(* Each zone and each slot is cached as some point of its partition that   *)
(* is not behind what was read tells it; after a rejoin not all at the     *)
(* same point.                                                             *)
CacheInv ==
    /\ \A p \in Partitions : offset[p] <= Len(feed[p]) /\ startedAt[p] <= Len(feed[p])
    /\ \A k \in Names : \E n \in Heard(k) : ZoneAsOf(k, n)
    /\ \A k \in Names : \E n \in Heard(k) : SlotAsOf(k, n)

(* A partition no longer waited for has been replayed.                     *)
ReplayInv ==
    /\ DOMAIN target \subseteq Partitions
    /\ \A p \in DOMAIN target : target[p] = startedAt[p]
    /\ \A p \in Partitions \ DOMAIN target : consumer.rejoined \/ offset[p] >= startedAt[p]
    /\ ready => DOMAIN target = {}

-----------------------------------------------------------------------------
(* The process *)

Untouched == \A a \in Requests : req[a].stage = "idle"
Quiet     == \A a \in Requests : ~InFlight(a)

(* Before the consumer is created nothing of it runs, before the service   *)
(* is ready nothing is answered.                                           *)
StartInv ==
    /\ pod.phase \in {"migrate", "ping"} => pod.relay = "off"
    /\ pod.phase \in {"migrate", "ping", "dial"} => consumer = Off /\ pod.reader = "none"
    /\ Booting => contents = {} /\ Untouched
    /\ pod.listening => pod.phase \in {"serving", "not ready", "killed"}
    /\ plan.mode = "kafka" /\ (pod.listening \/ ~Untouched) => ready

Closed == pod.pool \in {"closing", "closed"}

(* What has ended in which phase of an unhurried shutdown.                 *)
StopInv ==
    /\ Closed => pod.phase \in {"close pool", "flush", "exited", "killed"} /\ ~pod.listening
    /\ pod.hurried = {} =>
          /\ Closed \/ pod.phase \in {"stop lookup", "stop relay", "close pool", "flush"} => Quiet
          /\ Closed \/ pod.phase \in {"stop relay", "close pool", "flush"} =>
                consumer.loop \in {"off", "stopped"} /\ pod.reader # "open"
          /\ Closed \/ pod.phase \in {"close pool", "flush"} => pod.relay \in {"off", "stopped"}

-----------------------------------------------------------------------------
(* Placements *)

Unchanged(a) == Sku(a) \notin Reclassified

(* Only stows go through a stow's stages, and only over HTTP one calls.    *)
OnlyStows ==
    /\ \A a \in Requests : InFlight(a) => (req[a].stage = "classifying") = (Op(a) # "stow")
    /\ \A a \in Requests : req[a].stage = "calling" => plan.mode = "http"

(* What a request has read of a SKU is still so unless it was reclassified *)
(* since, and what was decided from it holds.                              *)
ClassRead == \A a \in Requests : req[a].stage \in {"looking", "calling"} /\ Unchanged(a) =>
    req[a].class = classes[Sku(a)]
Checked == \A a \in Requests : req[a].stage \in {"segregating", "saving"} /\ Unchanged(a) =>
    Suits(Sku(a), Bin(a))

PlacementInv == OnlyStows /\ ClassRead /\ Checked /\ PlacedByTheBook

(* A bin still at the version a request has read has the contents the      *)
(* request has checked.                                                    *)
SegregationInv ==
    /\ \A a \in Requests : req[a].version <= binVersion[Bin(a)]
    /\ \A a \in Requests : req[a].stage = "saving" /\ req[a].version = binVersion[Bin(a)] /\ Unchanged(a) =>
          \A t \in Skus \ Reclassified :
             t # Sku(a) /\ <<t, Bin(a)>> \in contents => ~KeptApart(Sku(a), t)
    /\ SegregatedUnlessReclassified

IInv == Typed /\ BreakerInv /\ CacheInv /\ ReplayInv /\ StartInv /\ StopInv /\ PlacementInv /\ SegregationInv
=============================================================================
