---------------------------- MODULE FacilityCache ----------------------------
(***************************************************************************)
(* The local view of facility-layout's locations, rebuilt at every start   *)
(* from the history of its topic.  Zones and slots are aggregates of their *)
(* own, published under their own keys: messages of one key are in order,  *)
(* those of different partitions arrive in any order.  The consumer keeps  *)
(* them in two maps and joins them at lookup.                              *)
(*                                                                         *)
(* Messages are records with a type, the key they are published under, and *)
(* the payload fields the cache reads; a malformed one is anything apply   *)
(* rejects.                                                                *)
(***************************************************************************)
EXTENDS ProductRules, FiniteSetsExt, Functions

CONSTANTS
    ZoneOfCode,     \* the zone named by the first segments of a location code
    PartitionOf     \* the partition of a message key

VARIABLES
    feed,       \* the topic, per partition
    startedAt,  \* the last offsets when the consumer was created
    target,     \* the partitions still to be replayed, with those offsets
    offset,     \* messages read so far, per partition
    zones,      \* attributes by zone
    slots,      \* zone by location code
    ready,      \* the startup history has been replayed
    consumer    \* the consume loop (off, reading, rejected, applied, stopped),
                \* and whether its reader has had to rejoin the group

cacheVars == <<feed, startedAt, target, offset, zones, slots, ready, consumer>>
replica   == <<startedAt, target, offset, zones, slots, ready>>

(* A zone has a partition of its own key, also when no message names it.   *)
ASSUME NamesAssumption ==
    /\ IsFiniteSet(DOMAIN PartitionOf)
    /\ DOMAIN ZoneOfCode \cup {ZoneOfCode[c] : c \in DOMAIN ZoneOfCode} \subseteq DOMAIN PartitionOf

Names == DOMAIN PartitionOf
Messages == [type : STRING, key : Names, hazmat : BOOLEAN, temperature : STRING, zone : Names \cup {""}]

ASSUME AbsentAssumption == Absent \notin Messages

Partitions == {PartitionOf[k] : k \in DOMAIN PartitionOf}
Lengths == [p \in Partitions |-> Len(feed[p])]
Off == [loop |-> "off", at |-> 0, rejoined |-> FALSE]

-----------------------------------------------------------------------------
(* Start *)

(* Only partitions that hold a message are waited for; a topic that does   *)
(* not exist yet has none.                                                 *)
NewConsumer ==
    /\ startedAt' = Lengths
    /\ target' = [p \in {p \in Partitions : Lengths[p] > 0} |-> Lengths[p]]
    /\ offset' = [p \in Partitions |-> 0]
    /\ zones' = <<>> /\ slots' = <<>>
    /\ ready' = (\A p \in Partitions : Lengths[p] = 0)
    /\ consumer' = [Off EXCEPT !.loop = "reading"]
    /\ UNCHANGED feed

-----------------------------------------------------------------------------
(* The consume loop *)

Without(f, k) == [x \in DOMAIN f \ {k} |-> f[x]]
With(f, k, v) == [x \in DOMAIN f \cup {k} |-> IF x = k THEN v ELSE f[x]]

ZoneIn(m) == IF m.zone = "" THEN ZoneOfCode[m.key] ELSE m.zone

ApplyZoneRegistered(m) ==
    zones' = With(zones, m.key, SlotAttributes(m.hazmat, m.temperature)) /\ slots' = slots

(* Mutant: a slot is only cached once its zone is known.                   *)
ApplySlotOfKnownZone(m) ==
    /\ slots' = IF ZoneIn(m) \in DOMAIN zones THEN With(slots, m.key, ZoneIn(m)) ELSE slots
    /\ zones' = zones

ApplySlotRegistered(m) == slots' = With(slots, m.key, ZoneIn(m)) /\ zones' = zones

ApplySlotDecommissioned(m) == slots' = Without(slots, m.key) /\ zones' = zones

Apply(p) ==
    /\ consumer.loop = "reading" /\ offset[p] < Len(feed[p])
    /\ LET m == feed[p][offset[p] + 1]
       IN  /\ CASE m.type = "ZoneRegistered" -> ApplyZoneRegistered(m)
                 [] m.type = "LocationSlotRegistered" -> ApplySlotRegistered(m)
                 [] m.type = "LocationSlotDecommissioned" -> ApplySlotDecommissioned(m)
                 [] OTHER -> UNCHANGED <<zones, slots>>
           /\ consumer' = [consumer EXCEPT !.at = p,
                              !.loop = IF m.type = "malformed" THEN "rejected" ELSE "applied"]
    /\ offset' = [offset EXCEPT ![p] = @ + 1]
    /\ UNCHANGED <<feed, startedAt, target, ready>>

(* A rejected message is written to the dead-letter topic, within a bound  *)
(* on attempts; whether that succeeds makes no difference to the loop.     *)
DeadLetter ==
    /\ consumer.loop = "rejected"
    /\ consumer' = [consumer EXCEPT !.loop = "applied"]
    /\ UNCHANGED <<feed, replica>>

(* Mutant: one partition that has caught up is enough.                     *)
ObserveAny ==
    /\ consumer.loop = "applied"
    /\ LET p == consumer.at
       IN  /\ target' = IF p \in DOMAIN target /\ offset[p] >= target[p] THEN Without(target, p) ELSE target
           /\ ready' = (ready \/ DOMAIN target' # DOMAIN target)
    /\ consumer' = [consumer EXCEPT !.loop = "reading", !.at = 0]
    /\ UNCHANGED <<feed, startedAt, offset, zones, slots>>

Observe ==
    /\ consumer.loop = "applied"
    /\ LET p == consumer.at
       IN  /\ target' = IF p \in DOMAIN target /\ offset[p] >= target[p] THEN Without(target, p) ELSE target
           /\ ready' = (ready \/ DOMAIN target' = {})
    /\ consumer' = [consumer EXCEPT !.loop = "reading", !.at = 0]
    /\ UNCHANGED <<feed, startedAt, offset, zones, slots>>

(* The reader fails or its context is cancelled: Run returns.  What is     *)
(* cached goes on being served.                                            *)
StopReading ==
    /\ consumer.loop = "reading"
    /\ consumer' = [consumer EXCEPT !.loop = "stopped"]
    /\ UNCHANGED <<feed, replica>>

(* The reader loses its place in the group and resumes from the offsets    *)
(* committed last, which trail what has been applied.  Bound: once.        *)
Rejoin ==
    /\ consumer.loop = "reading" /\ ~consumer.rejoined
    /\ \E at \in [Partitions -> 0 .. Max(Range(offset))] :
          /\ \A p \in Partitions : at[p] <= offset[p]
          /\ offset' = at
    /\ consumer' = [consumer EXCEPT !.rejoined = TRUE]
    /\ UNCHANGED <<feed, startedAt, target, zones, slots, ready>>

(* facility-layout publishes m.                                            *)
Published(m) ==
    /\ feed' = [feed EXCEPT ![PartitionOf[m.key]] = Append(@, m)]
    /\ UNCHANGED <<replica, consumer>>

-----------------------------------------------------------------------------
(* Lookup *)

GetSlotAttributes(code) ==
    IF code \in DOMAIN slots /\ slots[code] \in DOMAIN zones
    THEN zones[slots[code]] ELSE UnknownSlot

-----------------------------------------------------------------------------
(* What facility-layout has said up to a cut through its topic *)

LastOf(types, key, cut) ==
    LET p == PartitionOf[key]
        about == {n \in 1 .. cut[p] : feed[p][n].type \in types /\ feed[p][n].key = key}
    IN  IF about = {} THEN Absent ELSE feed[p][Max(about)]

View(code, cut) ==
    LET slot == LastOf({"LocationSlotRegistered", "LocationSlotDecommissioned"}, code, cut)
    IN  IF slot = Absent \/ slot.type = "LocationSlotDecommissioned" THEN UnknownSlot
        ELSE LET zone == LastOf({"ZoneRegistered"}, ZoneIn(slot), cut)
             IN  IF zone = Absent THEN UnknownSlot ELSE SlotAttributes(zone.hazmat, zone.temperature)

CutsSinceStart == {cut \in [Partitions -> 0 .. Max({Len(feed[p]) : p \in Partitions})] :
                      \A p \in Partitions : startedAt[p] <= cut[p] /\ cut[p] <= Len(feed[p])}

(* In whatever order the partitions were read, a consumer that has read    *)
(* everything answers as facility-layout would.                            *)
CaughtUpIsRight == consumer.loop = "reading" /\ offset = Lengths =>
    \A code \in DOMAIN ZoneOfCode : GetSlotAttributes(code) = View(code, Lengths)
=============================================================================
