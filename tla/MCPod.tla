------------------------------- MODULE MCPod -------------------------------
(***************************************************************************)
(* Small configurations of one process.                                    *)
(***************************************************************************)
EXTENDS PodInvariant, TLC

Codes  == ("a-1" :> "a") @@ ("b-1" :> "b")
ByKind == ("a" :> 1) @@ ("b" :> 1) @@ ("a-1" :> 2) @@ ("b-1" :> 2)

Zone(z, hazmat, temperature) ==
    [type |-> "ZoneRegistered", key |-> z, hazmat |-> hazmat, temperature |-> temperature, zone |-> ""]
Slot(type, code, zone) == [type |-> type, key |-> code, hazmat |-> FALSE, temperature |-> "", zone |-> zone]
Added(code, zone) == Slot("LocationSlotRegistered", code, zone)
Gone(code)        == Slot("LocationSlotDecommissioned", code, "")
Malformed(code)   == Slot("malformed", code, "")

Class(tags, temperature, dot) == [tags |-> tags, temperature |-> temperature, dot |-> dot]
Acid   == Class({"Hazmat"}, "", 8)
Solids == Class({"Hazmat"}, "", 4)
Fish   == Class({"TemperatureSensitive"}, "Frozen", 0)

Stow(sku, bin)       == [op |-> "stow", sku |-> sku, bin |-> bin, class |-> Absent]
Classify(sku, class) == [op |-> "classify", sku |-> sku, bin |-> "a-1", class |-> class]

NothingPublished == [p \in {1, 2} |-> <<>>]
Plan == [mode |-> "permissive", relay |-> FALSE, events |-> {},
         history |-> NothingPublished, news |-> <<>>, layout |-> [b \in DOMAIN Codes |-> UnknownSlot],
         classes |-> [s \in {"acid"} |-> Acid], requests |-> <<>>]

-----------------------------------------------------------------------------
(* Zones and slots of a warehouse in use: a zone loses its hazmat rating   *)
(* and a location moves while stows are under way.                         *)
Cached == [Plan EXCEPT !.mode = "kafka", !.events = {"reader"},
    !.history = << <<Zone("a", TRUE, "Chilled"), Zone("b", FALSE, "none")>>,
                   <<Added("a-1", ""), Malformed("b-1"), Added("b-1", "b")>> >>,
    !.news = <<Zone("a", FALSE, "Frozen"), Gone("b-1"), Added("b-1", "a")>>,
    !.classes = ("acid" :> Acid) @@ ("fish" :> Fish),
    !.requests = <<Stow("acid", "a-1"), Stow("fish", "b-1")>>]

(* A topic nothing was published to yet: the process serves at once.       *)
FreshTopic == [Plan EXCEPT !.mode = "kafka", !.relay = TRUE,
    !.events = {"start", "config", "reader", "queries", "listen", "signal", "kill"},
    !.news = <<Added("a-1", ""), Zone("a", FALSE, "")>>,
    !.requests = <<Stow("acid", "a-1")>>]

(* facility-layout asked directly, failing at will.                        *)
Asked == [Plan EXCEPT !.mode = "http", !.events = {"layout", "cancel", "again"},
    !.layout = ("a-1" :> SlotAttributes(FALSE, "")) @@ ("b-1" :> UnknownSlot),
    !.requests = <<Stow("acid", "a-1"), Stow("acid", "a-1")>>]

(* Incompatible SKUs stowed into one bin, one of them reclassified, and    *)
(* stopped with any of it under way.                                       *)
Chemicals == [Plan EXCEPT !.relay = TRUE, !.events = {"signal"},
    !.classes = ("acid" :> Acid) @@ ("solids" :> Solids) @@ ("salt" :> Absent),
    !.requests = << Stow("acid", "a-1"), Stow("solids", "a-1"), Stow("salt", "a-1"),
                    Classify("salt", Class(<<"Hazmat">>, "", 6)) >>]

(* A classification the service does not accept.                           *)
Misfit == [Plan EXCEPT !.events = {"signal", "queries"},
    !.requests = <<Stow("acid", "a-1"), Classify("acid", Class(<<"Fragile">>, "Frozen", 8))>>]

(* Two stows into one bin, for every two hazard classes.                   *)
Pairs == {[Plan EXCEPT
    !.classes  = [s \in {"acid", "solids"} |-> Class({"Hazmat"}, "", IF s = "acid" THEN m ELSE n)],
    !.requests = <<Stow("acid", "a-1"), Stow("solids", "a-1")>>] : m, n \in DOTClasses}

AllPlans == {Cached, FreshTopic, Asked, Chemicals, Misfit} \cup Pairs
=============================================================================
