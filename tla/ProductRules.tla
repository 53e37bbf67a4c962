---------------------------- MODULE ProductRules ----------------------------
(***************************************************************************)
(* Product classifications: which ones the aggregate accepts, which bins   *)
(* of a classified SKU facility-layout's attributes allow, and which DOT   *)
(* hazard classes may share a bin.                                         *)
(***************************************************************************)
EXTENDS Integers, Sequences, FiniteSets

CONSTANT Absent         \* no classification

HandlingTags       == {"Hazmat", "Fragile", "TemperatureSensitive", "Oversized", "HighValue"}
TemperatureClasses == {"Ambient", "Chilled", "Frozen"}
DOTClasses         == 1 .. 9
Unspecified == 0        \* DOTHazardClassUnspecified
NoTemperature == ""

ParseTemperatureClass(value) == IF value \in TemperatureClasses THEN value ELSE NoTemperature

-----------------------------------------------------------------------------
(* The aggregate *)

(* A classification as requested: tags is the list the caller sent.        *)
Accepts(c) ==
    LET tags == {c.tags[n] : n \in DOMAIN c.tags}
    IN  /\ tags # {} /\ tags \subseteq HandlingTags
        /\ Cardinality(tags) = Len(c.tags)
        /\ IF "TemperatureSensitive" \in tags
           THEN c.temperature \in TemperatureClasses
           ELSE c.temperature = NoTemperature
        /\ c.dot # Unspecified => "Hazmat" \in tags /\ c.dot \in DOTClasses

Classifications == [tags : SUBSET HandlingTags, temperature : TemperatureClasses \cup {NoTemperature},
                    dot : DOTClasses \cup {Unspecified}]

NewClassification(c) ==
    [tags |-> {c.tags[n] : n \in DOMAIN c.tags}, temperature |-> c.temperature, dot |-> c.dot]

IsHazmat(c) == "Hazmat" \in c.tags
IsTemperatureSensitive(c) == "TemperatureSensitive" \in c.tags

-----------------------------------------------------------------------------
(* Placement *)

UnknownSlot == [hazmat |-> FALSE, temperature |-> NoTemperature, known |-> FALSE]
SlotAttributes(hazmat, temperature) ==
    [hazmat |-> hazmat, temperature |-> ParseTemperatureClass(temperature), known |-> TRUE]

(* Only a SKU with one of these tags makes a stow ask for the attributes.  *)
Restricted(c) == c # Absent /\ (IsHazmat(c) \/ IsTemperatureSensitive(c))

Fits(c, attrs) == Restricted(c) /\ attrs.known =>
    /\ IsHazmat(c) => attrs.hazmat
    /\ IsTemperatureSensitive(c) => attrs.temperature = c.temperature

-----------------------------------------------------------------------------
(* Segregation *)

IncompatiblePairs ==
    {<<1, n>> : n \in 1 .. 9} \cup {<<2, n>> : n \in 2 .. 8}
    \cup {<<3, 5>>, <<3, 6>>, <<4, 6>>, <<4, 8>>, <<5, 6>>, <<5, 8>>, <<6, 8>>}

(* Mutant: the pairs are not mirrored.                                     *)
ClassIncompatibilityOneWay == [p \in DOTClasses \X DOTClasses |-> p \in IncompatiblePairs]

ClassIncompatibility == [p \in DOTClasses \X DOTClasses |->
    p \in IncompatiblePairs \/ <<p[2], p[1]>> \in IncompatiblePairs]

Incompatible(a, b) ==
    /\ a # Unspecified /\ b # Unspecified
    /\ a \in DOTClasses /\ b \in DOTClasses
    /\ ClassIncompatibility[<<a, b>>]

DOTClassOf(c) == IF c = Absent THEN Unspecified ELSE c.dot

(* The derived matrix as the regulation's table is collapsed, row by row:  *)
(* what each class must not lie beside.                                    *)
DerivedTable == << 1 .. 9, 1 .. 8, {1, 2, 5, 6}, {1, 2, 6, 8}, {1, 2, 3, 6, 8},
                   {1, 2, 3, 4, 5, 8}, {1, 2}, {1, 2, 4, 5, 6}, {1} >>
=============================================================================
