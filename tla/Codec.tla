------------------------------- MODULE Codec -------------------------------
(***************************************************************************)
(* The encoding of the durable state (persistence.cpp, binary.hpp).        *)
(*                                                                         *)
(* A CELL, an integer, stands for the bytes of one fixed-size item: an     *)
(* id, a count, a number, a tag, a character.  An encoding is a sequence   *)
(* of cells.  Fractions in [0,1] are given in whole units.  A record type  *)
(* is a SCHEMA: its fields in the order they are written, with the check   *)
(* its decoder makes of each.  A decoder returns a cursor: has every check *)
(* passed, the cells not read yet, what was read.                          *)
(***************************************************************************)
EXTENDS Integers, Sequences

CONSTANTS
    MaxCollectionItems,   \* kMaxCollectionItems
    MaxString,            \* the cap on the length of a string
    PersistenceMagic, PersistenceVersion

ASSUME CodecAssumption ==
    /\ MaxCollectionItems \in Nat /\ MaxString \in Nat
    /\ PersistenceMagic \in Int /\ PersistenceVersion \in Int

Cells == Seq(Int)

\* The type of a field: a number of a set, or one of the others.  Any eight
\* bytes are an id, so that no cell is refused as one.
Num(set) == <<"num", set>>
U64 == Num(Int)
I64 == Num(Int)
NonNegative == Num(Nat)
Positive == Num(Nat \ {0})
UnitInterval == Num(0..1)
Str == <<"str">>
Val == <<"value">>
OptVal == <<"optional value">>
OptI64 == <<"optional number">>

----------------------------------------------------------------------------
(* The record types                                                        *)

\* Mutant: one window type too few.
MaxWindowTypeShort == 3

MaxWindowType == 4

ObjectiveFields ==
    << <<"id", U64>>, <<"gen", U64>>, <<"name", Str>>,
       <<"dim", Num(0..5)>>, <<"kind", Num(0..11)>>, <<"comparison", Num(0..1)>>,
       <<"hard", Num(0..1)>>, <<"enforcement", Num(0..3)>>,
       <<"target", Val>>, <<"breach_threshold", OptVal>>, <<"recovery_threshold", OptVal>>,
       <<"min_evidence", NonNegative>>, <<"allowed_uncertainty", UnitInterval>>,
       <<"freshness_ttl", NonNegative>>, <<"grace_period", I64>>,
       <<"window_type", Num(0..MaxWindowType)>>, <<"window_duration", I64>>,
       <<"window_count", Positive>>, <<"priority", I64>>,
       <<"percentile_rank", UnitInterval>>,
       <<"availability_mode", Num(0..1)>>, <<"rate_tag", Num(0..3)>> >>

ContractHead ==
    << <<"id", U64>>, <<"gen", U64>>, <<"service", U64>>, <<"workload", U64>>, <<"tenant", U64>> >>

ContractTail ==
    << <<"policy_id", U64>>, <<"policy_gen", U64>>, <<"effective_from", I64>>,
       <<"expiration", OptI64>>, <<"epoch", U64>>, <<"lifecycle", Num(0..5)>>,
       <<"name", Str>>, <<"provenance", Str>> >>

PolicyFields ==
    << <<"id", U64>>, <<"gen", U64>>, <<"mode", Num(0..1)>>, <<"tie_break", Num(0..2)>>,
       <<"name", Str>>, <<"description", Str>> >>

\* The decoders accept the action 23, one past the last EnforcementAction.
ReceiptFields ==
    << <<"id", U64>>, <<"gen", U64>>, <<"action", Num(0..23)>>, <<"lifecycle", Num(0..9)>>,
       <<"epoch", U64>>, <<"contract_gen", U64>>, <<"policy_gen", U64>>,
       <<"evaluation_id", U64>>, <<"evaluation_gen", U64>>, <<"workload_gen", U64>>,
       <<"service", U64>>, <<"workload", U64>>, <<"objective_id", U64>>,
       <<"objective_gen", U64>>, <<"reason", Str>> >>

ObjectiveStateFields ==
    << <<"objective_id", U64>>, <<"objective_gen", U64>>,
       <<"budget_total", NonNegative>>, <<"budget_consumed", NonNegative>>,
       <<"budget_window", I64>>, <<"budget_window_start", I64>>,
       <<"last_state", Num(0..7)>>, <<"last_state_time", I64>>, <<"cooldown_until", I64>> >>

EvaluationFields ==
    << <<"evaluation_id", U64>>, <<"evaluation_gen", U64>>, <<"contract_gen", U64>>,
       <<"policy_gen", U64>>, <<"evidence_gen", U64>>, <<"epoch", U64>>, <<"time", I64>>,
       <<"compliance", Num(0..7)>>, <<"binding_dimension", Num(0..5)>>,
       <<"binding_objective", U64>>, <<"selected_action", Num(0..23)>>, <<"digest", U64>> >>

----------------------------------------------------------------------------
(* Writing                                                                 *)

\* The items one after the other.
Concatenated(items) ==
    LET last[k \in 0..Len(items)] ==
            IF k = 0 THEN <<>> ELSE items[Len(items) - k + 1] \o last[k - 1]
    IN  last[Len(items)]

write_value(v) == <<v.tag, v.n>>
write_string(s) == <<Len(s)>> \o s

write_field(type, v) ==
    CASE type[1] = "num" -> <<v>>
      [] type[1] = "str" -> write_string(v)
      [] type[1] = "value" -> write_value(v)
      [] type[1] = "optional value" -> IF v = <<>> THEN <<0>> ELSE <<1>> \o write_value(v[1])
      [] type[1] = "optional number" -> IF v = <<>> THEN <<0>> ELSE <<1, v[1]>>

write_fields(schema, r) ==
    Concatenated([i \in 1..Len(schema) |-> write_field(schema[i][2], r[schema[i][1]])])

\* A count, and the encodings of the items.
write_list(items) == <<Len(items)>> \o Concatenated(items)
Encoded(encode(_), list) == [i \in 1..Len(list) |-> encode(list[i])]

encode_objective(o) == write_fields(ObjectiveFields, o)
encode_contract(c) ==
    Concatenated(<<write_fields(ContractHead, c), write_list(Encoded(encode_objective, c.objectives)),
                   write_fields(ContractTail, c)>>)
encode_policy(p) == write_fields(PolicyFields, p)
encode_receipt(rc) == write_fields(ReceiptFields, rc)
encode_objstate(s) == write_fields(ObjectiveStateFields, s)
encode_eval(e) == write_fields(EvaluationFields, e)

serialize_state(st) ==
    <<PersistenceMagic, PersistenceVersion, st.epoch>>
    \o Concatenated(<<write_list(Encoded(encode_policy, st.policies)),
                      write_list(Encoded(encode_contract, st.contracts)),
                      write_list(Encoded(encode_objstate, st.objective_states)),
                      write_list(Encoded(encode_receipt, st.enforcement_history)),
                      write_list(Encoded(encode_eval, st.evaluation_history))>>)

----------------------------------------------------------------------------
(* Reading: a decoder is a function of the cells that are left.            *)

Passes(rest, v) == [ok |-> TRUE, rest |-> rest, rec |-> v]
Fails == [ok |-> FALSE, rest |-> <<>>, rec |-> <<>>]
Behind(cells, n) == SubSeq(cells, n + 1, Len(cells))

\* Only the variants that carry a double, a cost or an energy are checked.
valid_value(tag, n) ==
    CASE tag \in 0..3 -> TRUE
      [] tag = 4 -> n \in 0..100
      [] tag \in 5..11 -> n >= 0
      [] OTHER -> FALSE

read_value ==
    [cells \in Cells |->
        IF Len(cells) >= 2 /\ valid_value(cells[1], cells[2])
        THEN Passes(Behind(cells, 2), [tag |-> cells[1], n |-> cells[2]])
        ELSE Fails]

read_string ==
    [cells \in Cells |->
        IF Len(cells) >= 1 /\ cells[1] \in 0..MaxString /\ Len(cells) - 1 >= cells[1]
        THEN Passes(Behind(cells, 1 + cells[1]), SubSeq(cells, 2, 1 + cells[1]))
        ELSE Fails]

\* Any byte but 0 reads as true.
read_optional(read) ==
    [cells \in Cells |->
        IF Len(cells) = 0 THEN Fails
        ELSE IF cells[1] = 0 THEN Passes(Behind(cells, 1), <<>>)
        ELSE LET r == read[Behind(cells, 1)] IN IF r.ok THEN Passes(r.rest, <<r.rec>>) ELSE Fails]

read_num(set) ==
    [cells \in Cells |->
        IF Len(cells) >= 1 /\ cells[1] \in set THEN Passes(Behind(cells, 1), cells[1]) ELSE Fails]

read_field(type) ==
    CASE type[1] = "num" -> read_num(type[2])
      [] type[1] = "str" -> read_string
      [] type[1] = "value" -> read_value
      [] type[1] = "optional value" -> read_optional(read_value)
      [] type[1] = "optional number" -> read_optional(read_num(Int))

\* One item more: its value behind those read before it.
read_next(decoder, cur) ==
    LET r == decoder[cur.rest]
    IN  IF cur.ok /\ r.ok THEN Passes(r.rest, Append(cur.rec, r.rec)) ELSE Fails

\* One item for each decoder; rec is the sequence of their values.
read_items(decoders, cells) ==
    LET after[n \in 0..Len(decoders)] ==
            IF n = 0 THEN Passes(cells, <<>>) ELSE read_next(decoders[n], after[n - 1])
    IN  after[Len(decoders)]

Names(schema) == {schema[i][1] : i \in 1..Len(schema)}

by_name(schema, values) ==
    [name \in Names(schema) |-> values[CHOOSE i \in 1..Len(schema) : schema[i][1] = name]]

read_record(schema) ==
    [cells \in Cells |->
        LET c == read_items([i \in 1..Len(schema) |-> read_field(schema[i][2])], cells)
        IN  IF c.ok THEN Passes(c.rest, by_name(schema, c.rec)) ELSE Fails]

read_list(decoder) ==
    [cells \in Cells |->
        LET count == read_num(0..MaxCollectionItems)[cells]
        IN  IF count.ok THEN read_items([i \in 1..count.rec |-> decoder], count.rest) ELSE Fails]

\* The unit a value carries, by its tag.
unit_kind_of(v) ==
    <<"Nanoseconds", "Bytes", "Count", "BasisPoints", "Percent", "PressureRatio",
      "RequestsPerSecond", "TokensPerSecond", "BytesPerSecond", "OperationsPerSecond",
      "CurrencyMicros", "EnergyJoules">>[v.tag + 1]

expected_unit_for(dim) ==
    <<"Nanoseconds", "BasisPoints", "RequestsPerSecond", "Nanoseconds", "PressureRatio",
      "CurrencyMicros">>[dim + 1]

Throughput == 2

target_unit_matches_dimension(o) ==
    unit_kind_of(o.target) =
        IF o.dim # Throughput THEN expected_unit_for(o.dim)
        ELSE <<"RequestsPerSecond", "TokensPerSecond", "BytesPerSecond",
               "OperationsPerSecond">>[o.rate_tag + 1]

decode_objective ==
    [cells \in Cells |->
        LET c == read_record(ObjectiveFields)[cells]
        IN  IF c.ok /\ target_unit_matches_dimension(c.rec) THEN c ELSE Fails]

ContractNames == Names(ContractHead) \cup {"objectives"} \cup Names(ContractTail)

\* A contract from the part before its objectives, these, and the part behind them.
contract_of(parts) ==
    [name \in ContractNames |->
        CASE name \in Names(ContractHead) -> parts[1][name]
          [] name = "objectives" -> parts[2]
          [] OTHER -> parts[3][name]]

decode_contract ==
    [cells \in Cells |->
        LET c == read_items(<<read_record(ContractHead), read_list(decode_objective),
                              read_record(ContractTail)>>, cells)
        IN  IF c.ok THEN Passes(c.rest, contract_of(c.rec)) ELSE Fails]

decode_policy == read_record(PolicyFields)
decode_receipt == read_record(ReceiptFields)
decode_objstate == read_record(ObjectiveStateFields)
decode_eval == read_record(EvaluationFields)

\* Mutant: cells behind the last list are ignored.
exhausted_always(c) == TRUE

exhausted(c) == c.rest = <<>>

deserialize_state(cells) ==
    LET c == read_items(<<read_list(decode_policy), read_list(decode_contract),
                          read_list(decode_objstate), read_list(decode_receipt),
                          read_list(decode_eval)>>, Behind(cells, 3))
    IN  IF /\ Len(cells) >= 3 /\ cells[1] = PersistenceMagic /\ cells[2] = PersistenceVersion
           /\ c.ok /\ exhausted(c)
        THEN Passes(c.rest, [epoch |-> cells[3], policies |-> c.rec[1], contracts |-> c.rec[2],
                             objective_states |-> c.rec[3], enforcement_history |-> c.rec[4],
                             evaluation_history |-> c.rec[5]])
        ELSE Fails

----------------------------------------------------------------------------
(* The states that can be written, and those among them that can be read.  *)

IsValue(type, v) ==
    CASE type[1] = "num" -> v \in Int
      [] type[1] = "str" -> v \in Cells
      [] type[1] = "value" -> v \in [tag : Int, n : Int]
      [] type[1] = "optional value" -> v \in Seq([tag : Int, n : Int]) /\ Len(v) <= 1
      [] type[1] = "optional number" -> v \in Cells /\ Len(v) <= 1

Fits(type, v) ==
    CASE type[1] = "num" -> v \in type[2]
      [] type[1] = "str" -> Len(v) <= MaxString
      [] type[1] = "value" -> valid_value(v.tag, v.n)
      [] type[1] = "optional value" -> v # <<>> => valid_value(v[1].tag, v[1].n)
      [] type[1] = "optional number" -> TRUE

FieldsAre(schema, r) == \A i \in 1..Len(schema) : IsValue(schema[i][2], r[schema[i][1]])
FieldsFit(schema, r) == \A i \in 1..Len(schema) : Fits(schema[i][2], r[schema[i][1]])

IsRecord(schema, r) == r = [name \in Names(schema) |-> r[name]] /\ FieldsAre(schema, r)

IsSeq(list) == list \in Seq({list[i] : i \in DOMAIN list})
IsListOf(schema, list) == IsSeq(list) /\ \A i \in 1..Len(list) : IsRecord(schema, list[i])
ListFits(schema, list) ==
    Len(list) <= MaxCollectionItems /\ \A i \in 1..Len(list) : FieldsFit(schema, list[i])

IsContract(c) ==
    /\ c = [name \in ContractNames |-> c[name]]
    /\ FieldsAre(ContractHead, c) /\ FieldsAre(ContractTail, c)
    /\ IsListOf(ObjectiveFields, c.objectives)
ContractFits(c) ==
    /\ FieldsFit(ContractHead, c) /\ FieldsFit(ContractTail, c)
    /\ ListFits(ObjectiveFields, c.objectives)
    /\ \A i \in 1..Len(c.objectives) : target_unit_matches_dimension(c.objectives[i])

IsState(st) ==
    /\ st = [epoch |-> st.epoch, policies |-> st.policies, contracts |-> st.contracts,
             objective_states |-> st.objective_states,
             enforcement_history |-> st.enforcement_history,
             evaluation_history |-> st.evaluation_history]
    /\ st.epoch \in Int
    /\ IsListOf(PolicyFields, st.policies) /\ IsListOf(ObjectiveStateFields, st.objective_states)
    /\ IsListOf(ReceiptFields, st.enforcement_history)
    /\ IsListOf(EvaluationFields, st.evaluation_history)
    /\ IsSeq(st.contracts) /\ \A i \in 1..Len(st.contracts) : IsContract(st.contracts[i])
StateFits(st) ==
    /\ ListFits(PolicyFields, st.policies) /\ ListFits(ObjectiveStateFields, st.objective_states)
    /\ ListFits(ReceiptFields, st.enforcement_history)
    /\ ListFits(EvaluationFields, st.evaluation_history)
    /\ Len(st.contracts) <= MaxCollectionItems
    /\ \A i \in 1..Len(st.contracts) : ContractFits(st.contracts[i])
=============================================================================
