---------------------------- MODULE BreakingRules ----------------------------
(* rules/breaking.py: the rule a change breaks, and how severe the rule is.  *)
(* The engine tells several rules apart by words of the differ's messages;   *)
(* a change's `note` stands for those words.                                 *)
EXTENDS Schema

-----------------------------------------------------------------------------
(* The catalogue, section by section: the rules of each severity.            *)

StreamAndRpcCatalog ==
  [ERROR |-> {"BRK-OP-REMOVED", "BRK-STREAM-SEQUENTIAL-CHANGED", "BRK-STREAM-ITEM-SCHEMA-REMOVED",
              "BRK-STREAM-ENCODING-CHANGED", "BRK-STREAM-PREFIX-COUNT-CHANGED",
              "BRK-RPC-STREAMING-CHANGED", "BRK-FIELD-NUMBER-REUSED", "BRK-FIELD-PRESENCE-LOST",
              "BRK-ONEOF-NARROWED", "BRK-RPC-REMOVED"},
   WARN |-> {"BRK-FIELD-NUMBER-UNRESERVED", "BRK-RESERVATION-REMOVED"},
   INFO |-> {"BRK-STREAM-ITEM-SCHEMA-ADDED", "BRK-ONEOF-WIDENED", "BRK-OP-ADDED", "BRK-RPC-ADDED"}]

ParameterCatalog ==
  [ERROR |-> {"BRK-PARAM-REMOVED", "BRK-PARAM-ADDED-REQUIRED", "BRK-PARAM-REQUIRED",
              "BRK-PARAM-TYPE-CHANGED", "BRK-CONSTRAINT-TIGHTENED", "BRK-ENUM-NARROWED-REQUEST",
              "BRK-REQ-NULLABLE-REMOVED"},
   WARN |-> {"BRK-RESP-TYPE-CHANGED", "BRK-RESP-CONSTRAINT-TIGHTENED", "BRK-ENUM-NARROWED-RESPONSE",
             "BRK-RESP-NULLABLE-ADDED", "BRK-RESP-CONSTRAINT-LOOSENED"},
   INFO |-> {"BRK-PARAM-ADDED-OPTIONAL", "BRK-PARAM-OPTIONALIZED", "BRK-CONSTRAINT-LOOSENED",
             "BRK-ENUM-WIDENED", "BRK-RESP-NULLABLE-REMOVED", "BRK-REQ-NULLABLE-ADDED"}]

FieldCatalog ==
  [ERROR |-> {"BRK-REQ-FIELD-REMOVED", "BRK-RESP-FIELD-OPTIONALIZED", "BRK-REQ-FIELD-ADDED-REQUIRED",
              "BRK-REQ-FIELD-BECAME-REQUIRED", "BRK-RESP-FIELD-REMOVED", "BRK-REQ-BODY-REMOVED",
              "BRK-REQ-BODY-ADDED-REQUIRED", "BRK-REQ-BODY-REQUIRED", "BRK-RESP-STATUS-REMOVED",
              "BRK-SECURITY-CHANGED"},
   WARN |-> {"BRK-HEADER-REMOVED", "BRK-DEPRECATION-ADDED"},
   INFO |-> {"BRK-REQ-FIELD-OPTIONALIZED", "BRK-REQ-FIELD-ADDED-OPTIONAL", "BRK-RESP-FIELD-ADDED",
             "BRK-REQ-BODY-ADDED-OPTIONAL", "BRK-RESP-STATUS-ADDED", "BRK-HEADER-ADDED",
             "BRK-DEPRECATION-REMOVED"}]

KeywordCatalog ==
  [ERROR |-> {"BRK-DEPENDENT-REQUIRED-ADDED", "BRK-TUPLE-SHAPE-CHANGED", "BRK-MEDIA-TYPE-CHANGED"},
   WARN |-> {"BRK-DEPENDENT-REQUIRED-REMOVED", "BRK-DEPENDENT-SCHEMA-CHANGED",
             "BRK-PATTERN-PROPERTIES-CHANGED", "BRK-PROPERTY-NAMES-CHANGED", "BRK-CONTAINS-CHANGED",
             "BRK-CONDITIONAL-SCHEMA-CHANGED"},
   INFO |-> {}]

ToolCatalog ==
  [ERROR |-> {"BRK-MCP-OUTPUT-SCHEMA-REMOVED", "BRK-MCP-MANIFEST-TRUNCATED",
              "BRK-SOAP-ACTION-CHANGED", "BRK-SOAP-STYLE-CHANGED", "BRK-SOAP-VERSION-CHANGED"},
   WARN |-> {"BRK-MCP-TOOL-DESCRIPTION-CHANGED", "BRK-MCP-OUTPUT-SCHEMA-ADDED",
             "BRK-MCP-READONLY-HINT-SET", "BRK-MCP-READONLY-HINT-CLEARED",
             "BRK-MCP-DESTRUCTIVE-HINT-SET", "BRK-MCP-DESTRUCTIVE-HINT-CLEARED",
             "BRK-MCP-IDEMPOTENT-HINT-SET", "BRK-MCP-IDEMPOTENT-HINT-CLEARED"},
   INFO |-> {"BRK-MCP-OPENWORLD-HINT-CHANGED", "BRK-MCP-ANNOTATION-DECLARATION-CHANGED",
             "BRK-MCP-TOOL-RENAME-SUSPECTED", "BRK-RESP-FIELD-GUARANTEED"}]

Severities == {"INFO", "WARN", "ERROR"}

Catalog == [s \in Severities |-> StreamAndRpcCatalog[s] \cup ParameterCatalog[s]
                                 \cup FieldCatalog[s] \cup KeywordCatalog[s] \cup ToolCatalog[s]]

Rules == UNION { Catalog[s] : s \in Severities }

\* A project may override the severity of any rule.
SeverityFor(rule, overrides) ==
  IF rule \in DOMAIN overrides THEN overrides[rule]
  ELSE CHOOSE s \in Severities : rule \in Catalog[s]

-----------------------------------------------------------------------------
(* From a change to the rule it breaks: a set with at most one rule.         *)

ByDirection(c, request, response) == {IF c.dir = "request" THEN request ELSE response}

IsBodyField(c) == c.note \in {"field removed", "field added", "field added (required)",
                              "field became required", "field became optional"}

\* Kinds that break one rule, whatever the change says.
SimpleRule ==
  [OPERATION_REMOVED |-> "BRK-OP-REMOVED", RPC_REMOVED |-> "BRK-RPC-REMOVED",
   OPERATION_ADDED |-> "BRK-OP-ADDED", RPC_ADDED |-> "BRK-RPC-ADDED",
   TOOL_DESCRIPTION_CHANGED |-> "BRK-MCP-TOOL-DESCRIPTION-CHANGED",
   TOOL_RENAME_SUSPECTED |-> "BRK-MCP-TOOL-RENAME-SUSPECTED",
   MANIFEST_TRUNCATED |-> "BRK-MCP-MANIFEST-TRUNCATED",
   SOAP_ACTION_CHANGED |-> "BRK-SOAP-ACTION-CHANGED",
   SOAP_STYLE_CHANGED |-> "BRK-SOAP-STYLE-CHANGED",
   SOAP_VERSION_CHANGED |-> "BRK-SOAP-VERSION-CHANGED",
   RPC_STREAMING_CHANGED |-> "BRK-RPC-STREAMING-CHANGED",
   FIELD_NUMBER_REUSED |-> "BRK-FIELD-NUMBER-REUSED",
   FIELD_PRESENCE_CHANGED |-> "BRK-FIELD-PRESENCE-LOST",
   RESERVATION_CHANGED |-> "BRK-RESERVATION-REMOVED",
   DEPENDENT_SCHEMA_CHANGED |-> "BRK-DEPENDENT-SCHEMA-CHANGED",
   TUPLE_SHAPE_CHANGED |-> "BRK-TUPLE-SHAPE-CHANGED",
   PATTERN_PROPERTIES_CHANGED |-> "BRK-PATTERN-PROPERTIES-CHANGED",
   PROPERTY_NAMES_CHANGED |-> "BRK-PROPERTY-NAMES-CHANGED",
   CONTAINS_CHANGED |-> "BRK-CONTAINS-CHANGED",
   CONDITIONAL_SCHEMA_CHANGED |-> "BRK-CONDITIONAL-SCHEMA-CHANGED",
   RESPONSE_REMOVED |-> "BRK-RESP-STATUS-REMOVED", RESPONSE_ADDED |-> "BRK-RESP-STATUS-ADDED",
   HEADER_REMOVED |-> "BRK-HEADER-REMOVED", HEADER_ADDED |-> "BRK-HEADER-ADDED",
   SECURITY_CHANGED |-> "BRK-SECURITY-CHANGED",
   DEPRECATION_ADDED |-> "BRK-DEPRECATION-ADDED", DEPRECATION_REMOVED |-> "BRK-DEPRECATION-REMOVED"]

\* The message of a stream change names the rule; an unknown one is an encoding change.
StreamRule(c) ==
  CASE c.note = "changed from document to sequence" -> "BRK-STREAM-SEQUENTIAL-CHANGED"
    [] c.note = "no longer declares itemSchema" -> "BRK-STREAM-ITEM-SCHEMA-REMOVED"
    [] c.note = "now declares itemSchema" -> "BRK-STREAM-ITEM-SCHEMA-ADDED"
    [] c.note = "leading parts" -> "BRK-STREAM-PREFIX-COUNT-CHANGED"
    [] OTHER -> "BRK-STREAM-ENCODING-CHANGED"

\* An annotation becomes true, stops being true, or moves between false and undeclared.
AnnotationRule(c) ==
  LET hint == c.delta.hint[1]
      before == c.delta.hint[2]
      after == c.delta.hint[3]
      transition == IF after = "true" THEN "set" ELSE "cleared"
      named == [readOnlyHint |-> [set |-> "BRK-MCP-READONLY-HINT-SET",
                                  cleared |-> "BRK-MCP-READONLY-HINT-CLEARED"],
                destructiveHint |-> [set |-> "BRK-MCP-DESTRUCTIVE-HINT-SET",
                                     cleared |-> "BRK-MCP-DESTRUCTIVE-HINT-CLEARED"],
                idempotentHint |-> [set |-> "BRK-MCP-IDEMPOTENT-HINT-SET",
                                    cleared |-> "BRK-MCP-IDEMPOTENT-HINT-CLEARED"],
                openWorldHint |-> [set |-> "BRK-MCP-OPENWORLD-HINT-CHANGED",
                                   cleared |-> "BRK-MCP-OPENWORLD-HINT-CHANGED"]]
  IN IF (before = "true") # (after = "true") THEN named[hint][transition]
     ELSE "BRK-MCP-ANNOTATION-DECLARATION-CHANGED"

\* Mutant: a field that becomes required is taken for an optional parameter.
FieldRules_Lenient(c) ==
  IF c.kind = "PARAMETER_REQUIREDNESS" THEN {"BRK-PARAM-OPTIONALIZED"}
  ELSE {IF c.kind = "PARAMETER_REMOVED" THEN "BRK-PARAM-REMOVED" ELSE "BRK-PARAM-ADDED-REQUIRED"}

\* Fields of a body and parameters share their kinds.
FieldRules(c) ==
  CASE c.kind = "PARAMETER_REMOVED" ->
         {IF IsBodyField(c) THEN "BRK-REQ-FIELD-REMOVED" ELSE "BRK-PARAM-REMOVED"}
    [] c.kind = "PARAMETER_ADDED" ->
         {CASE c.note = "field added (required)" -> "BRK-REQ-FIELD-ADDED-REQUIRED"
            [] c.note = "field added" -> "BRK-REQ-FIELD-ADDED-OPTIONAL"
            [] c.note = "parameter added (required)" -> "BRK-PARAM-ADDED-REQUIRED"
            [] OTHER -> "BRK-PARAM-ADDED-OPTIONAL"}
    [] c.kind = "PARAMETER_REQUIREDNESS" /\ ~IsBodyField(c) ->
         {IF c.delta.flag THEN "BRK-PARAM-REQUIRED" ELSE "BRK-PARAM-OPTIONALIZED"}
    [] c.kind = "PARAMETER_REQUIREDNESS" /\ IsBodyField(c) /\ c.delta.flag ->
         ByDirection(c, "BRK-REQ-FIELD-BECAME-REQUIRED", "BRK-RESP-FIELD-GUARANTEED")
    [] OTHER -> ByDirection(c, "BRK-REQ-FIELD-OPTIONALIZED", "BRK-RESP-FIELD-OPTIONALIZED")

TightenOnIncrease == {"minimum", "exclusive_minimum", "min_length", "min_items",
                      "min_properties", "multiple_of"}

\* Does the constraint accept less than it did?
IsTightening(c) ==
  CASE c.note = "const" -> c.delta.present
    [] c.note = "unique_items" -> c.delta.flag
    [] OTHER -> LET old == c.delta.bound[1]
                    new == c.delta.bound[2]
                IN IF old = None THEN TRUE
                   ELSE IF new = None THEN FALSE
                   ELSE IF c.note \in TightenOnIncrease THEN new > old ELSE new < old

ConstraintRules(c) ==
  IF c.note = "format changed"
  THEN ByDirection(c, "BRK-PARAM-TYPE-CHANGED", "BRK-RESP-TYPE-CHANGED")
  ELSE IF c.note = "pattern" \/ IsTightening(c)
  THEN ByDirection(c, "BRK-CONSTRAINT-TIGHTENED", "BRK-RESP-CONSTRAINT-TIGHTENED")
  ELSE ByDirection(c, "BRK-CONSTRAINT-LOOSENED", "BRK-RESP-CONSTRAINT-LOOSENED")

\* Values that went decide, then values that came; no list is the empty list.
EnumRules(c) ==
  LET listed(i) == IF c.delta.values[i] = None THEN {} ELSE c.delta.values[i]
  IN IF listed(1) \ listed(2) # {}
     THEN ByDirection(c, "BRK-ENUM-NARROWED-REQUEST", "BRK-ENUM-NARROWED-RESPONSE")
     ELSE IF listed(2) \ listed(1) # {} THEN {"BRK-ENUM-WIDENED"} ELSE {}

\* Gaining a dependency tightens a request, losing one relaxes a response.
DependentRules(c) ==
  IF c.delta.gained
  THEN ByDirection(c, "BRK-DEPENDENT-REQUIRED-ADDED", "BRK-DEPENDENT-REQUIRED-REMOVED")
  ELSE ByDirection(c, "BRK-DEPENDENT-REQUIRED-REMOVED", "BRK-DEPENDENT-REQUIRED-ADDED")

\* What the rest of a request or response change's message decides.  Nothing in
\* the message of a body that was added says that it is required.
SchemaTextRules(c) ==
  IF c.note = "field removed without reserving its number" THEN {"BRK-FIELD-NUMBER-UNRESERVED"}
  ELSE IF c.kind = "REQUEST_SCHEMA_CHANGED"
  THEN CASE c.note \in {"request body removed", "request media type removed"} -> {"BRK-REQ-BODY-REMOVED"}
         [] c.note = "request body became required" -> {"BRK-REQ-BODY-REQUIRED"}
         [] c.note \in {"request body added", "request media type added"} -> {"BRK-REQ-BODY-ADDED-OPTIONAL"}
         [] OTHER -> {}
  ELSE CASE c.note = "field removed" -> {"BRK-RESP-FIELD-REMOVED"}
         [] c.note \in {"field added", "field added (required)"} -> {"BRK-RESP-FIELD-ADDED"}
         [] c.note = "response media type" -> {"BRK-MEDIA-TYPE-CHANGED"}
         [] OTHER -> {"BRK-RESP-TYPE-CHANGED"}

RulesOf(c) ==
  CASE c.kind \in DOMAIN SimpleRule -> {SimpleRule[c.kind]}
    [] c.kind = "STREAM_SHAPE_CHANGED" -> {StreamRule(c)}
    [] c.kind = "TOOL_ANNOTATION_CHANGED" -> {AnnotationRule(c)}
    [] c.kind = "TOOL_OUTPUT_SCHEMA_CHANGED" ->
         {IF c.delta.flag THEN "BRK-MCP-OUTPUT-SCHEMA-ADDED" ELSE "BRK-MCP-OUTPUT-SCHEMA-REMOVED"}
    [] c.kind = "ONEOF_MEMBERSHIP_CHANGED" ->
         {IF c.note = "moved into" THEN "BRK-ONEOF-NARROWED" ELSE "BRK-ONEOF-WIDENED"}
    [] c.kind \in {"PARAMETER_REMOVED", "PARAMETER_ADDED", "PARAMETER_REQUIREDNESS"} -> FieldRules(c)
    [] c.kind = "PARAMETER_TYPE_CHANGED" ->
         ByDirection(c, "BRK-PARAM-TYPE-CHANGED", "BRK-RESP-TYPE-CHANGED")
    [] c.kind = "PARAMETER_CONSTRAINT_CHANGED" -> ConstraintRules(c)
    [] c.kind = "NULLABILITY_CHANGED" ->
         IF c.delta.flag THEN ByDirection(c, "BRK-REQ-NULLABLE-ADDED", "BRK-RESP-NULLABLE-ADDED")
         ELSE ByDirection(c, "BRK-REQ-NULLABLE-REMOVED", "BRK-RESP-NULLABLE-REMOVED")
    [] c.kind = "ENUM_CHANGED" -> EnumRules(c)
    [] c.kind = "DEPENDENT_REQUIRED_CHANGED" -> DependentRules(c)
    [] c.kind \in {"REQUEST_SCHEMA_CHANGED", "RESPONSE_SCHEMA_CHANGED"} -> SchemaTextRules(c)
    [] OTHER -> {}

\* The findings: each with its rule, its severity and its change.
Evaluate(changes, overrides) ==
  UNION { { [rule |-> r, severity |-> SeverityFor(r, overrides), change |-> c] :
              r \in RulesOf(c) } : c \in changes }
=============================================================================
