---------------------------- MODULE ContractDiff ----------------------------
(* DiffEngine.run and ._diff_operation (diff/engine.py): the changes between *)
(* two contracts.  A contract maps operation keys to operations.  A change   *)
(* of a contract is a schema change's record with the operation's key; its   *)
(* path starts with the place in the operation.                              *)
EXTENDS SchemaDiff

CONSTANT Sequential   \* the media types that carry a sequence of items

OpChange(key, kind, dir, at, note, delta) ==
  [op |-> key, kind |-> kind, dir |-> dir, at |-> at, note |-> note, delta |-> delta]

\* The changes of a schema that stands at `place` in an operation.
SchemaChangesAt(key, old, new, dir, place) ==
  { OpChange(key, c.kind, c.dir, <<place>> \o c.at, c.note, c.delta) :
      c \in SchemaChanges(old, new, dir) }

\* What the message says of a schema; two parameters that differ in it are not compared further.
Summary(s) ==
  IF s = None THEN <<"absent">>
  ELSE <<s[<<>>].type, s[<<>>].format, s[<<>>].enum, s[<<>>].const>>

ParameterChanges(o, n, key) ==
  LET was == DOMAIN o.params
      now == DOMAIN n.params
      both == was \cap now
      Param(x, kind, note, delta) == OpChange(key, kind, "request", <<<<"param", x>>>>, note, delta)
      retyped == { x \in both : Summary(o.params[x].schema) # Summary(n.params[x].schema) }
  IN { Param(x, "PARAMETER_REMOVED", "parameter removed", NoDelta) : x \in was \ now }
     \cup { Param(x, "PARAMETER_ADDED",
                  IF n.params[x].required THEN "parameter added (required)" ELSE "parameter added",
                  NoDelta) : x \in now \ was }
     \cup { Param(x, "PARAMETER_REQUIREDNESS", "parameter requiredness",
                  [flag |-> n.params[x].required]) :
              x \in { y \in both : o.params[y].required # n.params[y].required } }
     \cup { Param(x, "PARAMETER_TYPE_CHANGED", "parameter type", NoDelta) : x \in retyped }
     \cup UNION { SchemaChangesAt(key, o.params[x].schema, n.params[x].schema,
                                  "request", <<"param schema", x>>) :
                    x \in { y \in both \ retyped : None \notin { o.params[y].schema,
                                                                 n.params[y].schema } } }

SignatureChanges(o, n, key) ==
  When(o.kind = "grpc_rpc" /\ n.kind = "grpc_rpc" /\ o.streaming # n.streaming,
       OpChange(key, "RPC_STREAMING_CHANGED", "meta", <<>>, "streaming", NoDelta))

\* A stream is [item, encoding, prefix]; `os` and `ns` map media types to streams,
\* `oldMedia` and `newMedia` are the media types of the content.
StreamChanges(os, ns, oldMedia, newMedia, key, place, dir) ==
  LET Shape(at, note) == OpChange(key, "STREAM_SHAPE_CHANGED", dir, <<place>> \o at, note, NoDelta)
      both == DOMAIN os \cap DOMAIN ns
      allOld == oldMedia \cup DOMAIN os
      allNew == newMedia \cup DOMAIN ns
      sequential(media) == media \cap Sequential # {}
      recoded(m) == { x \in DOMAIN os[m].encoding \cap DOMAIN ns[m].encoding :
                        os[m].encoding[x] # ns[m].encoding[x] }
  IN (UNION { IF os[m].item # None /\ ns[m].item # None
             THEN SchemaChangesAt(key, os[m].item, ns[m].item, dir, <<"item", <<place, m>>>>)
             ELSE When(os[m].item # None, Shape(<<<<"item", m>>>>, "no longer declares itemSchema"))
                  \cup When(ns[m].item # None, Shape(<<<<"item", m>>>>, "now declares itemSchema")) : m \in both })
     \cup (UNION { { Shape(<<<<"item", m>>, <<"part", x>>>>, "encoding changed") : x \in recoded(m) } :
                    m \in both })
     \cup { Shape(<<<<"item", m>>>>, "leading parts") : m \in { x \in both : os[x].prefix # ns[x].prefix } }
     \cup When(allOld # {} /\ allNew # {} /\ sequential(allOld) # sequential(allNew),
               Shape(<<>>, "changed from document to sequence"))

\* A payload the application sends is read by others, as a response is.
PayloadDirection(op) == IF op.kind = "event" /\ op.sends THEN "response" ELSE "request"

\* Mutant: only the media types of both sides are walked.
BodyChanges_Common(o, n, key) ==
  IF None \in {o.body, n.body} THEN {}
  ELSE UNION { SchemaChangesAt(key, o.body.content[m], n.body.content[m], PayloadDirection(n),
                               <<"body schema", m>>) :
                 m \in DOMAIN o.body.content \cap DOMAIN n.body.content }

BodyChanges(o, n, key) ==
  LET Body(at, note) == OpChange(key, "REQUEST_SCHEMA_CHANGED", "request", at, note, NoDelta)
      dir == PayloadDirection(IF n.body # None THEN n ELSE o)
      was == DOMAIN o.body.content
      now == DOMAIN n.body.content
  IN IF o.body = None /\ n.body = None THEN {}
     ELSE IF n.body = None THEN { Body(<<>>, "request body removed") }
     ELSE IF o.body = None THEN { Body(<<>>, "request body added") }
     ELSE (UNION { SchemaChangesAt(key, o.body.content[m], n.body.content[m], dir, <<"body schema", m>>) :
                    m \in was \cap now })
          \cup { Body(<<<<"body", m>>>>, "request media type removed") : m \in was \ now }
          \cup { Body(<<<<"body", m>>>>, "request media type added") : m \in now \ was }
          \cup StreamChanges(o.body.streams, n.body.streams, was, now, key, <<"body", "">>, dir)
          \cup When(o.body.required # n.body.required,
                    Body(<<>>, IF n.body.required THEN "request body became required"
                               ELSE "request body became optional"))

ResponseChanges(o, n, key) ==
  LET Resp(at, kind, note) == OpChange(key, kind, "response", at, note, NoDelta)
      was == DOMAIN o.responses
      now == DOMAIN n.responses
      Inside(st) ==
        LET r == o.responses[st]
            q == n.responses[st]
            at(what, x) == <<<<"response", st>>, <<what, x>>>>
            media == DOMAIN r.content \cap DOMAIN q.content
        IN { Resp(at("header", h), "HEADER_REMOVED", "header") : h \in r.headers \ q.headers }
           \cup { Resp(at("header", h), "HEADER_ADDED", "header") : h \in q.headers \ r.headers }
           \cup (UNION { SchemaChangesAt(key, r.content[m], q.content[m], "response",
                                        <<"response schema", <<st, m>>>>) : m \in media })
           \cup { Resp(at("media", m), "RESPONSE_SCHEMA_CHANGED", "response media type") :
                    m \in (DOMAIN r.content \cup DOMAIN q.content) \ media }
           \cup StreamChanges(r.streams, q.streams, DOMAIN r.content, DOMAIN q.content,
                              key, <<"response", st>>, "response")
  IN { Resp(<<<<"response", st>>>>, "RESPONSE_REMOVED", "status") : st \in was \ now }
     \cup { Resp(<<<<"response", st>>>>, "RESPONSE_ADDED", "status") : st \in now \ was }
     \cup UNION { Inside(st) : st \in was \cap now }

\* The schemes an operation asks for; an operation that says nothing inherits the contract's.
SchemesOf(contract, op) == IF op.security = None THEN contract.security ELSE op.security

\* The SOAP facts no schema rule sees.
SoapChanges(o, n, key) ==
  IF ~(o.kind = "soap_operation" /\ n.kind = "soap_operation") THEN {}
  ELSE When(o.soap.action # n.soap.action,
            OpChange(key, "SOAP_ACTION_CHANGED", "meta", <<>>, "action", NoDelta))
       \cup When(o.soap.style # n.soap.style,
                 OpChange(key, "SOAP_STYLE_CHANGED", "request", <<>>, "style", NoDelta))
       \cup When(o.soap.version # n.soap.version,
                 OpChange(key, "SOAP_VERSION_CHANGED", "meta", <<>>, "version", NoDelta))

\* The annotations of an MCP tool ("true", "false" or "undeclared") and its output schema.
ToolChanges(o, n, key) ==
  IF ~(o.kind = "mcp_tool" /\ n.kind = "mcp_tool") THEN {}
  ELSE { OpChange(key, "TOOL_ANNOTATION_CHANGED", "meta", <<<<"hint", h>>>>, "annotation",
                  [hint |-> <<h, o.hints[h], n.hints[h]>>]) :
           h \in { x \in DOMAIN o.hints : o.hints[x] # n.hints[x] } }
       \cup When(o.declaresOutput # n.declaresOutput,
                 OpChange(key, "TOOL_OUTPUT_SCHEMA_CHANGED", "response", <<>>, "outputSchema",
                          [flag |-> n.declaresOutput]))

\* Deprecation, documentation and examples.
RemarkChanges(o, n, key) ==
  LET Meta(kind) == OpChange(key, kind, "meta", <<>>, "remark", NoDelta)
  IN When(~o.deprecated /\ n.deprecated, Meta("DEPRECATION_ADDED"))
     \cup When(o.deprecated /\ ~n.deprecated, Meta("DEPRECATION_REMOVED"))
     \cup When(o.doc # n.doc, Meta(IF o.kind = "mcp_tool" THEN "TOOL_DESCRIPTION_CHANGED"
                                   ELSE "DESCRIPTION_CHANGED"))
     \cup When(o.examples # n.examples, Meta("EXAMPLE_CHANGED"))

OperationChanges(before, after, key) ==
  LET o == before.ops[key]
      n == after.ops[key]
  IN ParameterChanges(o, n, key)
     \cup SignatureChanges(o, n, key)
     \cup BodyChanges(o, n, key)
     \cup ResponseChanges(o, n, key)
     \cup When(SchemesOf(before, o) # SchemesOf(after, n),
               OpChange(key, "SECURITY_CHANGED", "security", <<>>, "security", NoDelta))
     \cup RemarkChanges(o, n, key)
     \cup ToolChanges(o, n, key)
     \cup SoapChanges(o, n, key)

\* Truncated manifests, and the one tool out, one tool in that may be a rename.
ManifestChanges(before, after) ==
  LET Service(kind, x) == OpChange("(service)", kind, "meta", <<<<x, "">>>>, "manifest", NoDelta)
      tools(c, d) == { k \in DOMAIN c.ops : c.ops[k].kind = "mcp_tool" /\ k \notin DOMAIN d.ops }
      gone == tools(before, after)
      fresh == tools(after, before)
      shape(op) == <<op.body, op.responses>>
      renamed == { k \in gone : \A j \in fresh : shape(before.ops[k]) = shape(after.ops[j]) }
  IN IF "mcp" \notin { before.protocol, after.protocol } THEN {}
     ELSE When(before.truncated, Service("MANIFEST_TRUNCATED", "old"))
          \cup When(after.truncated, Service("MANIFEST_TRUNCATED", "new"))
          \cup (IF Cardinality(gone) = 1 /\ Cardinality(fresh) = 1
                THEN { OpChange(k, "TOOL_RENAME_SUSPECTED", "meta", <<>>, "rename", NoDelta) :
                         k \in renamed }
                ELSE {})

ContractChanges(before, after) ==
  LET was == DOMAIN before.ops
      now == DOMAIN after.ops
      Op(k, kind) == OpChange(k, kind, "meta", <<>>, "operation", NoDelta)
      rpc(op) == op.kind # "http"
      Service(kind) == OpChange("(service)", kind, "meta", <<>>, "service", NoDelta)
  IN { Op(k, IF rpc(before.ops[k]) THEN "RPC_REMOVED" ELSE "OPERATION_REMOVED") : k \in was \ now }
     \cup { Op(k, IF rpc(after.ops[k]) THEN "RPC_ADDED" ELSE "OPERATION_ADDED") : k \in now \ was }
     \cup (UNION { OperationChanges(before, after, k) : k \in was \cap now })
     \cup ManifestChanges(before, after)
     \cup When(before.version # after.version, Service("DESCRIPTION_CHANGED"))
     \cup When(before.servers # after.servers, Service("SERVER_CHANGED"))
=============================================================================
