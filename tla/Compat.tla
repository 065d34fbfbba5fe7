-------------------------------- MODULE Compat --------------------------------
(* diff/compat.py and diff/protocol_compat.py: the findings `breaking` adds   *)
(* after looking at two whole contracts, and diff/sdk_surface.py: what moves  *)
(* the surface of a generated client.  `about` is what a finding is about     *)
(* inside its operation.                                                      *)
EXTENDS ContractDiff

CONSTANT LocalServers   \* the servers on a host of this machine

Finding(rule, severity, op, about) ==
  [rule |-> rule, severity |-> severity, op |-> op, about |-> about]

Success == {"200", "201", "204", "default"}

Both(old, new) == DOMAIN old.ops \cap DOMAIN new.ops

MediaTypes(op) ==
  (IF op.body = None THEN {} ELSE DOMAIN op.body.content)
  \cup UNION { DOMAIN op.responses[st].content : st \in DOMAIN op.responses }

StatusFindings(o, n, key) ==
  LET was == DOMAIN o.responses
      now == DOMAIN n.responses
  IN { Finding("COMPAT-STATUS-REMOVED",
               IF st \in Success \ {"default"} THEN "WARN" ELSE "INFO", key, st) : st \in was \ now }
     \cup { Finding("COMPAT-STATUS-ADDED", "INFO", key, st) : st \in now \ was }

MediaFindings(o, n, key) ==
  { Finding("COMPAT-MEDIA-REMOVED", "WARN", key, m) : m \in MediaTypes(o) \ MediaTypes(n) }
  \cup { Finding("COMPAT-MEDIA-ADDED", "INFO", key, m) : m \in MediaTypes(n) \ MediaTypes(o) }

RequestHeaders(op) == { x[1] : x \in { y \in DOMAIN op.params : y[2] = "header" } }
ResponseHeaders(op) == UNION { op.responses[st].headers : st \in DOMAIN op.responses }

\* A header is gone when it is neither sent nor answered any more.
HeaderFindings(o, n, key) ==
  LET gone == (RequestHeaders(o) \cup ResponseHeaders(o)) \ (RequestHeaders(n) \cup ResponseHeaders(n))
      asked(op, x) == <<x, "header">> \in DOMAIN op.params /\ op.params[<<x, "header">>].required
  IN { Finding("COMPAT-HEADER-REMOVED", IF h \in RequestHeaders(o) THEN "ERROR" ELSE "INFO", key, h) :
         h \in gone }
     \cup { Finding("COMPAT-HEADER-REQUIRED", "ERROR", key, h) :
              h \in { x \in RequestHeaders(n) : asked(n, x) /\ ~asked(o, x) } }

SchemeFindings(old, new) ==
  LET was == DOMAIN old.schemes
      now == DOMAIN new.schemes
  IN { Finding("COMPAT-SECURITY-SCHEME-REMOVED", "ERROR", None, x) : x \in was \ now }
     \cup { Finding("COMPAT-SECURITY-TYPE-CHANGED", "ERROR", None, x) :
              x \in { y \in was \cap now : old.schemes[y] # new.schemes[y] } }

ServerFindings(old, new) ==
  LET urls(c) == { c.servers[i] : i \in DOMAIN c.servers }
  IN { Finding("COMPAT-SERVER-ADDED", "INFO", None, u) : u \in urls(new) \ urls(old) }
     \cup { Finding("COMPAT-SERVER-REMOVED", IF u \in LocalServers THEN "WARN" ELSE "INFO", None, u) :
              u \in urls(old) \ urls(new) }

\* Idempotency is declared, denied, or None; pagination is opaque.
MetadataFindings(o, n, key) ==
  When(o.idempotent = TRUE /\ n.idempotent = FALSE,
       Finding("COMPAT-IDEMPOTENCY-REVOKED", "WARN", key, None))
  \cup When(o.pagination # n.pagination /\ n.pagination # None,
            Finding("COMPAT-PAGINATION-CHANGED", "WARN", key, None))

CompatFindings(old, new) ==
  SchemeFindings(old, new) \cup ServerFindings(old, new)
  \cup UNION { StatusFindings(old.ops[k], new.ops[k], k) \cup MediaFindings(old.ops[k], new.ops[k], k)
               \cup HeaderFindings(old.ops[k], new.ops[k], k)
               \cup MetadataFindings(old.ops[k], new.ops[k], k) : k \in Both(old, new) }

-----------------------------------------------------------------------------
(* GraphQL and gRPC. *)

\* The schema of the answer, or of the body, in the protocol's own media type.
AnswerIn(op, media) ==
  LET having == { st \in DOMAIN op.responses : media \in DOMAIN op.responses[st].content }
  IN IF having = {} THEN None ELSE op.responses[CHOOSE st \in having : TRUE].content[media]

BodyIn(op, media) ==
  IF op.body = None \/ media \notin DOMAIN op.body.content THEN None ELSE op.body.content[media]

\* Both are titled, and not alike.
Retitled(o, n) == o # None /\ n # None /\ None \notin {o[<<>>].title, n[<<>>].title}
                  /\ o[<<>>].title # n[<<>>].title

ArgumentFindings(o, n, key) ==
  LET was == DOMAIN o.params
      now == DOMAIN n.params
      Arg(x, rule, severity) == Finding(rule, severity, key, x)
  IN { Arg(x, "GQL-ARGUMENT-REMOVED", "ERROR") : x \in was \ now }
     \cup { IF n.params[x].required THEN Arg(x, "GQL-REQUIRED-ARGUMENT-ADDED", "ERROR")
            ELSE Arg(x, "GQL-DANGEROUS-OPTIONAL-ARGUMENT-ADDED", "WARN") : x \in now \ was }
     \cup { IF n.params[x].required THEN Arg(x, "GQL-ARGUMENT-NULLABILITY-TIGHTENED", "ERROR")
            ELSE Arg(x, "GQL-DANGEROUS-ARGUMENT-RELAXED", "WARN") :
              x \in { y \in was \cap now : o.params[y].required # n.params[y].required } }

ReturnFindings(o, n, key) ==
  LET was == AnswerIn(o, "application/graphql")
      now == AnswerIn(n, "application/graphql")
  IN IF None \in {was, now} THEN {}
     ELSE When(Retitled(was, now), Finding("GQL-RETURN-TYPE-CHANGED", "ERROR", key, None))
          \cup When(~was[<<>>].nullable /\ now[<<>>].nullable,
                    Finding("GQL-DANGEROUS-RETURN-RELAXED", "WARN", key, None))
          \cup When(was[<<>>].nullable /\ ~now[<<>>].nullable,
                    Finding("GQL-RETURN-NONNULL-TIGHTENED", "ERROR", key, None))

GraphqlFindings(old, new) ==
  { Finding("GQL-FIELD-REMOVED", "ERROR", k, None) : k \in DOMAIN old.ops \ DOMAIN new.ops }
  \cup { Finding("GQL-DANGEROUS-FIELD-ADDED", "WARN", k, None) : k \in DOMAIN new.ops \ DOMAIN old.ops }
  \cup UNION { ArgumentFindings(old.ops[k], new.ops[k], k)
               \cup ReturnFindings(old.ops[k], new.ops[k], k) : k \in Both(old, new) }

\* The fields of a request message that kept their name.
WireFindings(o, n, key) ==
  LET was == Names(o, <<>>, "properties")
      now == Names(n, <<>>, "properties")
      before(x) == o[<<<<"properties", x>>>>]
      after(x) == n[<<<<"properties", x>>>>]
      both(attr) == { x \in was \cap now : None \notin {before(x)[attr], after(x)[attr]} }
  IN { Finding("PROTO-WIRE-TYPE-CHANGED", "ERROR", key, x) :
         x \in { y \in both("type") : before(y).type # after(y).type } }
     \cup { Finding("PROTO-WIRE-WIDTH-CHANGED", "WARN", key, x) :
              x \in { y \in both("format") : /\ before(y).type = "integer" /\ after(y).type = "integer"
                                             /\ before(y).format # after(y).format } }
     \cup { Finding("PROTO-ENUM-VALUE-REMOVED", "ERROR", key, x) :
              x \in { y \in both("enum") : /\ after(y).enum # {}
                                           /\ before(y).enum \ after(y).enum # {} } }
     \cup { Finding("PROTO-FIELD-REMOVED", "WARN", key, x) : x \in was \ now }

GrpcFindings(old, new) ==
  LET proto == "application/x-protobuf"
      Rpc(k) ==
        LET o == old.ops[k]
            n == new.ops[k]
            message == {<<"request", BodyIn(o, proto), BodyIn(n, proto)>>,
                        <<"response", AnswerIn(o, proto), AnswerIn(n, proto)>>}
        IN { Finding("PROTO-MESSAGE-TYPE-CHANGED", "ERROR", k, x[1]) :
               x \in { y \in message : Retitled(y[2], y[3]) } }
           \cup (IF None \in {BodyIn(o, proto), BodyIn(n, proto)} THEN {}
                 ELSE WireFindings(BodyIn(o, proto), BodyIn(n, proto), k))
  IN { Finding("PROTO-RPC-REMOVED", "ERROR", k, None) : k \in DOMAIN old.ops \ DOMAIN new.ops }
     \cup UNION { Rpc(k) : k \in Both(old, new) }

ProtocolFindings(old, new) ==
  CASE old.protocol = "graphql" /\ new.protocol = "graphql" -> GraphqlFindings(old, new)
    [] old.protocol = "grpc" /\ new.protocol = "grpc" -> GrpcFindings(old, new)
    [] OTHER -> {}

-----------------------------------------------------------------------------
(* The generated client: each rule rests on a convention of generators. *)

Conventions == {"operation-id-names", "tag-namespaces", "title-model-names", "closed-enums",
                "positional-parameters"}

OperationIdFindings(o, n, key) ==
  IF o.id = n.id THEN {}
  ELSE IF o.id = None THEN {Finding("SDK-OPERATION-ID-ADDED", "INFO", key, None)}
  ELSE {Finding(IF n.id = None THEN "SDK-OPERATION-ID-REMOVED" ELSE "SDK-OPERATION-ID-CHANGED",
                "WARN", key, None)}

TagOf(op) == IF op.tags = <<>> THEN None ELSE op.tags[1]

\* `order` is the declared order of the parameters; a reordering of the required ones.
OrderFindings(o, n, key) ==
  LET asked(op) == SelectSeq(op.order, LAMBDA x : op.params[x].required)
      named(op) == { asked(op)[i] : i \in DOMAIN asked(op) }
  IN When(asked(o) # asked(n) /\ named(o) = named(n) /\ Len(asked(o)) >= 2,
          Finding("SDK-PARAMETER-ORDER-CHANGED", "WARN", key, None))

\* The schemas of the successful answers that both sides have: properties and items, seven deep.
ModelFindings(o, n, key, conventions) ==
  LET walked(s) == { p \in DOMAIN s : /\ Len(p) <= 6
                                      /\ \A i \in 1 .. Len(p) : p[i][1] \in {"properties", "items"} }
      At(r, q, m) ==
        UNION { LET was == r.content[m][p]
                    now == q.content[m][p]
                IN When("title-model-names" \in conventions /\ None \notin {was.title, now.title}
                          /\ was.title # now.title,
                        Finding("SDK-MODEL-NAME-CHANGED", "INFO", key, p))
                   \cup When("closed-enums" \in conventions /\ was.enum \notin {None, {}}
                               /\ now.enum # None /\ now.enum \ was.enum # {},
                             Finding("SDK-ENUM-VALUE-ADDED", "WARN", key, p)) :
                p \in walked(r.content[m]) \cap walked(q.content[m]) }
      statuses == DOMAIN o.responses \cap DOMAIN n.responses \cap Success
  IN UNION { UNION { At(o.responses[st], n.responses[st], m) :
                       m \in DOMAIN o.responses[st].content \cap DOMAIN n.responses[st].content } :
               st \in statuses }

SdkFindings(old, new, conventions) ==
  UNION { (IF "operation-id-names" \in conventions
           THEN OperationIdFindings(old.ops[k], new.ops[k], k) ELSE {})
          \cup When("tag-namespaces" \in conventions /\ TagOf(old.ops[k]) # TagOf(new.ops[k]),
                    Finding("SDK-TAG-NAMESPACE-CHANGED", "WARN", k, None))
          \cup (IF "positional-parameters" \in conventions
                THEN OrderFindings(old.ops[k], new.ops[k], k) ELSE {})
          \cup ModelFindings(old.ops[k], new.ops[k], k, conventions) : k \in Both(old, new) }
=============================================================================
