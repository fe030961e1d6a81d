--------------------------- MODULE OpenApiDocument ---------------------------
(***************************************************************************)
(* OpenAPI documents: how one is split into the fragments a consumer gets, *)
(* how fragments are merged into a bundle, and when a document is a        *)
(* backward-compatible successor of another (openapi.rs).                  *)
(*                                                                         *)
(* A document is a record                                                  *)
(*   ops      endpoint <<path, method>> |-> operation                      *)
(*   shared   path |-> the parameters declared on the path item            *)
(*   schemas  name |-> schema, the components                              *)
(* An operation has its own parameters (by <<location, name>>), the        *)
(* schemas of its request body by media type, those of its responses by    *)
(* status (<<>> when a response has none, <<schema>> otherwise) and the    *)
(* deprecated flag.  A schema is inline, or [ref |-> the component named]. *)
(* Texts, formats, the components other than schemas and components that   *)
(* are themselves references are left out.                                 *)
(*                                                                         *)
(* A function of the code that calls itself is an operator for its body    *)
(* and a constant for what the calls return; RecursionAssumption says that *)
(* the two agree, on a set of documents and of all the schemas in them.    *)
(***************************************************************************)
EXTENDS Naturals, Sequences, FiniteSets

CONSTANTS
  Documents,                   \* the documents there are
  Depth,                       \* how far the reference definitions follow references
  SchemasOf(_),                \* the schemas of one, with all that is nested in them
  Refs(_),                     \* what CollectRefs returns
  SchemaCompatible(_, _, _, _) \* what CheckSchema answers

CONSTANTS                      \* the reference definitions, at the end:
  Built(_, _, _), Accepts(_, _, _), Reads(_, _, _, _), Expanded(_, _, _)

\* An inline schema.  "unknown" is a composition or an untyped schema; an enum
\* of {} is no restriction; items is <<>> or <<schema>>.
Scalar(k, values) ==
  [kind |-> k, enum |-> values, props |-> <<>>, required |-> {}, items |-> <<>>,
   deprecated |-> FALSE]

Object(props, required) ==
  [Scalar("object", {}) EXCEPT !.props = props, !.required = required]

ArrayOf(schema) == [Scalar("array", {}) EXCEPT !.items = <<schema>>]

Ref(name) == [ref |-> name]

IsRef(schema) == "ref" \in DOMAIN schema

\* resolve_boxed and resolve_schema: the inline schema meant, as <<schema>>, or
\* <<>> when the reference leads nowhere.
Resolved(doc, schema) ==
  IF ~IsRef(schema) THEN <<schema>>
  ELSE IF schema.ref \in DOMAIN doc.schemas THEN <<doc.schemas[schema.ref]>>
  ELSE <<>>

-----------------------------------------------------------------------------
(* References.                                                             *)

\* The schemas one level down.
Parts(schema) ==
  IF IsRef(schema) THEN {}
  ELSE {schema.props[p] : p \in DOMAIN schema.props}
       \cup {schema.items[i] : i \in DOMAIN schema.items}

\* collect_refs: every component a schema names, at any depth.
CollectRefs(schema) ==
  IF IsRef(schema) THEN {schema.ref} ELSE UNION {Refs(part) : part \in Parts(schema)}

BodySchemas(op) == {op.body[m] : m \in DOMAIN op.body}

OperationSchemas(op) ==
  {op.params[k].schema : k \in DOMAIN op.params}
  \cup BodySchemas(op)
  \cup UNION {{op.responses[s][i] : i \in DOMAIN op.responses[s]} : s \in DOMAIN op.responses}

\* What some schemas name, and what some components name.
RefsIn(schemas) == UNION {Refs(s) : s \in schemas}

Named(doc, names) == RefsIn({doc.schemas[n] : n \in names \cap DOMAIN doc.schemas})

\* The worklist of extract_used_components_optimized, and the loop of
\* collect_request_schemas: whatever the names lead to.
Reachable(doc, names) ==
  LET all == names \cup Named(doc, DOMAIN doc.schemas)
  IN {n \in all : \A S \in SUBSET all : names \subseteq S /\ Named(doc, S) \subseteq S => n \in S}

-----------------------------------------------------------------------------
(* Splitting and merging.                                                  *)

Only(f, keys) == [k \in DOMAIN f \cap keys |-> f[k]]

\* f, and g where f has nothing.
Over(f, g) == [k \in DOMAIN f \cup DOMAIN g |-> IF k \in DOMAIN f THEN f[k] ELSE g[k]]

\* split_openapi: the fragment of one endpoint has its operation and the
\* components it uses.  The new path item carries the operation alone.
Fragment(doc, e) ==
  [ops     |-> Only(doc.ops, {e}),
   shared  |-> <<>>,
   schemas |-> Only(doc.schemas, Reachable(doc, RefsIn(OperationSchemas(doc.ops[e]))))]

\* Mutant: a fragment replaces its whole path.
MergedByPath(into, from) ==
  [ops     |-> Over(from.ops, Only(into.ops, {e \in DOMAIN into.ops :
                                 e[1] \notin {f[1] : f \in DOMAIN from.ops}})),
   shared  |-> into.shared,
   schemas |-> Over(into.schemas, from.schemas)]

\* merge_endpoint_yamls: operations are set method by method; of two
\* components of one name the first stays.
Merged(into, from) ==
  [ops     |-> Over(from.ops, into.ops),
   shared  |-> into.shared,
   schemas |-> Over(into.schemas, from.schemas)]

Bundle(doc, endpoints) ==
  LET merged[i \in 1 .. Len(endpoints)] ==
        IF i = 1 THEN Fragment(doc, endpoints[1])
        ELSE Merged(merged[i - 1], Fragment(doc, endpoints[i]))
  IN merged[Len(endpoints)]

\* Some endpoints of a document, in any order.
Selections(doc) ==
  {q \in UNION {[1 .. n -> DOMAIN doc.ops] : n \in 1 .. Cardinality(DOMAIN doc.ops)} :
     \A i, j \in DOMAIN q : i # j => q[i] # q[j]}

-----------------------------------------------------------------------------
(* check_openapi_compatible.                                               *)

\* check_enum_not_narrowed.
EnumNotNarrowed(o, n) ==
  n.enum # {} => o.enum # {} /\ o.enum \subseteq n.enum

IsDeprecated(schema) == ~IsRef(schema) /\ schema.deprecated

SameKind(o, n) == o.kind = n.kind \/ "unknown" \in {o.kind, n.kind}

\* Two references must have one name; each named component is checked on its
\* own.  A mix is compared by shape.
SubschemaCompatible(docs, o, n, request) ==
  IF IsRef(o) /\ IsRef(n) THEN o.ref = n.ref
  ELSE LET ro == Resolved(docs[1], o)
           rn == Resolved(docs[2], n)
       IN /\ ro # <<>> /\ rn # <<>>
          /\ SchemaCompatible(docs, ro[1], rn[1], request)

\* check_schema_compatible, on the documents <<old, new>>.
CheckSchema(docs, o, n, request) ==
  /\ SameKind(o, n)
  /\ request => EnumNotNarrowed(o, n)
  /\ o.kind = "object" /\ n.kind = "object" =>
       /\ \A p \in DOMAIN o.props \ DOMAIN n.props : IsDeprecated(o.props[p])
       /\ request => n.required \subseteq o.required
       /\ \A p \in DOMAIN o.props \cap DOMAIN n.props :
            SubschemaCompatible(docs, o.props[p], n.props[p], request)
  /\ o.items # <<>> /\ n.items # <<>> =>
       SubschemaCompatible(docs, o.items[1], n.items[1], request)

\* Mutant: only the schemas a request body names, not what they lead to.
RequestSchemasNamed(doc) ==
  RefsIn(UNION {BodySchemas(doc.ops[e]) : e \in DOMAIN doc.ops})

\* collect_request_schemas: what the request bodies lead to.
RequestSchemas(doc) ==
  Reachable(doc, RefsIn(UNION {BodySchemas(doc.ops[e]) : e \in DOMAIN doc.ops}))

\* Mutant: only the schemas of requests are compared.
ComponentsOfRequests(old, new) ==
  \A name \in DOMAIN old.schemas \cap DOMAIN new.schemas \cap RequestSchemas(new) :
    SchemaCompatible(<<old, new>>, old.schemas[name], new.schemas[name], TRUE)

ComponentsCompatible(old, new) ==
  LET requested == RequestSchemas(new)
  IN \A name \in DOMAIN old.schemas \cap DOMAIN new.schemas :
       SchemaCompatible(<<old, new>>, old.schemas[name], new.schemas[name], name \in requested)

\* collect_parameters: the path item's, overridden by the operation's own.
Parameters(doc, e) ==
  Over(doc.ops[e].params, IF e[1] \in DOMAIN doc.shared THEN doc.shared[e[1]] ELSE <<>>)

\* The body schemas of check_content_compatible and the schema of a parameter,
\* resolved one level; a reference to nothing is not compared.
ShapeCompatible(docs, o, n, request) ==
  LET ro == Resolved(docs[1], o)
      rn == Resolved(docs[2], n)
  IN ro # <<>> /\ rn # <<>> => SchemaCompatible(docs, ro[1], rn[1], request)

\* check_parameters_compatible.  Path parameters are fixed by the path.
ParametersCompatible(docs, e) ==
  LET o == Parameters(docs[1], e)
      n == Parameters(docs[2], e)
      free(k) == k[1] # "path"
  IN /\ \A k \in DOMAIN o \ DOMAIN n : free(k) => o[k].deprecated
     /\ \A k \in DOMAIN o \cap DOMAIN n :
          /\ free(k) /\ n[k].required => o[k].required
          /\ ShapeCompatible(docs, o[k].schema, n[k].schema, TRUE)
     /\ \A k \in DOMAIN n \ DOMAIN o : free(k) => ~n[k].required

\* check_operations_compatible, for an endpoint both documents have.
OperationCompatible(docs, e) ==
  LET o == docs[1].ops[e]
      n == docs[2].ops[e]
  IN /\ DOMAIN o.responses \subseteq DOMAIN n.responses
     /\ ParametersCompatible(docs, e)
     /\ \A m \in DOMAIN o.body \cap DOMAIN n.body :
          ShapeCompatible(docs, o.body[m], n.body[m], TRUE)
     /\ \A s \in DOMAIN o.responses :
          \A i \in DOMAIN o.responses[s] \cap DOMAIN n.responses[s] :
            ShapeCompatible(docs, o.responses[s][i], n.responses[s][i], FALSE)

\* A path may go when all its operations were deprecated, a method when it was.
Compatible(old, new) ==
  /\ ComponentsCompatible(old, new)
  /\ \A e \in DOMAIN old.ops \ DOMAIN new.ops : old.ops[e].deprecated
  /\ \A e \in DOMAIN old.ops \cap DOMAIN new.ops : OperationCompatible(<<old, new>>, e)

\* has_additions: an endpoint, a response status, a component or a property of
\* an object component the old document does not have.
HasAdditions(old, new) ==
  \/ DOMAIN new.ops \ DOMAIN old.ops # {}
  \/ \E e \in DOMAIN new.ops \cap DOMAIN old.ops :
       DOMAIN new.ops[e].responses \ DOMAIN old.ops[e].responses # {}
  \/ DOMAIN new.schemas \ DOMAIN old.schemas # {}
  \/ \E s \in DOMAIN old.schemas \cap DOMAIN new.schemas :
       /\ old.schemas[s].kind = "object" /\ new.schemas[s].kind = "object"
       /\ DOMAIN new.schemas[s].props \ DOMAIN old.schemas[s].props # {}

-----------------------------------------------------------------------------
(* What a document means to those who build against it: the reference the  *)
(* check is held to.  References are followed, to a bounded depth.         *)

\* The values a client of this document may send, <<kind, value>>, declared
\* properties only; for an untyped schema nothing is promised.
BuildValues(doc, schema, depth) ==
  LET r == Resolved(doc, schema)
  IN IF r = <<>> \/ depth = 0 THEN {}
     ELSE LET s == r[1]
          IN CASE s.kind = "unknown" -> {}
               [] s.kind = "object" ->
                    IF ~(s.required \subseteq DOMAIN s.props) THEN {}
                    ELSE UNION {
                      {<<"object", f>> :
                         f \in {g \in [D -> UNION {Built(doc, s.props[p], depth - 1) : p \in D}] :
                                  \A p \in D : g[p] \in Built(doc, s.props[p], depth - 1)}}
                      : D \in {E \in SUBSET DOMAIN s.props : s.required \subseteq E}}
               [] s.kind = "array" ->
                    {<<"array", <<>>>>}
                    \cup UNION {{<<"array", <<v>>>> : v \in Built(doc, s.items[i], depth - 1)}
                                : i \in DOMAIN s.items}
               [] OTHER ->
                    {<<s.kind, v>> : v \in IF s.enum = {} THEN {"a", "b"} ELSE s.enum}

\* The values the document's service takes; it ignores what it does not know.
AcceptValue(doc, schema, v) ==
  LET r == Resolved(doc, schema)
  IN \/ r = <<>>
     \/ LET s == r[1]
        IN CASE s.kind = "unknown" -> TRUE
             [] s.kind = "object" ->
                  /\ v[1] = "object"
                  /\ s.required \subseteq DOMAIN v[2]
                  /\ \A p \in DOMAIN v[2] \cap DOMAIN s.props :
                       Accepts(doc, s.props[p], v[2][p])
             [] s.kind = "array" ->
                  /\ v[1] = "array"
                  /\ \A i \in DOMAIN v[2] : \A j \in DOMAIN s.items :
                       Accepts(doc, s.items[j], v[2][i])
             [] OTHER -> v[1] = s.kind /\ (s.enum = {} \/ v[2] \in s.enum)

\* A reader of o still finds in n all it reads, of the same kind.
ReadSchema(docs, o, n, depth) ==
  LET ro == Resolved(docs[1], o)
      rn == Resolved(docs[2], n)
  IN \/ depth = 0 \/ ro = <<>> \/ rn = <<>>
     \/ /\ SameKind(ro[1], rn[1])
        /\ ro[1].kind = "object" /\ rn[1].kind = "object" =>
             \A p \in DOMAIN ro[1].props :
               \/ IsDeprecated(ro[1].props[p])
               \/ /\ p \in DOMAIN rn[1].props
                  /\ Reads(docs, ro[1].props[p], rn[1].props[p], depth - 1)
        /\ \A i \in DOMAIN ro[1].items \cap DOMAIN rn[1].items :
             Reads(docs, ro[1].items[i], rn[1].items[i], depth - 1)

\* The schema with its references followed.
ExpandSchema(doc, schema, depth) ==
  LET r == Resolved(doc, schema)
  IN IF r = <<>> THEN [lost |-> schema]
     ELSE IF depth = 0 THEN [cut |-> TRUE]
     ELSE [r[1] EXCEPT
             !.props = [p \in DOMAIN @ |-> Expanded(doc, @[p], depth - 1)],
             !.items = [i \in DOMAIN @ |-> Expanded(doc, @[i], depth - 1)]]

\* What a client of one of the documents may send.
Values ==
  UNION {UNION {Built(doc, s, depth) : s \in SchemasOf(doc), depth \in 0 .. Depth} : doc \in Documents}

-----------------------------------------------------------------------------
(* The documents there are.                                                *)

IsSchema(schema, schemas) ==
  ~IsRef(schema) => /\ Parts(schema) \subseteq schemas
                    /\ schema.items \in {<<>>} \cup {<<s>> : s \in schemas}

IsDocument(doc) ==
  /\ IsFiniteSet(DOMAIN doc.ops)
  /\ \A s \in SchemasOf(doc) : IsSchema(s, SchemasOf(doc))
  /\ \A n \in DOMAIN doc.schemas : doc.schemas[n] \in SchemasOf(doc) /\ ~IsRef(doc.schemas[n])
  /\ \A e \in DOMAIN doc.ops : OperationSchemas(doc.ops[e]) \subseteq SchemasOf(doc)
  /\ \A path \in DOMAIN doc.shared : \A k \in DOMAIN doc.shared[path] :
       doc.shared[path][k].schema \in SchemasOf(doc)

ASSUME DocumentsAssumption ==
  /\ Depth \in Nat
  /\ \A doc \in Documents : IsDocument(doc)

Bundles(doc) == {Bundle(doc, q) : q \in Selections(doc)}

\* Bundles are documents too, to those who expand them.
ASSUME RecursionAssumption ==
  /\ \A doc \in Documents : \A s \in SchemasOf(doc) :
       /\ Refs(s) = CollectRefs(s)
       /\ \A depth \in 0 .. Depth : Built(doc, s, depth) = BuildValues(doc, s, depth)
       /\ \A read \in {doc} \cup Bundles(doc), depth \in 0 .. Depth :
            Expanded(read, s, depth) = ExpandSchema(read, s, depth)
  /\ \A old, new \in Documents : \A o \in SchemasOf(old), n \in SchemasOf(new) :
       /\ \A request \in BOOLEAN : ~IsRef(o) /\ ~IsRef(n) =>
            (SchemaCompatible(<<old, new>>, o, n, request) <=> CheckSchema(<<old, new>>, o, n, request))
       /\ \A depth \in 0 .. Depth :
            Reads(<<old, new>>, o, n, depth) <=> ReadSchema(<<old, new>>, o, n, depth)
  /\ \A v \in Values, doc \in Documents : \A s \in SchemasOf(doc) :
       Accepts(doc, s, v) <=> AcceptValue(doc, s, v)
=============================================================================
