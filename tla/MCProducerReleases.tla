------------------------- MODULE MCProducerReleases -------------------------
(***************************************************************************)
(* Documents for TLC.  An order S with a state, posted and read back, and  *)
(* the component E of the state; a document is named by what it has for    *)
(* S, E, the query parameter (on the operation and on the path), the       *)
(* request body, the response and the deprecated listing.                  *)
(***************************************************************************)
EXTENDS ProducerReleases, TLC

Text(values) == Scalar("string", values)
Old(schema)  == [schema EXCEPT !.deprecated = TRUE]
Of(state)    == Object("state" :> state, {})

Orders ==
  [ref      |-> Of(Ref("E")),
   inline   |-> Of(Text({"a"})),
   untyped  |-> Of(Scalar("unknown", {})),
   old      |-> Of(Old(Text({"a"}))),
   bare     |-> Object(<<>>, {}),
   required |-> Object("state" :> Ref("E"), {"state"}),
   list     |-> Of(ArrayOf(Ref("E"))),
   more     |-> Object(("state" :> Ref("E")) @@ ("note" :> Text({})), {})]

States ==
  [one |-> Text({"a"}), two |-> Text({"a", "b"}), open |-> Text({}), number |-> Scalar("integer", {})]

Query(schema, required) ==
  <<"query", "state">> :> [required |-> required, deprecated |-> FALSE, schema |-> schema]

Queries ==
  [none |-> <<>>, enum |-> Query(Text({"a"}), FALSE), ref |-> Query(Ref("E"), FALSE),
   list |-> Query(ArrayOf(Ref("E")), FALSE)]

Bodies == [ref |-> "json" :> Ref("S"), inline |-> "json" :> Of(Ref("E"))]

Replies == [ref |-> <<Ref("S")>>, list |-> <<ArrayOf(Ref("S"))>>, empty |-> <<>>]

\* On the path item, overridden by a query of the operation.
Shared == [none |-> <<>>, must |-> Query(Text({"a"}), TRUE)]

Descriptions ==
  [order: DOMAIN Orders, state: DOMAIN States, query: DOMAIN Queries, body: DOMAIN Bodies,
   reply: DOMAIN Replies, path: DOMAIN Shared, list: {"deprecated", "gone"}]

Plain ==
  [order |-> "ref", state |-> "one", query |-> "none", body |-> "ref", reply |-> "ref",
   path |-> "none", list |-> "deprecated"]

Differences(n) == {f \in DOMAIN n : n[f] # Plain[f]}

\* Documents that differ from the plain one in one place, in the order or the
\* query and the state, or whose orders are read in a list and never posted.
MCContents ==
  {n \in Descriptions :
     \/ Cardinality(Differences(n)) <= 1
     \/ Differences(n) \in {{"state", "order"}, {"state", "query"}}
     \/ Differences(n) \ {"order"} = {"body", "reply"} /\ n.reply = "list"}

Doc(n) ==
  [ops |-> (<<"/orders", "post">> :>
              [deprecated |-> FALSE, params |-> Queries[n.query], body |-> Bodies[n.body],
               responses |-> "200" :> Replies[n.reply]])
        @@ IF n.list = "gone" THEN <<>>
           ELSE <<"/orders", "get">> :>
                  [deprecated |-> TRUE, params |-> <<>>, body |-> <<>>,
                   responses |-> "200" :> <<Ref("E")>>],
   shared |-> "/orders" :> Shared[n.path],
   schemas |-> ("S" :> Orders[n.order]) @@ ("E" :> States[n.state])]

MCDocOf == [n \in MCContents |-> Doc(n)]

MCDocuments == {MCDocOf[n] : n \in MCContents}

-----------------------------------------------------------------------------
(* What the calls return: the bodies of OpenApiDocument, calling           *)
(* themselves.  RecursionAssumption compares them with those bodies.       *)

RECURSIVE MCRefs(_)
MCRefs(s) == IF IsRef(s) THEN {s.ref} ELSE UNION {MCRefs(part) : part \in Parts(s)}

RECURSIVE MCSchemaCompatible(_, _, _, _)
MCSchemaCompatible(docs, o, n, request) ==
  LET nested(p, q) ==
        IF IsRef(p) /\ IsRef(q) THEN p.ref = q.ref
        ELSE LET rp == Resolved(docs[1], p)
                 rq == Resolved(docs[2], q)
             IN rp # <<>> /\ rq # <<>> /\ MCSchemaCompatible(docs, rp[1], rq[1], request)
  IN /\ SameKind(o, n)
     /\ request => EnumNotNarrowed(o, n)
     /\ o.kind = "object" /\ n.kind = "object" =>
          /\ \A p \in DOMAIN o.props \ DOMAIN n.props : IsDeprecated(o.props[p])
          /\ request => n.required \subseteq o.required
          /\ \A p \in DOMAIN o.props \cap DOMAIN n.props : nested(o.props[p], n.props[p])
     /\ o.items # <<>> /\ n.items # <<>> => nested(o.items[1], n.items[1])

\* The values of a property, the objects with some of the properties, and the
\* rest by kind.
RECURSIVE MCBuilt(_, _, _)
MCBuilt(doc, s, depth) ==
  LET r == Resolved(doc, s)
  IN IF r = <<>> \/ depth = 0 \/ r[1].kind = "unknown" THEN {}
     ELSE LET t == r[1]
              of == [p \in DOMAIN t.props |-> MCBuilt(doc, t.props[p], depth - 1)]
              objects(D) ==
                {f \in [D -> UNION {of[p] : p \in D}] : \A p \in D : f[p] \in of[p]}
          IN CASE t.kind = "object" ->
                    {<<"object", f>> :
                       f \in UNION {objects(D) : D \in {E \in SUBSET DOMAIN t.props : t.required \subseteq E}}}
               [] t.kind = "array" ->
                    {<<"array", <<>>>>}
                    \cup {<<"array", <<v>>>> :
                            v \in UNION {MCBuilt(doc, t.items[i], depth - 1) : i \in DOMAIN t.items}}
               [] OTHER -> {<<t.kind, v>> : v \in IF t.enum = {} THEN {"a", "b"} ELSE t.enum}

RECURSIVE MCAccepts(_, _, _)
MCAccepts(doc, s, v) ==
  LET r == Resolved(doc, s)
  IN \/ r = <<>>
     \/ r[1].kind = "unknown"
     \/ /\ v[1] = r[1].kind
        /\ CASE v[1] = "object" ->
                  /\ r[1].required \subseteq DOMAIN v[2]
                  /\ \A p \in DOMAIN v[2] \cap DOMAIN r[1].props :
                       MCAccepts(doc, r[1].props[p], v[2][p])
             [] v[1] = "array" ->
                  \A i \in DOMAIN v[2], j \in DOMAIN r[1].items :
                    MCAccepts(doc, r[1].items[j], v[2][i])
             [] OTHER -> r[1].enum = {} \/ v[2] \in r[1].enum

RECURSIVE MCReads(_, _, _, _)
MCReads(docs, o, n, depth) ==
  LET ro == Resolved(docs[1], o)
      rn == Resolved(docs[2], n)
      read(f, g) ==
        \A p \in DOMAIN f : \/ IsDeprecated(f[p])
                            \/ p \in DOMAIN g /\ MCReads(docs, f[p], g[p], depth - 1)
  IN \/ depth = 0 \/ ro = <<>> \/ rn = <<>>
     \/ /\ SameKind(ro[1], rn[1])
        /\ ro[1].kind = "object" /\ rn[1].kind = "object" => read(ro[1].props, rn[1].props)
        /\ \A i \in DOMAIN ro[1].items \cap DOMAIN rn[1].items :
             MCReads(docs, ro[1].items[i], rn[1].items[i], depth - 1)

RECURSIVE MCExpanded(_, _, _)
MCExpanded(doc, s, depth) ==
  LET r == Resolved(doc, s)
      below(f) == [k \in DOMAIN f |-> MCExpanded(doc, f[k], depth - 1)]
  IN IF r = <<>> THEN [lost |-> s]
     ELSE IF depth = 0 THEN [cut |-> TRUE]
     ELSE [r[1] EXCEPT !.props = below(@), !.items = below(@)]

-----------------------------------------------------------------------------
Tops(doc) ==
  {doc.schemas[n] : n \in DOMAIN doc.schemas}
  \cup UNION {OperationSchemas(doc.ops[e]) : e \in DOMAIN doc.ops}
  \cup UNION {{doc.shared[p][k].schema : k \in DOMAIN doc.shared[p]} : p \in DOMAIN doc.shared}

\* The schemas here are at most three deep.
MCSchemasOf(doc) ==
  LET tops  == Tops(doc)
      parts == UNION {Parts(s) : s \in tops}
  IN tops \cup parts \cup UNION {Parts(s) : s \in parts}

MCAccepted == Pairs(Compatible)
MCAdditive == Pairs(HasAdditions)

MCNumbers == {<<1, 0, 0>>, <<1, 1, 0>>, <<1, 0, 4>>}

Released(v, n) ==
  [version |-> v, stability |-> "ga", provider |-> "rel", content |-> n, base |-> None]

\* Nothing yet, or two majors released, the second one with numbers of a type
\* no other document has.
MCEarlier ==
  {{}, {Released(<<1, 0, 0>>, Plain), Released(<<2, 0, 0>>, [Plain EXCEPT !.state = "number"])}}
=============================================================================
