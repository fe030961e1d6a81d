-------------------------- MODULE ProducerReleases --------------------------
(***************************************************************************)
(* The releases of one producer with real documents: the check the line    *)
(* takes as given, and the impact it classifies, are those of              *)
(* OpenApiDocument, and the fragments consumers get are cut from the       *)
(* documents on the line.                                                  *)
(***************************************************************************)
EXTENDS ReleaseLine, OpenApiDocument

CONSTANT
  DocOf       \* DocOf[c]: the document

\* The pairs <<old, new>> of contents that Op holds of.
Pairs(Op(_, _)) ==
  LET doc == DocOf
  IN {<<p[1], p[2]>> : p \in {q \in Contents \X Contents : Op(doc[q[1]], doc[q[2]])}}

\* check_compatibility and classify_change, on the documents there are.
ASSUME ContentsAssumption ==
  /\ DocOf \in [Contents -> Documents]
  /\ Accepted = Pairs(Compatible)
  /\ Additive = Pairs(HasAdditions)

-----------------------------------------------------------------------------
(* Properties.                                                             *)

\* The parameters whose schemas the check takes for request schemas to the
\* bottom: below its first level a parameter is compared by component name,
\* and only components some request body leads to are checked as requests.
CheckedDeep(new, schema) ==
  \A i \in DOMAIN Resolved(new, schema) :
    Refs(Resolved(new, schema)[i]) \subseteq RequestSchemas(new)

\* Whatever a client of the old document sends, the new one takes.
Serves(old, new) ==
  \A e \in DOMAIN old.ops :
    \/ e \notin DOMAIN new.ops /\ old.ops[e].deprecated
    \/ LET o == Parameters(old, e)
           n == Parameters(new, e)
       IN /\ e \in DOMAIN new.ops
          /\ \A k \in DOMAIN n : n[k].required /\ k[1] # "path"
                                   => k \in DOMAIN o /\ o[k].required
          /\ \A k \in DOMAIN o \cap DOMAIN n : CheckedDeep(new, n[k].schema) =>
               \A v \in Built(old, o[k].schema, Depth) : Accepts(new, n[k].schema, v)
          /\ \A m \in DOMAIN old.ops[e].body \cap DOMAIN new.ops[e].body :
               \A v \in Built(old, old.ops[e].body[m], Depth) :
                 Accepts(new, new.ops[e].body[m], v)

Served == Pairs(Serves)

\* Whatever a client of the old document reads of a response is still there.
Answers(old, new) ==
  \A e \in DOMAIN old.ops \cap DOMAIN new.ops :
    LET o == old.ops[e].responses
        n == new.ops[e].responses
    IN \A s \in DOMAIN o :
         /\ s \in DOMAIN n
         /\ \A i \in DOMAIN o[s] \cap DOMAIN n[s] :
              Reads(<<old, new>>, o[s][i], n[s][i], Depth)

Readable == Pairs(Answers)

\* "A request value the old contract accepted must still be accepted": a
\* release that keeps the major serves every client built against the release
\* it was checked with, whatever nesting, references or rewrites of references
\* the two documents use.
RequestsStillServed ==
  \A x \in line : x.base # None => <<x.base, x.content>> \in Served

\* No property or type a client reads at any depth of a response is gone, where
\* the response still has a schema of the media type, though the check compares
\* references by name and components one by one.
ResponsesStillRead ==
  \A x \in line : x.base # None => <<x.base, x.content>> \in Readable

\* What the schemas of an endpoint come to, its own parameters included.
Meaning(doc, e) ==
  LET op == doc.ops[e]
  IN [params    |-> [k \in DOMAIN op.params |-> Expanded(doc, op.params[k].schema, Depth)],
      body      |-> [m \in DOMAIN op.body |-> Expanded(doc, op.body[m], Depth)],
      responses |-> [s \in DOMAIN op.responses |->
                       [i \in DOMAIN op.responses[s] |-> Expanded(doc, op.responses[s][i], Depth)]]]

Faithful(doc) ==
  \A q \in Selections(doc) : \A i \in DOMAIN q :
    /\ q[i] \in DOMAIN Bundle(doc, q).ops
    /\ Meaning(Bundle(doc, q), q[i]) = Meaning(doc, q[i])

Bundled == {n : n \in {c \in Contents : Faithful(DocOf[c])}}

\* A bundle is cut from the fragments the split stored, in whatever order, and
\* must mean to the consumer what the document it never sees means.
BundleSaysTheSame == \A x \in line : x.content \in Bundled
=============================================================================
