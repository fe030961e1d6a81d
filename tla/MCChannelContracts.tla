------------------------- MODULE MCChannelContracts -------------------------
EXTENDS ChannelContracts, TLC

CONSTANTS A, B, orders, refunds, c1, c2

Number == [type |-> "integer", deprecated |-> FALSE]
Text   == [type |-> "string", deprecated |-> FALSE]
Going  == [type |-> "integer", deprecated |-> TRUE]

One    == [x |-> Number]
Two    == [x |-> Number, y |-> Number]
Marked == [x |-> Number, y |-> Going]
Other  == [x |-> Text]

Pub(topic, payload) == [topic |-> topic, payload |-> payload]
Doc(pubs, subscribed) == [pubs |-> pubs, subs |-> subscribed]

\* A message that grows or shrinks, with and without notice, or changes its
\* type, and a document of another topic that subscribes to it.
MCDocs ==
  {Doc(<<Pub(orders, p)>>, <<>>) : p \in {One, Two, Marked, Other}}
  \cup {Doc(<<Pub(refunds, One)>>, <<Pub(orders, Two)>>)}

Symmetric == Permutations(Calls) \cup Permutations(Names)
=============================================================================
