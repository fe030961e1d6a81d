--------------------------- MODULE MCVersionLine ---------------------------
(***************************************************************************)
(* Instances of VersionLine for TLC.  Documents are strings here: "a1"     *)
(* and "b1" declare 1.1.0, "a2" declares 1.2.0.  Only the pair named in    *)
(* MCBreaking is a breaking change.                                        *)
(***************************************************************************)
EXTENDS VersionLine, TLC

CallSymmetry == Permutations(Calls)

MCVersionOf == [c \in Contents |-> CASE c = "a1" -> <<1, 1, 0>>
                                     [] c = "b1" -> <<1, 1, 0>>
                                     [] c = "a2" -> <<1, 2, 0>>]

MCVersions == {MCVersionOf[c] : c \in Contents}

MCBreaking == {<<"b1", "a2">>}
MCCompatible == (Contents \X Contents) \ MCBreaking

Snapshot(c, u) == [content |-> c, stability |-> "snapshot", user |-> u,
                   build |-> "none", why |-> "none", trunk |-> FALSE,
                   dry |-> FALSE, cas |-> FALSE]

Release(c, u) == [Snapshot(c, u) EXCEPT !.stability = "ga"]
Linked(r, l)  == [r EXCEPT !.build = l, !.why = l]
Trunk(r)      == [r EXCEPT !.trunk = TRUE]
Dry(r)        == [r EXCEPT !.dry = TRUE]

\* Two developers and a releaser fight over one number; one developer also
\* tries a release.
OneNumber == {Snapshot("a1", "ann"), Snapshot("b1", "bob"), Release("b1", "rel"),
              Release("b1", "bob")}

\* A caller in dev mode provides a snapshot with its origin while a releaser
\* releases that number as a trunk build and, after a preview, the next one,
\* which breaks it.
OneLine == {Linked(Snapshot("b1", "-"), "l0"), Trunk(Release("b1", "rel")),
            Dry(Release("a2", "rel")), Release("a2", "rel")}
=============================================================================
