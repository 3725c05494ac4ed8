---------------------------- MODULE MCDiscovery ----------------------------
(***************************************************************************)
(* A paper x that all have, under different forms of its DOI, a pre-print  *)
(* z that two have without one, and a paper y that one has with its DOI    *)
(* and another without; one record is without an abstract.  The pool holds *)
(* three candidates.                                                       *)
(***************************************************************************)
EXTENDS Discovery

CONSTANTS s1, s2, openalex, s2graph, crossref, x, y, z

ThreePapers == {x, y, z}
TwoSearches == {s1, s2}
Adapters == <<openalex, s2graph, crossref>>

Found(name, form, paper, title, abstract, authors, cites, p) ==
  [doi |-> [name |-> name, form |-> form], paper |-> paper, dated |-> TRUE, cites |-> cites,
   length |-> ("title" :> title @@ "abstract" :> abstract @@ "authors" :> authors),
   providers |-> {p}]

Finds ==
  openalex :> {<<Found("x", "url", x, 1, 2, 1, 3, openalex), Found("", "bare", z, 1, 1, 1, 2, openalex)>>}
  @@ s2graph :> {<<Found("y", "bare", y, 2, 2, 1, 4, s2graph), Found("x", "bare", x, 2, 0, 2, 3, s2graph)>>,
                 <<Found("", "bare", z, 1, 2, 2, 1, s2graph)>>}
  @@ crossref :> {<<Found("x", "upper", x, 1, 1, 2, 4, crossref), Found("", "bare", y, 1, 1, 1, 3, crossref)>>}
=============================================================================
