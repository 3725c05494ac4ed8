----------------------- MODULE MCFullTextResolution -----------------------
(* Small instances of FullTextResolution. *)
EXTENDS FullTextResolution

\* An arXiv preprint, a paper without a DOI, and a publisher's paper.
SecondNoDoi == [p \in 1 .. 3 |-> p # 2]
FirstArxiv  == [p \in 1 .. 3 |-> p = 1]

\* Two papers, the second without a DOI.
FirstDoi == [p \in 1 .. 2 |-> p = 1]
NoArxiv  == [p \in 1 .. 2 |-> FALSE]

PutFault == {"put"}
NoFault  == {}
=============================================================================
