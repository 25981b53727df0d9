---------------------------- MODULE MCProcessTree ----------------------------
(* Programs of two or three processes, and the vtunify runs of MCUnify. *)
EXTENDS ProcessTree, MCUnify

\* A serial vtunify.  It may fail, with one or two processes, when files are
\* renamed and removed or copied and kept; three processes copy and remove them.
\* With one process the calls it does not look at may fail, too.
MCPrograms ==
  {[size |-> 1, streams |-> 0, local |-> {}, records |-> << >>, process |-> << >>,
    etimesync |-> FALSE, doclean |-> x[1], same |-> x[1], renames |-> x[2],
    z |-> x[2], docompress |-> x[2], fails |-> n <= 2, unchecked |-> n = 1, processes |-> n] :
     <<x, n>> \in {<<<<TRUE, TRUE>>, 1>>, <<<<TRUE, TRUE>>, 2>>, <<<<FALSE, FALSE>>, 2>>,
                  <<<<TRUE, FALSE>>, 3>>}}
=============================================================================
