----------------------------- MODULE MCFormats ------------------------------
(***************************************************************************)
(* The formats on bounded inputs.                                          *)
(***************************************************************************)
EXTENDS Formats

\* Names with and without dots, an empty one, one whose length needs two bytes, one too long.
MCNames == {<<>>, <<1>>, <<1, 2, 1>>, <<1, 2, 1, 2, 1>>, [i \in 1..16 |-> 1]}

=============================================================================
