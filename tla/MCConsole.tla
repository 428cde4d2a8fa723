------------------------------ MODULE MCConsole ------------------------------
(***************************************************************************)
(* A screen of 3 x 2 cells of 2 x 2 dots, with a dot to spare in each      *)
(* direction and two at the end of each line, that ends where the mapped   *)
(* window ends; one of a single row; and modes that init refuses, each for *)
(* one reason.                                                             *)
(***************************************************************************)
EXTENDS Console

Wide == [bgrx |-> TRUE, width |-> 7, height |-> 5, pitch |-> 36, base |-> 460]
MCModes ==
    {Wide,
     [Wide EXCEPT !.width = 4, !.height = 3, !.pitch = 16, !.base = 512],
     [Wide EXCEPT !.base = 464],
     [Wide EXCEPT !.bgrx = FALSE],
     [Wide EXCEPT !.width = 1],
     [Wide EXCEPT !.height = 1],
     [Wide EXCEPT !.pitch = 24],
     [Wide EXCEPT !.pitch = 30],
     [Wide EXCEPT !.base = 0]}

\* For the run about control: one cell of two dots, and no console.
MCTrapModes ==
    {[Wide EXCEPT !.width = 2, !.height = 1, !.pitch = 8],
     [Wide EXCEPT !.bgrx = FALSE]}
=============================================================================
