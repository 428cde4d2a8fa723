------------------------------ MODULE MCUserMode -----------------------------
(***************************************************************************)
(* 24 addresses: code at 8 to 11, stack at 16 to 19, the kernel above, and *)
(* holes.  Every request of write at every address with lengths around     *)
(* every limit, every access to every kind of address, all pairs of a few  *)
(* instructions, and user_demo.                                            *)
(***************************************************************************)
EXTENDS UserMode

Zone(s, e) == [start |-> s, end |-> e]

\* The second machine has no page for the kernel to map.
MCLayouts ==
    {[bits |-> 6, reserved |-> 1, zones |-> <<Zone(1, 3), Zone(4, 6)>>],
     [bits |-> 6, reserved |-> 2, zones |-> <<Zone(4, 6), Zone(1, 2)>>]}

Access(op, a) ==
    [op |-> op, address |-> a, number |-> 0, length |-> 0, utf8 |-> TRUE,
     rip |-> 9, rsp |-> 18, expect |-> 0]
Call(n, a, l, u) ==
    [op |-> "request", address |-> a, number |-> n, length |-> l, utf8 |-> u,
     rip |-> 9, rsp |-> 18, expect |-> 0]
Right(c) == [c EXCEPT !.expect = Contract(c)]
Done == [Access("done", 0) EXCEPT !.rip = 10]

Writes == {Right(Call(WRITE, a, l, u)) :
              a \in 0 .. Word - 1, l \in {0, 1, 2, 3, 4, 23}, u \in BOOLEAN}
Others == {Right(Call(n, 0, 0, TRUE)) : n \in {0, 2, 3, 23}}
Accesses == {Access(op, a) : op \in {"read", "write", "exec"}, a \in {3, 9, 13, 17, 22}}
               \cup {Access("hlt", 9)}
\* Return addresses and stacks the kernel must not accept, a wrong expectation.
Strange == {[Call(0, 0, 0, TRUE) EXCEPT !.rip = x] : x \in {7, 10, 11, 22}}
              \cup {[Call(0, 0, 0, TRUE) EXCEPT !.rsp = x] : x \in {15, 20}}
Ends == {Done, [Done EXCEPT !.rip = 12], [Done EXCEPT !.rsp = 20]}
Few == {Right(Call(WRITE, 17, 2, TRUE)), Right(Call(WRITE, 19, 2, TRUE)),
        Right(Call(3, 0, 0, TRUE)), Call(2, 0, 0, TRUE),
        Access("write", 16), Access("exec", 17)}

user_demo ==
    <<Access("write", 17), Access("read", 17), Right(Call(2, 0, 0, TRUE)),
      Right(Call(3, 0, 0, TRUE)), Right(Call(WRITE, 16, 3, TRUE)), Done>>

MCPrograms ==
    {<<i, Done>> : i \in Writes \cup Others \cup Accesses \cup Strange}
       \cup {<<e>> : e \in Ends}
       \cup {<<i, j, Done>> : i, j \in Few}
       \cup {user_demo}

=============================================================================
