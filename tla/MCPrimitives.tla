---------------------------- MODULE MCPrimitives -----------------------------
(***************************************************************************)
(* Every legal call on every memory of five bytes; the handler compares,   *)
(* fills, copies and moves a byte or two.                                  *)
(***************************************************************************)
EXTENDS Primitives

MCValues == {0, 7, 255}
MCFills == {-1, 263}
Call(fn, dst, src, len) == [fn |-> fn, dst |-> dst, src |-> src, len |-> len, byte |-> 263]
MCReports ==
    {Call("memcpy", 1, 3, 2), Call("memmove", 2, 1, 2), Call("memset", 2, 0, 2),
     Call("memcmp", 0, 2, 3)}
=============================================================================
