----------------------------- MODULE MCBootChain -----------------------------
(***************************************************************************)
(* Sectors of four bytes, so that every third link lies across two of them *)
(* and the FAT across three; five sectors to a track.  Every way to lay    *)
(* out files of up to two and three clusters on six, in a row as           *)
(* build_image.py does it or scattered; the directory in either order, in  *)
(* one sector or two, and with either file missing.                        *)
(***************************************************************************)
EXTENDS BootChain

Chains(n) == {c \in UNION {[1 .. k -> 2 .. 7] : k \in 1 .. n} :
                 \A i, j \in DOMAIN c : c[i] = c[j] => i = j}

Image(l, k, sl, sk) ==
    [chain |-> [f \in Files |-> IF f = "LOADER" THEN l ELSE k],
     slot |-> [f \in Files |-> IF f = "LOADER" THEN sl ELSE sk]]

MCImages ==
    {Image(p[1], p[2], 0, 1) : p \in
        {q \in Chains(2) \X Chains(3) :
            \A i \in DOMAIN q[1], j \in DOMAIN q[2] : q[1][i] # q[2][j]}}
    \cup {Image(<<2, 3>>, <<4, 5, 6>>, s[1], s[2]) : s \in
        {t \in (-1 .. 3) \X (-1 .. 3) : t[1] # t[2]}}
=============================================================================
