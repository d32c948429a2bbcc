---------------------------- MODULE MCSizeClasses ----------------------------
(* Every small size, the large boundaries and the end of a 20-bit size_t. *)
EXTENDS SizeClasses

Twenty == 1048576

Neighbours(n) == {n - 1, n, n + 1}

TwentyBits == Twenty - 1

Large ==
  { n \in UNION { Neighbours(c) : c \in LargeClasses \cup { 4096 * k : k \in 5 .. 20 }
                                    \cup {Twenty - 4096, Twenty - 2} } :
      n > SmallLimit }
==============================================================================
