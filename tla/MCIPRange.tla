------------------------------ MODULE MCIPRange ------------------------------
(***************************************************************************)
(* Instances of IPRange for TLC: IPv4 addresses of two bytes with four     *)
(* values each, and a few of IPv6.                                         *)
(***************************************************************************)
EXTENDS IPRange

V4 == {<<3, a, b>> : a \in 0..3, b \in 0..3}
V6 == {<<0, 1, 2>>, <<0, 2, 1>>}
Mask == {0, 2, 3}

Good(s, e, m) ==
  [twoHalves |-> TRUE, start |-> s, end |-> e, startMask |-> m, endMask |-> m]

Broken ==
  {[Good(<<3, 0, 1>>, <<3, 0, 2>>, 2) EXCEPT !.twoHalves = FALSE],
   [Good(<<3, 0, 1>>, <<3, 0, 2>>, 2) EXCEPT !.endMask = 3],
   Good(Bad, <<3, 1, 2>>, 2), Good(<<3, 0, 1>>, Bad, 2), Good(<<3, 0, 1>>, <<3, 0, 2>>, 5)}

Few == {Good(<<3, 1, 2>>, <<3, 2, 1>>, 0), Good(<<3, 3, 2>>, <<3, 3, 0>>, 2),
        Good(<<3, 0, 1>>, <<3, 3, 1>>, 2), Good(<<3, 3, 0>>, <<3, 3, 1>>, 2)}

\* Every single range, between addresses of one family or of both, with one to
\* six bits of host part, and lists of two that also hold malformed ones.  The
\* largest IPv6 network holds the addresses that stand for IPv4.
AllConfig ==
  {<<Good(s, e, m)>> : s \in V4 \cup V6, e \in V4 \cup V6, m \in Mask}
  \cup {<<r, s>> : r \in Few \cup Broken, s \in Few \cup Broken}

\* No INSERT fails, or a few at the start, the middle or the end, or all do.
AnyFailures == {{}, {1}, {2, 5}, {4}, 1..64}

\* Ranges whose ends are both IPv4.
V4Config == {<<Good(s, e, m)>> : s \in V4, e \in V4, m \in Mask}

=============================================================================
