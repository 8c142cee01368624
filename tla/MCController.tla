---------------------------- MODULE MCController ----------------------------
(* Model-checking instances of Controller: two agents, one at an IPv6        *)
(* literal and one at a host name, with a name full of reserved bytes.       *)
EXTENDS Controller, TLC

CONSTANTS a1, a2

Of(first, second) == [a \in Agents |-> IF a = a1 THEN first ELSE second]

IDs == Of(<<97>>, <<98>>)
FPs == Of(<<97, 49>>, <<98, 50>>)
Names == Of(<<37, 38, 61>>, <<84, 255>>)

Strings == [t \in {0, 1} |-> <<45, 48 + t>>]

TwoAddrs == {[ip |-> <<58, 58, 49>>, port |-> 8443], [ip |-> <<104>>, port |-> 80]}

\* The first agent is up.
OneUp == {[x \in Addrs |-> IF x.port = 80 THEN a1 ELSE None]}

\* The first agent's record without a fingerprint, one with a version that is no
\* number, one with a fingerprint that is too short; and one that is in order, but
\* lies: the first agent's id with the second one's fingerprint and address.
Stray(id, ver, fp) ==
  [text |-> EncodeTXT([app |-> None, id |-> id, name |-> <<>>, ver |-> ver, fp |-> fp]),
   addr |-> [ip |-> <<104>>, port |-> 80]]
FourStrays ==
  {[Stray(<<97>>, 1, <<97, 49>>) EXCEPT !.text = SubSeq(@, 1, 4)],
   Stray(<<97>>, None, <<98, 50>>),
   Stray(<<99>>, 1, <<97>>),
   Stray(<<97>>, -1, <<98, 50>>)}

\* Agents that move; and one agent that moves or starts anew, and fails to save.
TwoLimits == {[tokens |-> 2, moves |-> 2, stops |-> 0, failures |-> 0, agents |-> {a1, a2}],
              [tokens |-> 1, moves |-> 1, stops |-> 1, failures |-> 1, agents |-> {a1}]}
=============================================================================
