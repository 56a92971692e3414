------------------------------ MODULE MCUplink ------------------------------
EXTENDS Uplink

W(first, last) == first .. last    \* a word of adjacent ones

\* Numbers at the edges of their fields, some with a bit more than the field.
MCCommands ==
  { [cmd |-> k, src |-> W(0, 24), tgid |-> {1, 15}, target |-> {}, sysID |-> {0, 11}]
      : k \in {"aff", "reg"} }
  \cup { [cmd |-> k, src |-> {0, 23}, tgid |-> W(0, 16), target |-> W(0, 24), sysID |-> {}]
      : k \in {"vch", "uu", "dereg", "emrg"} }

MCSite ==
  [wacn |-> W(0, 19), sysid |-> W(0, 12), rfssid |-> W(0, 7), siteid |-> 255, chanId |-> {0, 3},
   bw |-> {0, 8}, positive |-> TRUE, magnitude |-> W(0, 7), spacing |-> {0, 9}, base |-> {0, 31}]

MCClocks ==
  { [year |-> 2099, month |-> 12, day |-> 31, hour |-> 23, min |-> 59, sec |-> 60,
     halfHours |-> 28],
    [year |-> 2001, month |-> 8, day |-> 16, hour |-> 16, min |-> 32, sec |-> 59,
     halfHours |-> 0 - 24] }
=============================================================================
