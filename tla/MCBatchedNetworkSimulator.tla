---------------------- MODULE MCBatchedNetworkSimulator ----------------------
(***************************************************************************)
(* Small networks on which TLC checks BatchedNetworkSimulator.             *)
(***************************************************************************)
EXTENDS BatchedNetworkSimulator

CONSTANTS a, b, c, d, e

(* The circle of three of the README's example. *)
Circle == {<<a, b>>, <<b, c>>, <<c, a>>}

(* Two ends of one link that are both told to meet the other, and a third node
   that is in a circle with them. *)
Crossing == {<<a, b>>, <<b, a>>, <<c, a>>, <<b, c>>}

(* One link. *)
Pair == {<<a, b>>}

(* Two circles of three with a link in common, made one after the other: c learns
   of a's first probe from b and from a, and d then from a and from c. *)
DiamondOrder == << <<a, b>>, <<b, c>>, <<a, c>>, <<a, d>>, <<c, d>> >>
Diamond == Range(DiamondOrder)

(* A circle of four and a circle of three with the link of a and d in common, which
   is the last but one to be made. *)
HouseOrder == << <<a, c>>, <<e, d>>, <<b, a>>, <<d, b>>, <<a, d>>, <<c, e>> >>
House == Range(HouseOrder)

NoNumbers == <<>>

Meets(m, n) == hand[m][n] = "none" /\ hand'[m][n] = "talking"

(* Every command delivers all messages before it ends. *)
MeetWhenQuiet == (\E m, n \in Nodes : Meets(m, n)) => batch = <<>>

(* The same, with the links in a given order. *)
InOrder(order) ==
  \A i \in DOMAIN order :
    Meets(order[i][1], order[i][2]) =>
      /\ batch = <<>>
      /\ \A j \in 1..(i - 1) : hand[order[j][1]][order[j][2]] # "none"

MeetInDiamondOrder == InOrder(DiamondOrder)
MeetInHouseOrder == InOrder(HouseOrder)

(* Both ends of the link of a and b. *)
BothEnds == {<<a, b>>, <<b, a>>}

(* One of them sets the balance, once, when it has the other for a friend. *)
SetOnce ==
  \A l \in BothEnds :
    Len(network'[l[1]][l[2]]) > Len(network[l[1]][l[2]])
    /\ Last(network'[l[1]][l[2]]).type = "set-balance" =>
      /\ Node!AreFriends(l[1], l[2])
      /\ balance[a][b] = 0 /\ balance[b][a] = 0

(* The other commands deliver all messages before they end. *)
OnlyCrossingMeetsOverlap ==
  (\E m, n \in Nodes : Meets(m, n) /\ {m, n} # {a, b}) => batch = <<>>

=============================================================================
