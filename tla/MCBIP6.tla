------------------------------- MODULE MCBIP6 -------------------------------
(* Two nodes, one of them a BBMD, a device of another make and a device of  *)
(* another network, with instances that need one, two and three octets.     *)
EXTENDS BIP6

Place(k) == bvlc6_address_set(<<65152, 0, 0, 0, 0, 0, 0, k>>, 47808)

N == {1, 2}
Instances == <<300, 70000>>
Places == {Place(1), Place(2), Place(3)}
Homes == <<Place(1), Place(2)>>
NoAddress == bvlc6_address_set(<<0, 0, 0, 0, 0, 0, 0, 0>>, 0)
TheGroup == bvlc6_address_set(<<65282, 0, 0, 0, 0, 0, 0, 47808>>, 47808)
TheOther == [instance |-> 4194302, address |-> Place(8)]
ThePeer == Place(9)
TheRemote == [instance |-> 40, address |-> Place(10)]
NoTable == [n \in N |-> {}]
=============================================================================
