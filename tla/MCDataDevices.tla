---------------------------- MODULE MCDataDevices ----------------------------
EXTENDS DataDevices, TLC
Symmetric == Permutations(Clients) \cup Permutations(Sources)
\* What can still be told of an offer: without its source nothing but that it
\* is there, once dead whether its drag would be complete.
Left(o) ==
  LET done == o.source # NoSource /\ o.accepted /\ o.recvd
  IN IF o.source = NoSource \/ o.dead
     THEN [o EXCEPT !.dead = TRUE, !.client = NoClient, !.accepted = done, !.recvd = done]
     ELSE o
\* How many there are of each; their order does not matter.
Bag(s) == [e \in {Left(s[i]) : i \in DOMAIN s} |-> Len(SelectSeq(s, LAMBDA o : Left(o) = e))]
\* The rest is what is read later; seat.heard is only read as it is written.
Unread == <<use, devices, under, held, canvas, late, crossed, Bag(seat.offers),
            [seat EXCEPT !.heard = {}, !.offers = <<>>]>>
=============================================================================
