-------------------------- MODULE DataDevices_proofs --------------------------
(***************************************************************************)
(* Proofs about DataDevices, for every set of clients and of sources and   *)
(* any bound on the offers.                                                *)
(***************************************************************************)
EXTENDS DataDevices, SequenceTheorems, TLAPS

Selected == {s \in Sources : use[s] = "selection"}
Dragged == {s \in Sources : use[s] = "drag"}

Messages == (Sources \cup Clients) \X {"cancelled", "finished", "drop"}

SeatType ==
  [kb : MaybeClient, ptr : MaybeClient, dnd : MaybeClient,
   selection : Sources \cup {NoSource}, offers : Seq(AnOffer),
   source : Sources \cup {NoSource}, device : MaybeClient,
   hooked : BOOLEAN, cursor : BOOLEAN, told : Sources \cup {NoSource},
   inside : SUBSET Clients, heard : SUBSET Messages]

(***************************************************************************)
(* The offers, of a seat with focus kb and selection sel, where the        *)
(* sources of drags are those of D: a live offer of a selection is of the  *)
(* current one and for the client with the focus.                          *)
(***************************************************************************)
OfferOK(o, kb, sel, D) ==
  /\ o.source \in Selected \cup D \cup {NoSource}
  /\ ~o.dead /\ o.source \in Selected => o.client = kb /\ o.source = sel

OffersOK(offers, kb, sel, D) ==
  /\ offers \in Seq(AnOffer)
  /\ \A i \in DOMAIN offers : OfferOK(offers[i], kb, sel, D)

\* Killing offers keeps all of an offer but that it is alive.
LEMMA KilledIsOffers ==
  ASSUME NEW offers \in Seq(AnOffer), NEW kind
  PROVE  /\ Killed(offers, kind) \in Seq(AnOffer)
         /\ DOMAIN Killed(offers, kind) = DOMAIN offers
         /\ \A i \in DOMAIN offers :
              /\ Killed(offers, kind)[i].source = offers[i].source
              /\ Killed(offers, kind)[i].client = offers[i].client
              /\ ~Killed(offers, kind)[i].dead =>
                   /\ ~offers[i].dead
                   /\ offers[i].source # NoSource /\ use[offers[i].source] # kind
<1>1. \A i \in DOMAIN offers : offers[i] \in AnOffer
  OBVIOUS
<1>2. \A o \in AnOffer : [o EXCEPT !.dead = TRUE] \in AnOffer
  BY DEF AnOffer
<1>3. \A i \in DOMAIN offers : Killed(offers, kind)[i] \in AnOffer
  BY <1>1, <1>2 DEF Killed
<1>4. DOMAIN offers = 1..Len(offers) /\ Len(offers) \in Nat
  OBVIOUS
<1>5. Killed(offers, kind) \in Seq(AnOffer)
  BY <1>3, <1>4 DEF Killed
<1> QED  BY <1>1, <1>5 DEF Killed, AnOffer

\* Killing the offers of the selection makes room for any other.
LEMMA KilledSelection ==
  ASSUME NEW offers, NEW kb, NEW sel, NEW D, OffersOK(offers, kb, sel, D),
         NEW kb2, NEW sel2
  PROVE  OffersOK(Killed(offers, "selection"), kb2, sel2, D)
BY KilledIsOffers DEF OffersOK, OfferOK, Selected

LEMMA KilledDrag ==
  ASSUME NEW offers, NEW kb, NEW sel, NEW D, OffersOK(offers, kb, sel, D)
  PROVE  OffersOK(Killed(offers, "drag"), kb, sel, D)
BY KilledIsOffers DEF OffersOK, OfferOK

LEMMA AppendedOffer ==
  ASSUME NEW offers, NEW kb \in MaybeClient, NEW sel, NEW D \in SUBSET Sources,
         OffersOK(offers, kb, sel, D),
         NEW s \in Sources, NEW c \in Clients, OfferOK(Offer(s, c), kb, sel, D)
  PROVE  OffersOK(Append(offers, Offer(s, c)), kb, sel, D)
<1>1. Offer(s, c) \in AnOffer
  BY DEF Offer, AnOffer
<1> DEFINE more == Append(offers, Offer(s, c))
<1>2. /\ more \in Seq(AnOffer)
      /\ Len(more) = Len(offers) + 1
      /\ \A i \in 1..Len(offers) : more[i] = offers[i]
      /\ more[Len(offers) + 1] = Offer(s, c)
      /\ Len(offers) \in Nat /\ DOMAIN offers = 1..Len(offers) /\ DOMAIN more = 1..Len(more)
  BY <1>1, AppendProperties DEF OffersOK
<1>3. \A i \in DOMAIN more : i \in DOMAIN offers \/ i = Len(offers) + 1
  BY <1>2
<1> HIDE DEF more
<1> QED  BY <1>2, <1>3 DEF OffersOK, more

(***************************************************************************)
(* The seat.                                                               *)
(***************************************************************************)
SeatOK(d, D) ==
  /\ d \in SeatType
  /\ d.hooked \/ d.device # NoClient => Active(d)
  /\ d.source \in D \cup {NoSource}
  /\ d.selection \in Selected \cup {NoSource}
  /\ OffersOK(d.offers, d.kb, d.selection, D)

DragSources == {D \in SUBSET Sources : D \cap Selected = {}}

\* The client with the focus knows the selection.
Knows(d) == d.kb \in devices => d.told = d.selection

\* What a change of the keyboard focus and one of the pointer's leave alone.
SameDrag(d, e) ==
  /\ e.source = d.source /\ e.hooked = d.hooked
  /\ e.cursor = d.cursor /\ e.heard = d.heard /\ e.selection = d.selection
SamePointer(d, e) ==
  e.ptr = d.ptr /\ e.dnd = d.dnd /\ e.device = d.device /\ e.inside = d.inside
SameKeyboard(d, e) == e.kb = d.kb /\ e.told = d.told

\* The client with the focus is sent the selection, if it has a device.
LEMMA SelectionSent ==
  ASSUME NEW D \in DragSources, NEW d, SeatOK(d, D), devices \subseteq Clients,
         NEW e, e = SendSelection(d, d.selection)
  PROVE  /\ SeatOK(e, D) /\ SameDrag(d, e) /\ SamePointer(d, e) /\ e.kb = d.kb
         /\ Knows(e)
<1> USE DEF SameDrag, SamePointer, Knows
<1>1. CASE d.kb \notin devices
  BY <1>1 DEF SendSelection
<1>2. CASE d.kb \in devices
  <2> DEFINE o == IF d.selection = NoSource THEN d.offers
                  ELSE Append(d.offers, Offer(d.selection, d.kb))
  <2>1. e = [d EXCEPT !.told = d.selection, !.offers = o]
    BY <1>2 DEF SendSelection
  <2>2. OffersOK(o, d.kb, d.selection, D)
    <3>1. CASE d.selection = NoSource
      BY <3>1 DEF SeatOK
    <3>2. CASE d.selection # NoSource
      <4>1. d.selection \in Selected /\ d.selection \in Sources /\ d.kb \in Clients
            /\ D \in SUBSET Sources /\ d.kb \in MaybeClient
        BY <1>2, <3>2 DEF SeatOK, Selected, DragSources, MaybeClient
      <4>2. OfferOK(Offer(d.selection, d.kb), d.kb, d.selection, D)
        BY <4>1 DEF OfferOK, Offer
      <4> QED  BY <3>2, <4>1, <4>2, AppendedOffer DEF SeatOK
    <3> QED  BY <3>1, <3>2
  <2>3. o \in Seq(AnOffer)
    BY <2>2 DEF OffersOK
  <2> HIDE DEF o
  <2>4. /\ e \in SeatType /\ e.offers = o /\ e.told = d.selection /\ e.kb = d.kb
        /\ SamePointer(d, e) /\ SameDrag(d, e)
    BY <2>1, <2>3 DEF SeatOK, SeatType
  <2> QED  BY <2>2, <2>4 DEF SeatOK, Active
<1> QED  BY <1>1, <1>2

\* A change of the keyboard focus leaves the drag alone.
LEMMA KeyboardMoves ==
  ASSUME NEW D \in DragSources, NEW d, SeatOK(d, D), NEW c \in MaybeClient,
         devices \subseteq Clients, NEW e, e = SetKeyboardFocus(d, c)
  PROVE  /\ SeatOK(e, D) /\ SameDrag(d, e) /\ SamePointer(d, e) /\ e.kb = c
         /\ c = d.kb => e = d
         /\ c # d.kb => Knows(e)
<1>1. CASE c = d.kb
  BY <1>1 DEF SetKeyboardFocus, SameDrag, SamePointer
<1>2. CASE c # d.kb
  <2> DEFINE m == [d EXCEPT !.kb = c, !.told = NoSource]
             k == [m EXCEPT !.offers = Killed(m.offers, "selection")]
  <2>1. m \in SeatType /\ m.kb = c /\ m.offers = d.offers /\ SamePointer(d, m) /\ SameDrag(d, m)
    BY DEF SeatOK, SeatType, SamePointer, SameDrag
  <2>2. OffersOK(Killed(m.offers, "selection"), c, d.selection, D)
    BY <2>1, KilledSelection DEF SeatOK
  <2>3. /\ k \in SeatType /\ k.kb = c /\ k.offers = Killed(m.offers, "selection")
        /\ SamePointer(d, k) /\ SameDrag(d, k)
    BY <2>1, <2>2 DEF OffersOK, SeatType, SamePointer, SameDrag
  <2>4. e = SendSelection(k, k.selection)
    BY <1>2, <2>1, <2>3 DEF SetKeyboardFocus, OnKeyboardFocus, SameDrag
  <2> HIDE DEF m, k
  <2>5. SeatOK(k, D)
    BY <2>2, <2>3 DEF SeatOK, Active, SamePointer, SameDrag
  <2> QED  BY <1>2, <2>3, <2>4, <2>5, SelectionSent DEF SameDrag, SamePointer
<1> QED  BY <1>1, <1>2

\* At most one device is between enter and leave, the one that is entered.
Tidy(d) == d.inside \subseteq {d.device}

\* The clients are without the pointer while something is dragged.
Taken(d) == Active(d) => d.ptr = NoClient

\* The drag moves to another surface.
LEMMA DragUpdated ==
  ASSUME NEW D \in DragSources, NEW d, SeatOK(d, D), devices \subseteq Clients,
         NEW e, e = UpdateDrag(d)
  PROVE  /\ SeatOK(e, D) /\ SameDrag(d, e) /\ SameKeyboard(d, e)
         /\ e.ptr = d.ptr /\ e.dnd = d.dnd
         /\ Tidy(d) => Tidy(e)
         /\ ~Active(d) => e = d
<1> USE DEF SameDrag, SameKeyboard
<1>1. CASE ~Active(d)
  BY <1>1 DEF UpdateDrag
<1>2. CASE Active(d)
  <2> DEFINE left == [d EXCEPT !.inside = @ \ {d.device}]
             o == Append(d.offers, Offer(d.source, d.dnd))
  <2>1. /\ left \in SeatType /\ left.inside = d.inside \ {d.device} /\ left.device = d.device
        /\ left.offers = d.offers /\ SameDrag(d, left) /\ SameKeyboard(d, left)
        /\ left.ptr = d.ptr /\ left.dnd = d.dnd
    BY DEF SeatOK, SeatType
  <2>2. CASE d.dnd = NoClient
    <3>1. e = left
      BY <1>2, <2>2 DEF UpdateDrag
    <3> HIDE DEF left
    <3> QED  BY <1>2, <2>1, <3>1 DEF SeatOK, Active, Tidy
  <2>3. CASE d.dnd # NoClient /\ d.dnd \notin devices
    <3>1. e = [left EXCEPT !.device = NoClient]
      BY <1>2, <2>3 DEF UpdateDrag
    <3> HIDE DEF left
    <3>2. /\ e \in SeatType /\ e.inside = left.inside /\ e.device = NoClient
          /\ e.offers = left.offers /\ SameDrag(left, e) /\ SameKeyboard(left, e)
          /\ e.ptr = left.ptr /\ e.dnd = left.dnd
      BY <2>1, <3>1 DEF SeatType, MaybeClient
    <3> QED  BY <1>2, <2>1, <3>2 DEF SeatOK, Active, Tidy
  <2>4. CASE d.dnd # NoClient /\ d.dnd \in devices
    <3> DEFINE n == left.inside \cup {d.dnd}
    <3>1. e = [left EXCEPT !.device = d.dnd, !.inside = n, !.offers = o]
      BY <1>2, <2>1, <2>4 DEF UpdateDrag
    <3>2. d.source \in Sources /\ d.source \in D /\ d.dnd \in Clients /\ d.kb \in MaybeClient
          /\ d.source \notin Selected /\ D \in SUBSET Sources
      BY <1>2, <2>4 DEF SeatOK, SeatType, Active, DragSources
    <3>3. OfferOK(Offer(d.source, d.dnd), d.kb, d.selection, D)
      BY <3>2 DEF OfferOK, Offer
    <3>4. OffersOK(o, d.kb, d.selection, D)
      BY <3>2, <3>3, AppendedOffer DEF SeatOK
    <3>5. o \in Seq(AnOffer)
      BY <3>4 DEF OffersOK
    <3>6. n \in SUBSET Clients /\ d.dnd \in MaybeClient
      BY <2>1, <3>2 DEF SeatType, MaybeClient
    <3>7. Tidy(d) => n \subseteq {d.dnd}
      BY <2>1 DEF Tidy
    <3> HIDE DEF left, o, n
    <3>8. /\ e \in SeatType /\ e.inside = n /\ e.device = d.dnd
          /\ e.offers = o /\ SameDrag(left, e) /\ SameKeyboard(left, e)
          /\ e.ptr = left.ptr /\ e.dnd = left.dnd
      BY <2>1, <3>1, <3>5, <3>6 DEF SeatType
    <3> QED  BY <1>2, <2>1, <3>4, <3>7, <3>8 DEF SeatOK, Active, Tidy
  <2> QED  BY <2>2, <2>3, <2>4
<1> QED  BY <1>1, <1>2

LEMMA DragRefocused ==
  ASSUME NEW D \in DragSources, NEW d, SeatOK(d, D), devices \subseteq Clients,
         NEW e, e = OnDndPointerFocus(d)
  PROVE  /\ SeatOK(e, D) /\ SameDrag(d, e) /\ SameKeyboard(d, e)
         /\ e.ptr = d.ptr /\ e.dnd = d.dnd
         /\ Tidy(d) => Tidy(e)
<1> DEFINE k == [d EXCEPT !.offers = Killed(@, "drag")]
<1>1. OffersOK(Killed(d.offers, "drag"), d.kb, d.selection, D)
  BY KilledDrag DEF SeatOK
<1>2. /\ k \in SeatType /\ SameDrag(d, k) /\ SameKeyboard(d, k) /\ SamePointer(d, k)
      /\ k.offers = Killed(d.offers, "drag")
  BY <1>1 DEF SeatOK, SeatType, OffersOK, SameDrag, SameKeyboard, SamePointer
<1>3. e = UpdateDrag(k)
  BY DEF OnDndPointerFocus
<1> HIDE DEF k
<1>4. SeatOK(k, D) /\ (Tidy(d) => Tidy(k))
  BY <1>1, <1>2 DEF SeatOK, Active, SameDrag, SameKeyboard, SamePointer, Tidy
<1> QED  BY <1>2, <1>3, <1>4, DragUpdated DEF SameDrag, SameKeyboard, SamePointer

\* A change of the pointer focus leaves the keyboard alone.
LEMMA PointerMoves ==
  ASSUME NEW D \in DragSources, NEW d, SeatOK(d, D), devices \subseteq Clients,
         NEW c \in MaybeClient, NEW e, e = SetPointerFocus(d, c)
  PROVE  /\ SeatOK(e, D) /\ SameDrag(d, e) /\ SameKeyboard(d, e)
         /\ Tidy(d) => Tidy(e)
         /\ Taken(d) => Taken(e)
         /\ ~Active(d) \/ c = NoClient => e.ptr = c
<1> DEFINE m == [d EXCEPT !.dnd = c]
           n == [d EXCEPT !.ptr = c, !.dnd = c]
<1>1. /\ m \in SeatType /\ SameDrag(d, m) /\ SameKeyboard(d, m) /\ m.device = d.device
      /\ m.inside = d.inside /\ m.offers = d.offers /\ m.ptr = d.ptr
      /\ n \in SeatType /\ SameDrag(d, n) /\ SameKeyboard(d, n) /\ n.device = d.device
      /\ n.inside = d.inside /\ n.offers = d.offers /\ n.ptr = c
  BY DEF SeatOK, SeatType, SameDrag, SameKeyboard
<1>2. \/ e = d /\ (~Active(d) \/ c = NoClient => d.ptr = c)
      \/ Active(d) /\ c # NoClient /\ e = OnDndPointerFocus(m)
      \/ e = n /\ (Active(d) => d.ptr # NoClient)
      \/ ~Active(d) /\ e = OnDndPointerFocus(n)
  BY DEF SetPointerFocus
<1> HIDE DEF m, n
<1>3. SeatOK(m, D) /\ SeatOK(n, D) /\ (Tidy(d) => Tidy(m) /\ Tidy(n))
  BY <1>1 DEF SeatOK, Active, SameDrag, SameKeyboard, Tidy
<1>4. /\ SeatOK(OnDndPointerFocus(m), D) /\ SeatOK(OnDndPointerFocus(n), D)
      /\ SameDrag(m, OnDndPointerFocus(m)) /\ SameKeyboard(m, OnDndPointerFocus(m))
      /\ SameDrag(n, OnDndPointerFocus(n)) /\ SameKeyboard(n, OnDndPointerFocus(n))
      /\ Tidy(m) => Tidy(OnDndPointerFocus(m))
      /\ Tidy(n) => Tidy(OnDndPointerFocus(n))
      /\ OnDndPointerFocus(n).ptr = c /\ OnDndPointerFocus(m).ptr = d.ptr
  BY <1>1, <1>3, DragRefocused
<1> QED  BY <1>1, <1>2, <1>3, <1>4 DEF SameDrag, SameKeyboard, Taken, Active

\* A client that gets the focus hears of the selection, and one that has it
\* goes on knowing it.
StillKnows(d, e) ==
  /\ Knows(d) => Knows(e)
  /\ e.kb # d.kb => Knows(e)

\* Moving the pointer, which may move both.
LEMMA MouseMoves ==
  ASSUME NEW D \in DragSources, NEW d, SeatOK(d, D), devices \subseteq Clients,
         NEW u \in MaybeClient, NEW h \in BOOLEAN, NEW follow \in BOOLEAN,
         NEW e, e = MouseMove(d, u, h, follow)
  PROVE  /\ SeatOK(e, D) /\ SameDrag(d, e) /\ StillKnows(d, e)
         /\ Tidy(d) => Tidy(e)
         /\ Taken(d) => Taken(e)
         /\ ~canvas /\ ~Active(d) /\ d.ptr = NoClient => e.ptr = u
<1>1. PICK f \in {u, d.ptr} :
        /\ d.ptr = NoClient => f = u
        /\ \/ canvas /\ e = d
           \/ e = SetPointerFocus(d, f)
           \/ e = SetPointerFocus(SetKeyboardFocus(d, f), f)
  BY DEF MouseMove
<1>2. f \in MaybeClient
  BY DEF SeatOK, SeatType
<1>3. CASE e = SetPointerFocus(d, f)
  BY <1>1, <1>2, <1>3, PointerMoves DEF StillKnows, Knows, SameKeyboard, SameDrag
<1>4. CASE e = SetPointerFocus(SetKeyboardFocus(d, f), f)
  <2> DEFINE k == SetKeyboardFocus(d, f)
  <2>1. /\ SeatOK(k, D) /\ SameDrag(d, k) /\ SamePointer(d, k) /\ k.kb = f
        /\ f = d.kb => k = d
        /\ f # d.kb => Knows(k)
    BY <1>2, KeyboardMoves
  <2>2. e = SetPointerFocus(k, f)
    BY <1>4
  <2> HIDE DEF k
  <2>3. /\ SeatOK(e, D) /\ SameDrag(k, e) /\ SameKeyboard(k, e)
        /\ Tidy(k) => Tidy(e)
        /\ Taken(k) => Taken(e)
        /\ ~Active(k) => e.ptr = f
    BY <1>2, <2>1, <2>2, PointerMoves
  <2> QED  BY <1>1, <2>1, <2>3 DEF StillKnows, Knows, SameKeyboard, SameDrag, SamePointer, Tidy,
                                   Taken, Active
<1>5. CASE canvas /\ e = d
  BY <1>5 DEF StillKnows, SameDrag
<1> QED  BY <1>1, <1>3, <1>4, <1>5

\* The focus is taken from the clients and given back, and so is the pointer's.
LEMMA EnterEventsResent ==
  ASSUME NEW D \in DragSources, NEW d, SeatOK(d, D), devices \subseteq Clients,
         NEW e, e = ResendEnterEvents(d)
  PROVE  /\ SeatOK(e, D) /\ SameDrag(d, e) /\ StillKnows(d, e)
         /\ Tidy(d) => Tidy(e)
         /\ ~Active(d) => e.ptr = d.ptr
<1>1. NoClient \in MaybeClient /\ d.kb \in MaybeClient /\ d.ptr \in MaybeClient
  BY DEF SeatOK, SeatType, MaybeClient
<1> DEFINE k == SetKeyboardFocus(d, NoClient)
           gone == SetPointerFocus(k, NoClient)
           back == SetKeyboardFocus(gone, d.kb)
<1>2. /\ SeatOK(k, D) /\ SameDrag(d, k) /\ SamePointer(d, k) /\ k.kb = NoClient
      /\ NoClient = d.kb => k = d
  BY <1>1, KeyboardMoves
<1> HIDE DEF k
<1>3. /\ SeatOK(gone, D) /\ SameDrag(k, gone) /\ SameKeyboard(k, gone)
      /\ Tidy(k) => Tidy(gone)
  BY <1>1, <1>2, PointerMoves
<1> HIDE DEF gone
<1>4. /\ SeatOK(back, D) /\ SameDrag(gone, back) /\ SamePointer(gone, back) /\ back.kb = d.kb
      /\ d.kb = gone.kb => back = gone
      /\ d.kb # gone.kb => Knows(back)
  BY <1>1, <1>3, KeyboardMoves
<1>5. e = SetPointerFocus(back, d.ptr)
  BY DEF ResendEnterEvents, k, gone
<1> HIDE DEF back
<1>6. /\ SeatOK(e, D) /\ SameDrag(back, e) /\ SameKeyboard(back, e)
      /\ Tidy(back) => Tidy(e)
      /\ ~Active(back) => e.ptr = d.ptr
  BY <1>1, <1>4, <1>5, PointerMoves
<1>7. e.kb = d.kb /\ (Knows(d) => Knows(e))
  BY <1>2, <1>3, <1>4, <1>6 DEF Knows, SameKeyboard, SameDrag
<1>8. SameDrag(d, e) /\ (Tidy(d) => Tidy(e))
  BY <1>2, <1>3, <1>4, <1>6 DEF SameDrag, Tidy, SamePointer
<1> QED  BY <1>2, <1>3, <1>4, <1>6, <1>7, <1>8 DEF StillKnows, Active, SameDrag

\* After a drag the pointer is where it points to, unless the canvas takes the move.
LEMMA InputRefreshed ==
  ASSUME NEW D \in DragSources, NEW d, SeatOK(d, D), devices \subseteq Clients,
         under \in MaybeClient, held \in BOOLEAN, NEW follow \in BOOLEAN,
         NEW e, e = Refreshed(d, follow)
  PROVE  /\ SeatOK(e, D) /\ SameDrag(d, e) /\ StillKnows(d, e)
         /\ Tidy(d) => Tidy(e)
         /\ ~canvas /\ ~Active(d) /\ d.ptr = NoClient => e.ptr = under
<1> DEFINE k == MouseMove(d, under, held, follow)
<1>1. /\ SeatOK(k, D) /\ SameDrag(d, k) /\ StillKnows(d, k)
      /\ Tidy(d) => Tidy(k)
      /\ ~canvas /\ ~Active(d) /\ d.ptr = NoClient => k.ptr = under
  BY MouseMoves
<1>2. e = ResendEnterEvents(k)
  BY DEF Refreshed
<1> HIDE DEF k
<1>3. /\ SeatOK(e, D) /\ SameDrag(k, e) /\ StillKnows(k, e)
      /\ Tidy(k) => Tidy(e)
      /\ ~Active(k) => e.ptr = k.ptr
  BY <1>1, <1>2, EnterEventsResent
<1> QED  BY <1>1, <1>3 DEF SameDrag, StillKnows, Active

(***************************************************************************)
(* The ends of a drag.                                                     *)
(***************************************************************************)

\* Messages to sources and devices are added to what was heard.
LEMMA Heard ==
  ASSUME NEW D, NEW d, SeatOK(d, D), NEW m \in Messages, NEW e,
         e = Hear(d, m[1], m[2])
  PROVE  /\ SeatOK(e, D) /\ e.heard = d.heard \cup {m}
         /\ SameKeyboard(d, e) /\ SamePointer(d, e)
         /\ e.source = d.source /\ e.hooked = d.hooked /\ e.cursor = d.cursor
         /\ e.selection = d.selection /\ e.offers = d.offers
<1> DEFINE h == d.heard \cup {m}
<1>1. m = <<m[1], m[2]>>
  BY DEF Messages
<1>2. e = [d EXCEPT !.heard = h]
  BY <1>1 DEF Hear
<1>3. h \in SUBSET Messages
  BY DEF SeatOK, SeatType
<1> HIDE DEF h
<1>4. /\ e \in SeatType /\ e.heard = h /\ e.offers = d.offers
      /\ SameKeyboard(d, e) /\ SamePointer(d, e)
      /\ e.source = d.source /\ e.hooked = d.hooked /\ e.cursor = d.cursor
      /\ e.selection = d.selection
  BY <1>2, <1>3 DEF SeatOK, SeatType, SameKeyboard, SamePointer
<1> QED  BY <1>4 DEF SeatOK, Active, SameKeyboard, SamePointer, h

\* What a drag that is over leaves behind.
LEMMA DragIsOver ==
  ASSUME NEW D, NEW d, SeatOK(d, D), NEW e, e = Over(d)
  PROVE  /\ SeatOK(e, D) /\ SameKeyboard(d, e)
         /\ ~Active(e) /\ ~e.hooked /\ e.device = NoClient
         /\ e.inside = d.inside /\ e.cursor = d.cursor /\ e.heard = d.heard
         /\ e.selection = d.selection /\ e.ptr = d.ptr
<1>1. /\ e \in SeatType /\ SameKeyboard(d, e) /\ e.offers = d.offers
      /\ e.source = NoSource /\ e.hooked = FALSE /\ e.device = NoClient
      /\ e.inside = d.inside /\ e.cursor = d.cursor /\ e.heard = d.heard
      /\ e.selection = d.selection /\ e.ptr = d.ptr
  BY DEF Over, SeatOK, SeatType, SameKeyboard, MaybeClient
<1> QED  BY <1>1 DEF SeatOK, Active, SameKeyboard

\* The entered device is left, the cursor given back, the hooks taken out.
Left(d) == [d EXCEPT !.inside = @ \ {d.device}, !.cursor = FALSE, !.hooked = FALSE]

LEMMA DeviceIsLeft ==
  ASSUME NEW D, NEW d, SeatOK(d, D), NEW e, e = Left(d)
  PROVE  /\ SeatOK(e, D) /\ SameKeyboard(d, e)
         /\ Tidy(d) => e.inside = {}
         /\ e.cursor = FALSE /\ e.hooked = FALSE
         /\ e.source = d.source /\ e.device = d.device
         /\ e.selection = d.selection /\ e.heard = d.heard
         /\ e.ptr = d.ptr
<1> DEFINE n == d.inside \ {d.device}
<1>1. n \in SUBSET Clients /\ e = [d EXCEPT !.inside = n, !.cursor = FALSE, !.hooked = FALSE]
  BY DEF SeatOK, SeatType, Left
<1>2. Tidy(d) => n = {}
  BY DEF Tidy
<1> HIDE DEF n
<1>3. /\ e \in SeatType /\ e.offers = d.offers /\ SameKeyboard(d, e) /\ e.inside = n
      /\ e.cursor = FALSE /\ e.hooked = FALSE
      /\ e.source = d.source /\ e.device = d.device
      /\ e.selection = d.selection /\ e.heard = d.heard
      /\ e.ptr = d.ptr
  BY <1>1 DEF SeatOK, SeatType, SameKeyboard
<1> QED  BY <1>2, <1>3 DEF SeatOK, SameKeyboard, Active

\* An abort leaves no drag, device, cursor or hook behind, and tells the source.
LEMMA DragAborted ==
  ASSUME NEW D \in DragSources, NEW d, SeatOK(d, D), devices \subseteq Clients,
         under \in MaybeClient, held \in BOOLEAN, NEW follow \in BOOLEAN,
         NEW e, e = AbortDrag(d, follow)
  PROVE  /\ SeatOK(e, D) /\ StillKnows(d, e) /\ e.selection = d.selection
         /\ ~Active(e) /\ ~e.hooked /\ ~e.cursor
         /\ Tidy(d) => Tidy(e)
         /\ ~Active(d) => e.heard = d.heard
         /\ Active(d) => e.heard = d.heard \cup {<<d.source, "cancelled">>}
         /\ Active(d) /\ Taken(d) /\ ~canvas => e.ptr = under
<1> DEFINE left == Left(d)
<1>1. /\ SeatOK(left, D) /\ SameKeyboard(d, left)
      /\ Tidy(d) => left.inside = {}
      /\ left.cursor = FALSE /\ left.hooked = FALSE
      /\ left.source = d.source /\ left.device = d.device
      /\ left.selection = d.selection /\ left.heard = d.heard
      /\ left.ptr = d.ptr
  BY DeviceIsLeft
<1>2. e = IF ~Active(d) /\ d.device = NoClient THEN left
          ELSE Refreshed(Over(IF Active(d) THEN Hear(left, d.source, "cancelled") ELSE left), follow)
  BY DEF AbortDrag, Left
<1> HIDE DEF left
<1>3. CASE ~Active(d) /\ d.device = NoClient
  BY <1>1, <1>2, <1>3 DEF Active, Tidy, StillKnows, Knows, SameKeyboard
<1>4. CASE Active(d) \/ d.device # NoClient
  <2>1. Active(d)
    BY <1>4 DEF SeatOK
  <2> DEFINE m == <<d.source, "cancelled">>
             told == Hear(left, d.source, "cancelled")
             over == Over(told)
  <2>2. m \in Messages /\ m[1] = d.source /\ m[2] = "cancelled"
    BY <2>1 DEF Messages, SeatOK, SeatType, Active
  <2>3. told = Hear(left, m[1], m[2])
    OBVIOUS
  <2>4. e = Refreshed(over, follow)
    BY <1>2, <2>1
  <2> HIDE DEF m, told, over
  <2>5. /\ SeatOK(told, D) /\ told.heard = d.heard \cup {m} /\ SameKeyboard(left, told)
        /\ SamePointer(left, told)
        /\ told.hooked = left.hooked /\ told.cursor = left.cursor
        /\ told.selection = left.selection
    <3> \A x \in Messages : \A y :
          y = Hear(left, x[1], x[2]) =>
            /\ SeatOK(y, D) /\ y.heard = left.heard \cup {x}
            /\ SameKeyboard(left, y) /\ SamePointer(left, y)
            /\ y.source = left.source /\ y.hooked = left.hooked /\ y.cursor = left.cursor
            /\ y.selection = left.selection /\ y.offers = left.offers
      BY <1>1, Heard
    <3> QED  BY <1>1, <2>2, <2>3
  <2>6. /\ SeatOK(over, D) /\ SameKeyboard(told, over)
        /\ ~Active(over) /\ ~over.hooked /\ over.device = NoClient
        /\ over.inside = told.inside /\ over.cursor = told.cursor /\ over.heard = told.heard
        /\ over.selection = told.selection /\ over.ptr = told.ptr
    BY <2>5, DragIsOver DEF over
  <2>7. /\ SeatOK(e, D) /\ SameDrag(over, e) /\ StillKnows(over, e)
        /\ Tidy(over) => Tidy(e)
        /\ ~canvas /\ over.ptr = NoClient => e.ptr = under
    BY <2>4, <2>6, InputRefreshed
  <2>8. e.heard = d.heard \cup {m} /\ e.selection = d.selection /\ ~e.cursor /\ ~e.hooked /\ ~Active(e)
    BY <1>1, <2>5, <2>6, <2>7 DEF SameDrag, Active
  <2>9. Tidy(d) => Tidy(e)
    BY <1>1, <2>5, <2>6, <2>7 DEF Tidy, SamePointer
  <2>10. StillKnows(d, e)
    BY <1>1, <2>5, <2>6, <2>7 DEF StillKnows, Knows, SameKeyboard
  <2>11. over.ptr = d.ptr
    BY <1>1, <2>5, <2>6 DEF SamePointer
  <2> QED  BY <2>1, <2>7, <2>8, <2>9, <2>10, <2>11 DEF m, Taken
<1> QED  BY <1>3, <1>4

\* A drag that is completed keeps the cursor, and a device it has not left.
LEMMA DragCompleted ==
  ASSUME NEW D \in DragSources, NEW d, SeatOK(d, D), devices \subseteq Clients,
         under \in MaybeClient, held \in BOOLEAN, NEW follow \in BOOLEAN,
         NEW e, e = CompleteDrag(d, follow)
  PROVE  /\ SeatOK(e, D) /\ StillKnows(d, e) /\ e.selection = d.selection
         /\ ~Active(e) /\ ~e.hooked /\ e.cursor = d.cursor
         /\ d.inside = {} => Tidy(e)
         /\ ~Active(d) => e.heard = d.heard
         /\ Active(d) => e.heard = d.heard \cup {<<d.source, "finished">>}
         /\ Active(d) /\ Taken(d) /\ ~canvas => e.ptr = under
<1>1. e = IF ~Active(d) /\ d.device = NoClient THEN d
          ELSE Refreshed(Over(IF Active(d) THEN Hear(d, d.source, "finished") ELSE d), follow)
  BY DEF CompleteDrag
<1>2. CASE ~Active(d) /\ d.device = NoClient
  BY <1>1, <1>2 DEF Active, Tidy, StillKnows, Knows, SeatOK
<1>3. CASE Active(d) \/ d.device # NoClient
  <2>1. Active(d)
    BY <1>3 DEF SeatOK
  <2> DEFINE m == <<d.source, "finished">>
             told == Hear(d, d.source, "finished")
             over == Over(told)
  <2>2. m \in Messages /\ m[1] = d.source /\ m[2] = "finished"
    BY <2>1 DEF Messages, SeatOK, SeatType, Active
  <2>3. told = Hear(d, m[1], m[2])
    OBVIOUS
  <2>4. e = Refreshed(over, follow)
    BY <1>1, <2>1
  <2> HIDE DEF m, told, over
  <2>5. /\ SeatOK(told, D) /\ told.heard = d.heard \cup {m} /\ SameKeyboard(d, told)
        /\ SamePointer(d, told)
        /\ told.hooked = d.hooked /\ told.cursor = d.cursor
        /\ told.selection = d.selection
    <3> \A x \in Messages : \A y :
          y = Hear(d, x[1], x[2]) =>
            /\ SeatOK(y, D) /\ y.heard = d.heard \cup {x}
            /\ SameKeyboard(d, y) /\ SamePointer(d, y)
            /\ y.source = d.source /\ y.hooked = d.hooked /\ y.cursor = d.cursor
            /\ y.selection = d.selection
      BY Heard
    <3> QED  BY <2>2, <2>3
  <2>6. /\ SeatOK(over, D) /\ SameKeyboard(told, over)
        /\ ~Active(over) /\ ~over.hooked /\ over.device = NoClient
        /\ over.inside = told.inside /\ over.cursor = told.cursor /\ over.heard = told.heard
        /\ over.selection = told.selection /\ over.ptr = told.ptr
    BY <2>5, DragIsOver DEF over
  <2>7. /\ SeatOK(e, D) /\ SameDrag(over, e) /\ StillKnows(over, e)
        /\ Tidy(over) => Tidy(e)
        /\ ~canvas /\ over.ptr = NoClient => e.ptr = under
    BY <2>4, <2>6, InputRefreshed
  <2>8. e.heard = d.heard \cup {m} /\ e.selection = d.selection /\ e.cursor = d.cursor /\ ~e.hooked /\ ~Active(e)
    BY <2>5, <2>6, <2>7 DEF SameDrag, Active
  <2>9. d.inside = {} => Tidy(e)
    BY <2>5, <2>6, <2>7 DEF Tidy, SamePointer
  <2>10. StillKnows(d, e)
    BY <2>5, <2>6, <2>7 DEF StillKnows, Knows, SameKeyboard
  <2>11. over.ptr = d.ptr
    BY <2>5, <2>6 DEF SamePointer
  <2> QED  BY <2>1, <2>7, <2>8, <2>9, <2>10, <2>11 DEF m, Taken
<1> QED  BY <1>2, <1>3

\* A drop leaves the device and keeps the drag, or aborts it.
LEMMA DragDropped ==
  ASSUME NEW D \in DragSources, NEW d, SeatOK(d, D), devices \subseteq Clients,
         under \in MaybeClient, held \in BOOLEAN, NEW follow \in BOOLEAN,
         NEW e, e = DropDrag(d, follow)
  PROVE  /\ SeatOK(e, D) /\ StillKnows(d, e) /\ e.selection = d.selection
         /\ d.hooked => ~e.hooked /\ ~e.cursor
         /\ Tidy(d) => Tidy(e)
         /\ Taken(d) => Taken(e)
         /\ e.source # d.source => <<d.source, "cancelled">> \in e.heard
         /\ Active(d) /\ ~Active(e) /\ Taken(d) /\ ~canvas => e.ptr = under
<1>1. CASE ~Active(d)
  <2>1. e = d /\ ~d.hooked
    BY <1>1 DEF DropDrag, SeatOK
  <2> QED  BY <2>1 DEF StillKnows
<1>2. CASE Active(d) /\ (d.device = NoClient \/ ~WasDragSuccessful(d))
  <2>1. e = AbortDrag(d, follow)
    BY <1>2 DEF DropDrag
  <2> QED  BY <1>2, <2>1, DragAborted DEF Taken, Active
<1>3. CASE Active(d) /\ d.device # NoClient /\ WasDragSuccessful(d)
  <2> DEFINE m == <<d.device, "drop">>
             told == Hear(d, d.device, "drop")
             n == told.inside \ {told.device}
  <2>1. m \in Messages /\ m[1] = d.device /\ m[2] = "drop"
    BY <1>3 DEF Messages, SeatOK, SeatType, MaybeClient
  <2>2. told = Hear(d, m[1], m[2])
    OBVIOUS
  <2>3. /\ SeatOK(told, D) /\ told.heard = d.heard \cup {m} /\ SameKeyboard(d, told)
        /\ SamePointer(d, told) /\ told.source = d.source
        /\ told.selection = d.selection
    <3> HIDE DEF m, told
    <3> \A x \in Messages : \A y :
          y = Hear(d, x[1], x[2]) =>
            /\ SeatOK(y, D) /\ y.heard = d.heard \cup {x}
            /\ SameKeyboard(d, y) /\ SamePointer(d, y)
            /\ y.source = d.source /\ y.hooked = d.hooked /\ y.cursor = d.cursor
            /\ y.selection = d.selection
      BY Heard
    <3> QED  BY <2>1, <2>2
  <2>4. e = [told EXCEPT !.inside = told.inside \ {d.device}, !.cursor = FALSE, !.hooked = FALSE]
    BY <1>3 DEF DropDrag
  <2> HIDE DEF told, m, n
  <2>5. e = Left(told)
    BY <2>3, <2>4 DEF Left, SamePointer
  <2>6. /\ SeatOK(e, D) /\ SameKeyboard(told, e)
        /\ Tidy(told) => e.inside = {}
        /\ e.cursor = FALSE /\ e.hooked = FALSE
        /\ e.source = told.source /\ e.device = told.device
        /\ e.selection = told.selection /\ e.heard = told.heard
        /\ e.ptr = told.ptr
    <3>1. SeatOK(Left(told), D) /\ SameKeyboard(told, Left(told))
      BY <2>3, DeviceIsLeft
    <3>2. Tidy(told) => Left(told).inside = {}
      BY <2>3, DeviceIsLeft
    <3>3. /\ Left(told).source = told.source /\ Left(told).device = told.device
          /\ Left(told).selection = told.selection /\ Left(told).heard = told.heard
          /\ Left(told).cursor = FALSE /\ Left(told).hooked = FALSE
          /\ Left(told).ptr = told.ptr
      BY <2>3 DEF Left, SeatOK, SeatType
    <3> QED  BY <2>5, <3>1, <3>2, <3>3
  <2> QED  BY <1>3, <2>3, <2>6 DEF Tidy, Taken, Active, SamePointer, SameKeyboard, StillKnows, Knows
<1> QED  BY <1>1, <1>2, <1>3

\* A drag that begins takes the place of an older one, which is aborted.
LEMMA DragInitiated ==
  ASSUME NEW D \in DragSources, NEW d, SeatOK(d, D), devices \subseteq Clients,
         under \in MaybeClient, held \in BOOLEAN, NEW follow \in BOOLEAN,
         NEW s \in D, NEW e, e = InitiateDrag(d, s, follow)
  PROVE  /\ SeatOK(e, D) /\ StillKnows(d, e) /\ e.selection = d.selection
         /\ Active(e) /\ e.hooked /\ e.ptr = NoClient
         /\ Tidy(d) => Tidy(e)
         /\ Active(d) => <<d.source, "cancelled">> \in e.heard
<1> DEFINE free == IF Active(d) THEN AbortDrag(d, follow) ELSE d
           begun == [free EXCEPT !.source = s, !.cursor = TRUE, !.hooked = TRUE]
           out == SetPointerFocus(begun, NoClient)
           kept == [out EXCEPT !.dnd = begun.dnd]
<1>1. /\ SeatOK(free, D) /\ StillKnows(d, free) /\ free.selection = d.selection
      /\ Tidy(d) => Tidy(free)
      /\ Active(d) => <<d.source, "cancelled">> \in free.heard
  BY DragAborted DEF StillKnows
<1>2. s \in Sources /\ s # NoSource /\ NoClient \in MaybeClient
  BY DataAssumption DEF DragSources, MaybeClient
<1> HIDE DEF free
<1>3. /\ begun \in SeatType /\ begun.source = s /\ begun.hooked = TRUE
      /\ begun.offers = free.offers /\ begun.selection = free.selection
      /\ begun.heard = free.heard /\ SameKeyboard(free, begun) /\ SamePointer(free, begun)
  BY <1>1, <1>2 DEF SeatOK, SeatType, SameKeyboard, SamePointer
<1> HIDE DEF begun
<1>4. SeatOK(begun, D) /\ (Tidy(free) => Tidy(begun))
  BY <1>1, <1>2, <1>3 DEF SeatOK, Active, SameKeyboard, SamePointer, Tidy
<1>5. /\ SeatOK(out, D) /\ SameDrag(begun, out) /\ SameKeyboard(begun, out)
      /\ Tidy(begun) => Tidy(out)
      /\ out.ptr = NoClient
  BY <1>2, <1>4, PointerMoves
<1> HIDE DEF out
<1>6. begun.dnd \in MaybeClient
  BY <1>3 DEF SeatType
<1>7. /\ kept \in SeatType /\ SameDrag(out, kept) /\ SameKeyboard(out, kept)
      /\ kept.inside = out.inside /\ kept.device = out.device /\ kept.offers = out.offers
      /\ kept.ptr = out.ptr
  BY <1>5, <1>6 DEF SeatOK, SeatType, SameKeyboard, SameDrag
<1>8. e = UpdateDrag(kept)
  BY DEF InitiateDrag, free, begun, out
<1> HIDE DEF kept
<1>9. SeatOK(kept, D) /\ (Tidy(out) => Tidy(kept))
  BY <1>5, <1>7 DEF SeatOK, Active, SameKeyboard, SameDrag, Tidy
<1>10. /\ SeatOK(e, D) /\ SameDrag(kept, e) /\ SameKeyboard(kept, e)
       /\ Tidy(kept) => Tidy(e)
       /\ e.ptr = kept.ptr
  BY <1>8, <1>9, DragUpdated
<1>11. SameDrag(begun, e) /\ SameKeyboard(free, e)
  BY <1>3, <1>5, <1>7, <1>10 DEF SameDrag, SameKeyboard
<1>12. e.selection = free.selection /\ e.heard = free.heard /\ e.source = s /\ e.hooked = TRUE
  BY <1>3, <1>11 DEF SameDrag
<1>13. StillKnows(d, e)
  BY <1>1, <1>11, <1>12 DEF StillKnows, Knows, SameKeyboard
<1> QED  BY <1>1, <1>2, <1>4, <1>5, <1>7, <1>9, <1>10, <1>12, <1>13 DEF Active

\* The selection changes; its offers go with it, and the client with the
\* focus hears of it.
LEMMA SelectionChanged ==
  ASSUME NEW D \in DragSources, NEW d, SeatOK(d, D), devices \subseteq Clients,
         NEW e, e = SetCurrentSelection(d, NoSource)
  PROVE  /\ SeatOK(e, D) /\ e.selection = NoSource /\ e.kb = d.kb
         /\ SamePointer(d, e) /\ e.source = d.source /\ e.hooked = d.hooked
         /\ e.cursor = d.cursor /\ d.heard \subseteq e.heard
         /\ Knows(d) => Knows(e)
         /\ Len(e.offers) = Len(d.offers)
<1>1. CASE d.selection = NoSource
  BY <1>1 DEF SetCurrentSelection, SamePointer
<1>2. CASE d.selection # NoSource
  <2> DEFINE m == <<d.selection, "cancelled">>
             told == Hear(d, d.selection, "cancelled")
             none == [told EXCEPT !.selection = NoSource]
             dead == [none EXCEPT !.offers = Killed(none.offers, "selection")]
  <2>1. m \in Messages /\ m[1] = d.selection /\ m[2] = "cancelled"
    BY <1>2 DEF Messages, SeatOK, SeatType
  <2>2. told = Hear(d, m[1], m[2])
    OBVIOUS
  <2>3. /\ SeatOK(told, D) /\ told.heard = d.heard \cup {m} /\ SameKeyboard(d, told)
        /\ SamePointer(d, told) /\ told.source = d.source
        /\ told.hooked = d.hooked /\ told.cursor = d.cursor
        /\ told.selection = d.selection
    <3> HIDE DEF m, told
    <3> \A x \in Messages : \A y :
          y = Hear(d, x[1], x[2]) =>
            /\ SeatOK(y, D) /\ y.heard = d.heard \cup {x}
            /\ SameKeyboard(d, y) /\ SamePointer(d, y)
            /\ y.source = d.source /\ y.hooked = d.hooked /\ y.cursor = d.cursor
            /\ y.selection = d.selection
      BY Heard
    <3> QED  BY <2>1, <2>2
  <2>4. told.offers = d.offers
    BY DEF Hear, SeatOK, SeatType
  <2>5. e = SendSelection(dead, NoSource)
    BY <1>2 DEF SetCurrentSelection, SetSelection
  <2> HIDE DEF told
  <2>6. /\ none \in SeatType /\ none.offers = told.offers /\ none.selection = NoSource
        /\ SameKeyboard(told, none) /\ SamePointer(told, none) /\ none.source = told.source
        /\ none.hooked = told.hooked /\ none.cursor = told.cursor /\ none.heard = told.heard
    BY <2>3 DEF SeatOK, SeatType, SameKeyboard, SamePointer
  <2> HIDE DEF none
  <2>7. OffersOK(Killed(none.offers, "selection"), d.kb, NoSource, D)
    BY <2>3, <2>6, KilledSelection DEF SeatOK
  <2>8. /\ dead \in SeatType /\ dead.offers = Killed(none.offers, "selection")
        /\ dead.selection = NoSource
        /\ SameKeyboard(none, dead) /\ SamePointer(none, dead) /\ dead.source = none.source
        /\ dead.hooked = none.hooked /\ dead.cursor = none.cursor /\ dead.heard = none.heard
    BY <2>6, <2>7 DEF SeatType, OffersOK, SameKeyboard, SamePointer
  <2> HIDE DEF dead
  <2>9. SeatOK(dead, D)
    BY <2>3, <2>6, <2>7, <2>8 DEF SeatOK, Active, SameKeyboard, SamePointer
  <2>10. /\ SeatOK(e, D) /\ SameDrag(dead, e) /\ SamePointer(dead, e) /\ e.kb = dead.kb
         /\ Knows(e)
    BY <2>5, <2>8, <2>9, SelectionSent
  <2>11. e.offers = dead.offers
    BY <2>5, <2>8 DEF SendSelection, SeatType
  <2>12. Len(e.offers) = Len(d.offers)
    BY <2>4, <2>6, <2>8, <2>11, LenProperties DEF Killed, SeatOK, SeatType
  <2> QED  BY <2>3, <2>6, <2>8, <2>10, <2>12 DEF SameKeyboard, SamePointer, SameDrag
<1> QED  BY <1>1, <1>2

(***************************************************************************)
(* The invariant.  A client with the focus and a device knows the          *)
(* selection, and one without a device got the focus late.                 *)
(***************************************************************************)
Informed ==
  late \/ (Knows(seat) /\ (seat.kb \in Clients => seat.kb \in devices))

DeviceInv ==
  /\ use \in [Sources -> {"new", "selection", "drag", "gone"}]
  /\ devices \subseteq Clients /\ under \in MaybeClient
  /\ held \in BOOLEAN /\ canvas \in BOOLEAN /\ late \in BOOLEAN /\ crossed \in BOOLEAN
  /\ SeatOK(seat, Dragged)
  /\ Len(seat.offers) <= MaxOffers
  /\ Informed
  /\ CursorGivenBack
  /\ Taken(seat)
  /\ LeftBeforeEntered

LEMMA DraggedIsOfDrags == ASSUME DeviceInv PROVE Dragged \in DragSources
BY DEF DeviceInv, Dragged, DragSources, Selected

\* A step begins with nothing heard.
LEMMA FreshSeat ==
  ASSUME NEW D, SeatOK(seat, D)
  PROVE  /\ SeatOK(Fresh, D) /\ SameKeyboard(seat, Fresh) /\ SamePointer(seat, Fresh)
         /\ Fresh.source = seat.source /\ Fresh.hooked = seat.hooked
         /\ Fresh.cursor = seat.cursor /\ Fresh.selection = seat.selection
         /\ Fresh.offers = seat.offers /\ Fresh.heard = {}
<1>1. /\ Fresh \in SeatType /\ SameKeyboard(seat, Fresh) /\ SamePointer(seat, Fresh)
      /\ Fresh.source = seat.source /\ Fresh.hooked = seat.hooked
      /\ Fresh.cursor = seat.cursor /\ Fresh.selection = seat.selection
      /\ Fresh.offers = seat.offers /\ Fresh.heard = {}
  BY DEF Fresh, SeatOK, SeatType, SameKeyboard, SamePointer
<1> QED  BY <1>1 DEF SeatOK, Active, SameKeyboard, SamePointer

\* Without sources or devices used or made, a step that only moves the seat.
LEMMA SeatMoves ==
  ASSUME DeviceInv, UNCHANGED <<use, devices>>, SeatOK(seat', Dragged),
         StillKnows(seat, seat'), Missed
  PROVE  SeatOK(seat, Dragged)' /\ Informed' /\ late' \in BOOLEAN
<1>1. SeatOK(seat, Dragged)'
  BY DEF SeatOK, Dragged, Selected, OffersOK, OfferOK, Active
<1>2. Informed' /\ late' \in BOOLEAN
  BY DEF DeviceInv, Informed, StillKnows, Knows, Missed, SeatOK, SeatType
<1> QED  BY <1>1, <1>2

(***************************************************************************)
(* What a step leaves: the invariant, and a drag that ends is spoken of    *)
(* and gives the pointer back.                                             *)
(***************************************************************************)
Told ==
  /\ Active(seat) /\ seat'.source # seat.source
       => \E end \in {"cancelled", "finished"} : <<seat.source, end>> \in seat'.heard
  /\ Active(seat) /\ ~Active(seat') /\ ~canvas => seat'.ptr = under

\* What every step finds.
FreshIs ==
  /\ SeatOK(Fresh, Dragged) /\ SameKeyboard(seat, Fresh) /\ SamePointer(seat, Fresh)
  /\ Fresh.source = seat.source /\ Fresh.hooked = seat.hooked
  /\ Fresh.cursor = seat.cursor /\ Fresh.selection = seat.selection
  /\ Fresh.offers = seat.offers /\ Fresh.heard = {}

LEMMA Finds ==
  ASSUME DeviceInv
  PROVE  /\ FreshIs /\ Dragged \in DragSources
         /\ SeatOK(seat, Dragged) /\ devices \subseteq Clients
         /\ under \in MaybeClient /\ held \in BOOLEAN
BY FreshSeat, DraggedIsOfDrags DEF DeviceInv, FreshIs

LEMMA MotionKeeps ==
  ASSUME DeviceInv, NEW u \in MaybeClient, Motion(u)
  PROVE  DeviceInv' /\ Told
<1> USE Finds
<1>1. PICK follow \in BOOLEAN : seat' = MouseMove(Fresh, u, held, follow)
  BY DEF Motion
<1>2. /\ SeatOK(seat', Dragged) /\ SameDrag(Fresh, seat') /\ StillKnows(Fresh, seat')
      /\ Tidy(Fresh) => Tidy(seat')
      /\ Taken(Fresh) => Taken(seat')
  BY <1>1, MouseMoves DEF FreshIs
<1>3. StillKnows(seat, seat')
  BY <1>2 DEF StillKnows, Knows, SameKeyboard, FreshIs
<1>4. SeatOK(seat, Dragged)' /\ Informed' /\ late' \in BOOLEAN
  BY <1>2, <1>3, SeatMoves DEF Motion
<1>5. Told
  BY <1>2 DEF Told, SameDrag, FreshIs, Active
<1>6. CursorGivenBack' /\ Taken(seat)' /\ LeftBeforeEntered'
  BY <1>2 DEF DeviceInv, CursorGivenBack, Taken, LeftBeforeEntered, FreshIs,
              SameDrag, SamePointer, Motion, Active, Tidy
<1> QED  BY <1>4, <1>5, <1>6 DEF DeviceInv, Motion, Room

LEMMA PressKeeps ==
  ASSUME DeviceInv, PressButton
  PROVE  DeviceInv' /\ Told
<1> USE Finds
<1>1. CASE seat' = Fresh
  <2>1. SeatOK(seat', Dragged) /\ StillKnows(seat, seat')
    BY <1>1 DEF FreshIs, StillKnows, Knows, SameKeyboard
  <2>2. SeatOK(seat, Dragged)' /\ Informed' /\ late' \in BOOLEAN
    BY <2>1, SeatMoves DEF PressButton
  <2> QED  BY <1>1, <2>2 DEF DeviceInv, PressButton, Room, Told, FreshIs, SamePointer, Active,
                             CursorGivenBack, Taken, LeftBeforeEntered
<1>2. CASE seat' = MouseMove(Fresh, under, FALSE, TRUE)
  <2>1. FALSE \in BOOLEAN /\ TRUE \in BOOLEAN
    OBVIOUS
  <2>2. /\ SeatOK(seat', Dragged) /\ SameDrag(Fresh, seat') /\ StillKnows(Fresh, seat')
        /\ Tidy(Fresh) => Tidy(seat')
        /\ Taken(Fresh) => Taken(seat')
    BY <1>2, <2>1, MouseMoves DEF FreshIs
  <2>3. StillKnows(seat, seat')
    BY <2>2 DEF StillKnows, Knows, SameKeyboard, FreshIs
  <2>4. SeatOK(seat, Dragged)' /\ Informed' /\ late' \in BOOLEAN
    BY <2>2, <2>3, SeatMoves DEF PressButton
  <2>5. Told
    BY <2>2 DEF Told, SameDrag, FreshIs, Active
  <2>6. CursorGivenBack' /\ Taken(seat)' /\ LeftBeforeEntered'
    BY <2>2 DEF DeviceInv, CursorGivenBack, Taken, LeftBeforeEntered, FreshIs,
                SameDrag, SamePointer, PressButton, Tidy, Active
  <2> QED  BY <2>4, <2>5, <2>6 DEF DeviceInv, PressButton, Room
<1> QED  BY <1>1, <1>2 DEF PressButton

\* The drop, if a drag waits for it.
LEMMA HookKeeps ==
  ASSUME DeviceInv, HookRuns, UNCHANGED <<use, devices, under, crossed>>,
         held' \in BOOLEAN, canvas' \in BOOLEAN
  PROVE  DeviceInv' /\ Told
<1> USE Finds
<1>1. PICK follow \in BOOLEAN :
        seat' = IF seat.hooked THEN DropDrag(Fresh, follow) ELSE Fresh
  BY DEF HookRuns
<1>2. /\ SeatOK(seat', Dragged) /\ StillKnows(Fresh, seat')
      /\ (seat.cursor /\ ~seat.hooked) \/ ~seat'.cursor
      /\ Tidy(Fresh) => Tidy(seat')
      /\ Taken(Fresh) => Taken(seat')
      /\ seat'.source # seat.source => <<seat.source, "cancelled">> \in seat'.heard
      /\ Active(Fresh) /\ ~Active(seat') /\ Taken(Fresh) /\ ~canvas => seat'.ptr = under
  <2>1. CASE seat.hooked
    <3>1. seat' = DropDrag(Fresh, follow)
      BY <1>1, <2>1
    <3>2. SeatOK(Fresh, Dragged) /\ Fresh.hooked /\ Fresh.source = seat.source
      BY <2>1 DEF FreshIs
    <3>3. /\ SeatOK(seat', Dragged) /\ StillKnows(Fresh, seat') /\ ~seat'.cursor
          /\ Tidy(Fresh) => Tidy(seat')
          /\ Taken(Fresh) => Taken(seat')
          /\ seat'.source # Fresh.source => <<Fresh.source, "cancelled">> \in seat'.heard
          /\ Active(Fresh) /\ ~Active(seat') /\ Taken(Fresh) /\ ~canvas => seat'.ptr = under
      BY <3>1, <3>2, DragDropped
    <3> QED  BY <3>2, <3>3
  <2>2. CASE ~seat.hooked
    <3>1. seat' = Fresh
      BY <1>1, <2>2
    <3> QED  BY <2>2, <3>1 DEF FreshIs, StillKnows, SeatOK, SeatType
  <2> QED  BY <2>1, <2>2
<1>3. StillKnows(seat, seat')
  BY <1>2 DEF StillKnows, Knows, SameKeyboard, FreshIs
<1>4. SeatOK(seat, Dragged)' /\ Informed' /\ late' \in BOOLEAN
  BY <1>2, <1>3, SeatMoves DEF HookRuns
<1>5. Taken(Fresh) /\ (Active(Fresh) <=> Active(seat))
  BY DEF DeviceInv, Taken, Active, FreshIs, SamePointer
<1>6. Told
  BY <1>2, <1>5 DEF Told
<1>7. LeftBeforeEntered' /\ CursorGivenBack' /\ Taken(seat)'
  BY <1>2, <1>5 DEF DeviceInv, CursorGivenBack, LeftBeforeEntered, Taken, FreshIs,
                    SamePointer, Tidy, Active
<1> QED  BY <1>4, <1>6, <1>7 DEF DeviceInv, HookRuns, Room

LEMMA ReleaseKeeps ==
  ASSUME DeviceInv, ReleaseButton \/ ReleaseToCanvas
  PROVE  DeviceInv' /\ Told
<1>1. HookRuns /\ UNCHANGED <<use, devices, under, crossed>>
  BY DEF ReleaseButton, ReleaseToCanvas
<1>2. held' \in BOOLEAN /\ canvas' \in BOOLEAN
  BY DEF DeviceInv, ReleaseButton, ReleaseToCanvas
<1> QED  BY <1>1, <1>2, HookKeeps

LEMMA ToggleKeeps ==
  ASSUME DeviceInv, ToggleCanvas
  PROVE  DeviceInv' /\ Told
<1> USE Finds
<1>1. /\ seat' = Fresh /\ UNCHANGED <<use, devices, under, held, late, crossed>>
      /\ canvas' \in BOOLEAN
  BY DEF ToggleCanvas
<1>2. SeatOK(seat, Dragged)'
  BY <1>1 DEF FreshIs, SeatOK, Dragged, Selected, OffersOK, OfferOK, Active
<1>3. Informed'
  BY <1>1 DEF DeviceInv, Informed, Knows, FreshIs, SameKeyboard
<1> QED  BY <1>1, <1>2, <1>3 DEF DeviceInv, Told, FreshIs, SamePointer, Active,
                                 CursorGivenBack, Taken, LeftBeforeEntered

LEMMA FocusKeeps ==
  ASSUME DeviceInv, NEW c \in MaybeClient, FocusSurface(c)
  PROVE  DeviceInv' /\ Told
<1> USE Finds
<1>1. /\ SeatOK(seat', Dragged) /\ SameDrag(Fresh, seat') /\ SamePointer(Fresh, seat')
      /\ seat'.kb = c /\ Knows(seat')
  BY KeyboardMoves DEF FocusSurface, FreshIs, SameKeyboard
<1>2. StillKnows(seat, seat')
  BY <1>1 DEF StillKnows
<1>3. SeatOK(seat, Dragged)' /\ Informed' /\ late' \in BOOLEAN
  BY <1>1, <1>2, SeatMoves DEF FocusSurface
<1>4. Told
  BY <1>1 DEF Told, SameDrag, FreshIs, Active
<1>5. CursorGivenBack' /\ Taken(seat)' /\ LeftBeforeEntered'
  BY <1>1 DEF DeviceInv, CursorGivenBack, Taken, LeftBeforeEntered, FreshIs,
              SameDrag, SamePointer, FocusSurface, Active
<1> QED  BY <1>3, <1>4, <1>5 DEF DeviceInv, FocusSurface, Room

LEMMA AbortKeeps ==
  ASSUME DeviceInv, AbortDndIfPresent
  PROVE  DeviceInv' /\ Told
<1> USE Finds
<1>1. PICK follow \in BOOLEAN : seat' = AbortDrag(Fresh, follow)
  BY DEF AbortDndIfPresent
<1>2. /\ SeatOK(seat', Dragged) /\ StillKnows(Fresh, seat')
      /\ ~Active(seat') /\ ~seat'.hooked /\ ~seat'.cursor
      /\ Tidy(Fresh) => Tidy(seat')
      /\ seat'.heard = Fresh.heard \cup {<<Fresh.source, "cancelled">>}
      /\ Taken(Fresh) /\ ~canvas => seat'.ptr = under
  BY <1>1, DragAborted DEF FreshIs, AbortDndIfPresent, Active
<1>3. StillKnows(seat, seat')
  BY <1>2 DEF StillKnows, Knows, SameKeyboard, FreshIs
<1>4. SeatOK(seat, Dragged)' /\ Informed' /\ late' \in BOOLEAN
  BY <1>2, <1>3, SeatMoves DEF AbortDndIfPresent
<1>5. Told
  BY <1>2 DEF Told, FreshIs, DeviceInv, Taken, SamePointer, Active
<1>6. CursorGivenBack' /\ Taken(seat)' /\ LeftBeforeEntered'
  BY <1>2 DEF DeviceInv, CursorGivenBack, Taken, LeftBeforeEntered, FreshIs,
              SamePointer, AbortDndIfPresent, Tidy
<1> QED  BY <1>4, <1>5, <1>6 DEF DeviceInv, AbortDndIfPresent, Room

\* A client with the focus and no device got the focus late.
LEMMA DeviceMadeKeeps ==
  ASSUME DeviceInv, NEW c \in Clients, GetDataDevice(c)
  PROVE  DeviceInv' /\ Told
<1> USE Finds
<1>1. seat' = Fresh /\ devices' = devices \cup {c} /\ UNCHANGED <<use, under, held, canvas, late, crossed>>
  BY DEF GetDataDevice
<1>2. SeatOK(seat, Dragged)'
  BY <1>1 DEF FreshIs, SeatOK, Dragged, Selected, OffersOK, OfferOK, Active
<1>3. Informed'
  BY <1>1 DEF DeviceInv, Informed, Knows, FreshIs, SameKeyboard, GetDataDevice
<1> QED  BY <1>1, <1>2, <1>3 DEF DeviceInv, Told, FreshIs, SamePointer, Active,
                                 CursorGivenBack, Taken, LeftBeforeEntered

LEMMA DeviceGoneKeeps ==
  ASSUME DeviceInv, NEW c \in Clients, ReleaseDataDevice(c)
  PROVE  DeviceInv' /\ Told
<1> USE Finds
<1> DEFINE v == IF Fresh.device = c THEN NoClient ELSE Fresh.device
           n == Fresh.inside \ {c}
           o == IF seat.kb = c THEN NoSource ELSE Fresh.told
<1>1. seat' = [Fresh EXCEPT !.device = v, !.inside = n, !.told = o]
  BY DEF ReleaseDataDevice
<1>2. v \in MaybeClient /\ n \in SUBSET Clients /\ o \in Sources \cup {NoSource}
  BY DEF FreshIs, SeatOK, SeatType, MaybeClient
<1>3. Tidy(seat) => n \subseteq {v}
  BY DEF Tidy, FreshIs, SamePointer
<1>4. v # NoClient => Fresh.device # NoClient
  OBVIOUS
<1>5. seat.kb # c => o = seat.told
  BY DEF FreshIs, SameKeyboard
<1> HIDE DEF v, n, o
<1>6. /\ seat' \in SeatType /\ seat'.device = v /\ seat'.inside = n /\ seat'.told = o
      /\ SameDrag(Fresh, seat') /\ seat'.offers = Fresh.offers /\ seat'.kb = Fresh.kb
      /\ seat'.ptr = Fresh.ptr
  BY <1>1, <1>2 DEF FreshIs, SeatOK, SeatType, SameDrag
<1>7. SeatOK(seat', Dragged)
  BY <1>4, <1>6 DEF FreshIs, SeatOK, Active, SameDrag
<1>8. SeatOK(seat, Dragged)'
  BY <1>7 DEF ReleaseDataDevice, SeatOK, Dragged, Selected, OffersOK, OfferOK, Active
<1>9. Informed' /\ late' \in BOOLEAN
  <2>1. late' = (late \/ seat.kb = c) /\ devices' = devices \ {c}
    BY DEF ReleaseDataDevice
  <2>2. late' \in BOOLEAN
    BY <2>1
  <2>3. CASE late \/ seat.kb = c
    BY <2>1, <2>3 DEF Informed
  <2>4. CASE ~late /\ seat.kb # c
    <3>1. (seat.kb \in devices => seat.told = seat.selection)
          /\ (seat.kb \in Clients => seat.kb \in devices)
      BY <2>4 DEF DeviceInv, Informed, Knows
    <3>2. seat'.kb = seat.kb /\ seat'.told = seat.told /\ seat'.selection = seat.selection
      BY <1>5, <1>6, <2>4 DEF FreshIs, SameKeyboard, SameDrag
    <3> QED  BY <2>1, <2>4, <3>1, <3>2 DEF Informed, Knows
  <2> QED  BY <2>2, <2>3, <2>4
<1>10. Told
  BY <1>6 DEF Told, SameDrag, FreshIs, Active
<1>11. CursorGivenBack' /\ Taken(seat)' /\ LeftBeforeEntered'
  BY <1>3, <1>6 DEF DeviceInv, CursorGivenBack, Taken, LeftBeforeEntered, FreshIs,
              SameDrag, SamePointer, ReleaseDataDevice, Active, Tidy
<1>12. Len(seat'.offers) <= MaxOffers /\ UNCHANGED <<use, under, held, canvas, crossed>> /\ devices' \subseteq Clients
  BY <1>6 DEF DeviceInv, FreshIs, ReleaseDataDevice
<1> QED  BY <1>8, <1>9, <1>10, <1>11, <1>12 DEF DeviceInv

(***************************************************************************)
(* What clients do with their offers.                                      *)
(***************************************************************************)

\* Of the seat, only the offers change, and those that are left are like some
\* that were there.
OnlyOffers(e) ==
  /\ e \in SeatType /\ OffersOK(e.offers, seat.kb, seat.selection, Dragged)
  /\ Len(e.offers) <= Len(seat.offers)
  /\ SameKeyboard(seat, e) /\ SamePointer(seat, e)
  /\ e.source = seat.source /\ e.hooked = seat.hooked
  /\ e.cursor = seat.cursor /\ e.selection = seat.selection

LEMMA OneOfferChanged ==
  ASSUME DeviceInv, NEW i \in DOMAIN seat.offers, NEW o \in AnOffer,
         o.source = seat.offers[i].source, o.client = seat.offers[i].client,
         seat.offers[i].dead => o.dead,
         NEW e, e = [Fresh EXCEPT !.offers = [seat.offers EXCEPT ![i] = o]]
  PROVE  OnlyOffers(e) /\ e.heard = {}
<1> DEFINE n == [seat.offers EXCEPT ![i] = o]
<1>1. OffersOK(seat.offers, seat.kb, seat.selection, Dragged)
  BY Finds DEF SeatOK
<1>2. seat.offers \in Seq(AnOffer) /\ DOMAIN seat.offers = 1..Len(seat.offers)
  BY <1>1 DEF OffersOK
<1>3. n \in Seq(AnOffer) /\ Len(n) = Len(seat.offers) /\ DOMAIN n = DOMAIN seat.offers
      /\ \A j \in DOMAIN n : n[j] = IF j = i THEN o ELSE seat.offers[j]
  BY <1>2
<1>4. OffersOK(n, seat.kb, seat.selection, Dragged)
  BY <1>1, <1>3 DEF OffersOK, OfferOK
<1> HIDE DEF n
<1>5. /\ e \in SeatType /\ e.offers = n /\ e.heard = {}
      /\ SameKeyboard(Fresh, e) /\ SamePointer(Fresh, e)
      /\ e.source = Fresh.source /\ e.hooked = Fresh.hooked
      /\ e.cursor = Fresh.cursor /\ e.selection = Fresh.selection
  BY <1>3, Finds DEF FreshIs, SeatOK, SeatType, SameKeyboard, SamePointer, n
<1>6. Len(n) \in Nat /\ Len(n) <= Len(seat.offers)
  BY <1>2, <1>3
<1> QED  BY <1>4, <1>5, <1>6, Finds DEF FreshIs, OnlyOffers, SameKeyboard, SamePointer

\* A seat whose offers alone changed is still one.
LEMMA OffersKeepSeat ==
  ASSUME DeviceInv, NEW e, OnlyOffers(e)
  PROVE  SeatOK(e, Dragged) /\ StillKnows(seat, e) /\ (Tidy(seat) => Tidy(e))
BY Finds DEF OnlyOffers, SeatOK, StillKnows, Knows, Active, SameKeyboard, SamePointer, Tidy

LEMMA OffersKeep ==
  ASSUME DeviceInv, OnlyOffers(seat'),
         UNCHANGED <<use, devices, under, held, canvas, late, crossed>>
  PROVE  DeviceInv' /\ Told
<1>1. SeatOK(seat', Dragged)
  BY OffersKeepSeat
<1>2. SeatOK(seat, Dragged)'
  BY <1>1 DEF SeatOK, Dragged, Selected, OffersOK, OfferOK, Active
<1>3. Len(seat'.offers) <= MaxOffers
  <2>1. Len(seat'.offers) \in Nat /\ Len(seat.offers) \in Nat
    BY Finds DEF OnlyOffers, OffersOK, SeatOK
  <2> QED  BY <2>1, DataAssumption DEF OnlyOffers, DeviceInv
<1>4. Informed' /\ CursorGivenBack' /\ Taken(seat)' /\ LeftBeforeEntered'
  BY DEF DeviceInv, OnlyOffers, Informed, Knows, SameKeyboard, SamePointer, Active,
         CursorGivenBack, Taken, LeftBeforeEntered
<1> QED  BY <1>2, <1>3, <1>4 DEF DeviceInv, Told, OnlyOffers, Active

LEMMA AcceptKeeps ==
  ASSUME DeviceInv, NEW i \in DOMAIN seat.offers, NEW takes \in BOOLEAN, Accept(i, takes)
  PROVE  DeviceInv' /\ Told
<1> DEFINE o == [seat.offers[i] EXCEPT !.accepted = takes]
<1>1. seat.offers \in Seq(AnOffer) /\ seat.offers[i] \in AnOffer
  BY Finds DEF SeatOK, OffersOK
<1>2. /\ o \in AnOffer /\ o.source = seat.offers[i].source /\ o.client = seat.offers[i].client
      /\ o.dead = seat.offers[i].dead
  BY <1>1 DEF AnOffer
<1>3. seat' = [Fresh EXCEPT !.offers = [seat.offers EXCEPT ![i] = o]]
  BY Finds DEF Accept, FreshIs
<1> HIDE DEF o
<1>4. OnlyOffers(seat')
  BY <1>2, <1>3, OneOfferChanged
<1> QED  BY <1>4, OffersKeep DEF Accept

LEMMA ReceiveKeeps ==
  ASSUME DeviceInv, NEW i \in DOMAIN seat.offers, Receive(i)
  PROVE  DeviceInv' /\ Told
<1> DEFINE o == [seat.offers[i] EXCEPT !.recvd = TRUE]
<1>1. seat.offers \in Seq(AnOffer) /\ seat.offers[i] \in AnOffer
  BY Finds DEF SeatOK, OffersOK
<1>2. /\ o \in AnOffer /\ o.source = seat.offers[i].source /\ o.client = seat.offers[i].client
      /\ o.dead = seat.offers[i].dead
  BY <1>1 DEF AnOffer
<1>3. seat' = [Fresh EXCEPT !.offers = [seat.offers EXCEPT ![i] = o]]
  BY Finds DEF Receive, FreshIs
<1> HIDE DEF o
<1>4. OnlyOffers(seat')
  BY <1>2, <1>3, OneOfferChanged
<1> QED  BY <1>4, OffersKeep DEF Receive

\* An offer that is finished ends the drag that is under way.
LEMMA FinishKeeps ==
  ASSUME DeviceInv, NEW i \in DOMAIN seat.offers, Finish(i)
  PROVE  DeviceInv' /\ Told
<1> USE Finds
<1> DEFINE o == [seat.offers[i] EXCEPT !.dead = TRUE]
           dead == [Fresh EXCEPT !.offers[i].dead = TRUE]
           done == /\ seat.offers[i].source # NoSource
                   /\ seat.offers[i].recvd /\ seat.offers[i].accepted
<1>1. seat.offers \in Seq(AnOffer) /\ seat.offers[i] \in AnOffer
  BY DEF SeatOK, OffersOK
<1>2. /\ o \in AnOffer /\ o.source = seat.offers[i].source /\ o.client = seat.offers[i].client
      /\ o.dead = TRUE
  BY <1>1 DEF AnOffer
<1>3. dead = [Fresh EXCEPT !.offers = [seat.offers EXCEPT ![i] = o]]
  BY DEF FreshIs
<1>4. done \in BOOLEAN
  BY <1>1 DEF AnOffer
<1>5. PICK follow \in BOOLEAN :
        seat' = IF done THEN CompleteDrag(dead, follow) ELSE AbortDrag(dead, follow)
  BY DEF Finish
<1>6. crossed' = (crossed \/ (done /\ (seat.hooked \/ seat.inside # {})))
  BY DEF Finish
<1> HIDE DEF o, dead, done
<1>7. OnlyOffers(dead) /\ dead.heard = {}
  BY <1>2, <1>3, OneOfferChanged
<1>8. SeatOK(dead, Dragged) /\ StillKnows(seat, dead) /\ (Tidy(seat) => Tidy(dead))
  BY <1>7, OffersKeepSeat
<1>9. CASE done
  <2>1. /\ SeatOK(seat', Dragged) /\ StillKnows(dead, seat')
        /\ ~Active(seat') /\ ~seat'.hooked /\ seat'.cursor = dead.cursor
        /\ dead.inside = {} => Tidy(seat')
        /\ Active(dead) => <<dead.source, "finished">> \in seat'.heard
        /\ Active(dead) /\ Taken(dead) /\ ~canvas => seat'.ptr = under
    BY <1>5, <1>8, <1>9, DragCompleted
  <2>2. StillKnows(seat, seat')
    BY <1>7, <1>8, <2>1 DEF StillKnows, OnlyOffers, SameKeyboard
  <2>3. SeatOK(seat, Dragged)' /\ Informed' /\ late' \in BOOLEAN
    BY <2>1, <2>2, SeatMoves DEF Finish
  <2>4. Told
    BY <1>7, <2>1 DEF Told, OnlyOffers, Active, Taken, DeviceInv, SamePointer
  <2>5. CursorGivenBack' /\ Taken(seat)' /\ LeftBeforeEntered'
    BY <1>6, <1>7, <1>9, <2>1 DEF DeviceInv, CursorGivenBack, Taken,
         LeftBeforeEntered, OnlyOffers, SamePointer, Finish, Tidy, Active
  <2>6. crossed' \in BOOLEAN
    BY <1>6
  <2> QED  BY <2>3, <2>4, <2>5, <2>6 DEF DeviceInv, Finish, Room
<1>10. CASE ~done
  <2>1. /\ SeatOK(seat', Dragged) /\ StillKnows(dead, seat')
        /\ ~Active(seat') /\ ~seat'.hooked /\ ~seat'.cursor
        /\ Tidy(dead) => Tidy(seat')
        /\ Active(dead) => seat'.heard = dead.heard \cup {<<dead.source, "cancelled">>}
        /\ Active(dead) /\ Taken(dead) /\ ~canvas => seat'.ptr = under
    BY <1>5, <1>8, <1>10, DragAborted
  <2>2. StillKnows(seat, seat')
    BY <1>7, <1>8, <2>1 DEF StillKnows, OnlyOffers, SameKeyboard
  <2>3. SeatOK(seat, Dragged)' /\ Informed' /\ late' \in BOOLEAN
    BY <2>1, <2>2, SeatMoves DEF Finish
  <2>4. Told
    BY <1>7, <2>1 DEF Told, OnlyOffers, Active, Taken, DeviceInv, SamePointer
  <2>5. CursorGivenBack' /\ Taken(seat)' /\ LeftBeforeEntered'
    BY <1>6, <1>7, <1>8, <1>10, <2>1 DEF DeviceInv, CursorGivenBack, Taken,
         LeftBeforeEntered, OnlyOffers, SamePointer, Finish, Tidy, Active
  <2>6. crossed' \in BOOLEAN
    BY <1>6
  <2> QED  BY <2>3, <2>4, <2>5, <2>6 DEF DeviceInv, Finish, Room
<1> QED  BY <1>9, <1>10

\* Of the offers all but one are left.
LEMMA Removed ==
  ASSUME NEW s \in Seq(AnOffer), NEW i \in DOMAIN s
  PROVE  /\ RemoveAt(s, i) \in Seq(AnOffer) /\ Len(RemoveAt(s, i)) = Len(s) - 1
         /\ \A j \in DOMAIN RemoveAt(s, i) : \E k \in DOMAIN s : RemoveAt(s, i)[j] = s[k]
<1> DEFINE a == SubSeq(s, 1, i - 1)
           b == SubSeq(s, i + 1, Len(s))
<1>1. Len(s) \in Nat /\ i \in 1..Len(s) /\ DOMAIN s = 1..Len(s)
  OBVIOUS
<1>2. /\ a \in Seq(AnOffer) /\ Len(a) = i - 1
      /\ \A j \in 1..(i - 1) : a[j] = s[j]
  BY <1>1, SubSeqProperties
<1>3. /\ b \in Seq(AnOffer) /\ Len(b) = Len(s) - i
      /\ \A j \in 1..(Len(s) - i) : b[j] = s[i + j]
  BY <1>1, SubSeqProperties
<1>4. RemoveAt(s, i) = a \o b
  BY DEF RemoveAt
<1> HIDE DEF a, b
<1>5. /\ a \o b \in Seq(AnOffer) /\ Len(a \o b) = Len(a) + Len(b)
      /\ \A j \in 1..(Len(a) + Len(b)) :
           (a \o b)[j] = IF j <= Len(a) THEN a[j] ELSE b[j - Len(a)]
  BY <1>2, <1>3, ConcatProperties
<1>6. Len(a \o b) = Len(s) - 1
  BY <1>1, <1>2, <1>3, <1>5
<1>7. ASSUME NEW j \in DOMAIN (a \o b) PROVE \E k \in DOMAIN s : (a \o b)[j] = s[k]
  <2>1. j \in 1..(Len(s) - 1) /\ j \in Nat
    BY <1>1, <1>5, <1>6
  <2>2. CASE j <= i - 1
    <3>1. j \in 1..(i - 1) /\ j \in DOMAIN s
      BY <1>1, <2>1, <2>2
    <3>2. (a \o b)[j] = a[j]
      BY <1>1, <1>2, <1>3, <1>5, <2>1, <2>2
    <3> QED  BY <1>2, <3>1, <3>2
  <2>3. CASE j > i - 1
    <3>1. j - (i - 1) \in 1..(Len(s) - i) /\ i + (j - (i - 1)) = j + 1 /\ j + 1 \in DOMAIN s
      BY <1>1, <2>1, <2>3
    <3>2. (a \o b)[j] = b[j - (i - 1)]
      BY <1>1, <1>2, <1>3, <1>5, <2>1, <2>3
    <3> QED  BY <1>3, <3>1, <3>2
  <2> QED  BY <1>1, <2>1, <2>2, <2>3
<1> QED  BY <1>4, <1>5, <1>6, <1>7

LEMMA DestroyOfferKeeps ==
  ASSUME DeviceInv, NEW i \in DOMAIN seat.offers, DestroyOffer(i)
  PROVE  DeviceInv' /\ Told
<1> USE Finds
<1> DEFINE n == RemoveAt(seat.offers, i)
           rest == [Fresh EXCEPT !.offers = n]
           m == <<seat.offers[i].source, "finished">>
<1>1. OffersOK(seat.offers, seat.kb, seat.selection, Dragged)
  BY DEF SeatOK
<1>2. /\ n \in Seq(AnOffer) /\ Len(n) = Len(seat.offers) - 1
      /\ \A j \in DOMAIN n : \E k \in DOMAIN seat.offers : n[j] = seat.offers[k]
      /\ Len(n) <= Len(seat.offers)
  <2>1. seat.offers \in Seq(AnOffer)
    BY <1>1 DEF OffersOK
  <2>2. Len(seat.offers) \in Nat
    BY <2>1
  <2> HIDE DEF n
  <2> QED  BY <2>1, <2>2, Removed DEF n
<1>3. seat' = rest \/ (OfDrag(seat.offers[i]) /\ seat' = Hear(rest, m[1], m[2]))
  <2>1. rest = [Fresh EXCEPT !.offers = RemoveAt(@, i)]
    BY DEF FreshIs
  <2> QED  BY <2>1 DEF DestroyOffer
<1>4. OffersOK(n, seat.kb, seat.selection, Dragged)
  <2> HIDE DEF n
  <2> QED  BY <1>1, <1>2 DEF OffersOK
<1> HIDE DEF n
<1>5. /\ rest \in SeatType /\ rest.offers = n /\ rest.heard = {}
      /\ SameKeyboard(Fresh, rest) /\ SamePointer(Fresh, rest)
      /\ rest.source = Fresh.source /\ rest.hooked = Fresh.hooked
      /\ rest.cursor = Fresh.cursor /\ rest.selection = Fresh.selection
  BY <1>2 DEF FreshIs, SeatOK, SeatType, SameKeyboard, SamePointer
<1> HIDE DEF rest
<1>6. OnlyOffers(rest)
  BY <1>2, <1>4, <1>5 DEF FreshIs, OnlyOffers, SameKeyboard, SamePointer
<1>7. CASE seat' = rest
  BY <1>6, <1>7, OffersKeep DEF DestroyOffer
<1>8. CASE OfDrag(seat.offers[i]) /\ seat' = Hear(rest, m[1], m[2])
  <2>1. SeatOK(rest, Dragged)
    BY <1>6, OffersKeepSeat
  <2>2. m \in Messages
    <3>1. seat.offers[i] \in AnOffer
      BY <1>1 DEF OffersOK
    <3> QED  BY <1>8, <3>1 DEF Messages, OfDrag, AnOffer
  <2>3. seat' = [rest EXCEPT !.heard = {m}]
    BY <1>5, <1>8 DEF Hear
  <2> HIDE DEF m
  <2>4. {m} \in SUBSET Messages
    BY <2>2
  <2>5. /\ seat' \in SeatType /\ seat'.offers = rest.offers
        /\ SameKeyboard(rest, seat') /\ SamePointer(rest, seat')
        /\ seat'.source = rest.source /\ seat'.hooked = rest.hooked
        /\ seat'.cursor = rest.cursor /\ seat'.selection = rest.selection
    BY <1>5, <2>3, <2>4 DEF SeatType, SameKeyboard, SamePointer
  <2>6. OnlyOffers(seat')
    BY <1>6, <2>5 DEF OnlyOffers, SameKeyboard, SamePointer
  <2> QED  BY <2>6, OffersKeep DEF DestroyOffer
<1> QED  BY <1>3, <1>7, <1>8

(***************************************************************************)
(* Sources that are used and that go.                                      *)
(***************************************************************************)
LEMMA ResetKeeps ==
  ASSUME DeviceInv, ResetSelection
  PROVE  DeviceInv' /\ Told
<1> USE Finds
<1>1. /\ SeatOK(seat', Dragged) /\ seat'.selection = NoSource /\ seat'.kb = Fresh.kb
      /\ SamePointer(Fresh, seat') /\ seat'.source = Fresh.source
      /\ seat'.hooked = Fresh.hooked /\ seat'.cursor = Fresh.cursor
      /\ Knows(Fresh) => Knows(seat')
      /\ Len(seat'.offers) = Len(Fresh.offers)
  BY SelectionChanged DEF ResetSelection, FreshIs
<1>2. SeatOK(seat, Dragged)'
  BY <1>1 DEF ResetSelection, SeatOK, Dragged, Selected, OffersOK, OfferOK, Active
<1>3. Informed'
  BY <1>1 DEF DeviceInv, Informed, Knows, FreshIs, SameKeyboard, ResetSelection
<1>4. CursorGivenBack' /\ Taken(seat)' /\ LeftBeforeEntered' /\ Told
  BY <1>1 DEF DeviceInv, CursorGivenBack, Taken, LeftBeforeEntered, Told, FreshIs,
              SamePointer, ResetSelection, Active
<1> QED  BY <1>1, <1>2, <1>3, <1>4 DEF DeviceInv, ResetSelection, FreshIs

\* The sources of drags with a new one.
LEMMA StartDragKeeps ==
  ASSUME DeviceInv, NEW s \in Sources, StartDrag(s)
  PROVE  DeviceInv' /\ Told
<1> USE Finds
<1> DEFINE D == Dragged \cup {s}
<1>1. /\ use \in [Sources -> {"new", "selection", "drag", "gone"}]
      /\ use[s] = "new" /\ use' = [use EXCEPT ![s] = "drag"]
  BY DEF DeviceInv, StartDrag
<1>2. Selected' = Selected /\ Dragged' = D
  BY <1>1 DEF Selected, Dragged
<1>3. D \in DragSources /\ s \in D
  BY <1>1 DEF DragSources, Selected, Dragged
<1>4. PICK follow \in BOOLEAN : seat' = InitiateDrag(Fresh, s, follow)
  BY DEF StartDrag
<1> HIDE DEF D
<1>5. SeatOK(Fresh, D)
  BY DEF D, FreshIs, SeatOK, OffersOK, OfferOK
<1>6. /\ SeatOK(seat', D) /\ StillKnows(Fresh, seat') /\ seat'.selection = Fresh.selection
      /\ Active(seat') /\ seat'.hooked /\ seat'.ptr = NoClient
      /\ Tidy(Fresh) => Tidy(seat')
      /\ Active(Fresh) => <<Fresh.source, "cancelled">> \in seat'.heard
  BY <1>3, <1>4, <1>5, DragInitiated
<1>7. SeatOK(seat, Dragged)'
  BY <1>2, <1>6 DEF SeatOK, OffersOK, OfferOK, Active
<1>8. Informed' /\ late' \in BOOLEAN
  BY <1>6 DEF DeviceInv, Informed, StillKnows, Knows, FreshIs, SameKeyboard, Missed, StartDrag,
              SeatOK, SeatType
<1>9. CursorGivenBack' /\ Taken(seat)' /\ LeftBeforeEntered' /\ Told
  BY <1>6 DEF DeviceInv, CursorGivenBack, Taken, LeftBeforeEntered, Told, FreshIs,
              SamePointer, StartDrag, Active, Tidy
<1>10. use' \in [Sources -> {"new", "selection", "drag", "gone"}]
  BY <1>1
<1> QED  BY <1>7, <1>8, <1>9, <1>10 DEF DeviceInv, StartDrag, Room

\* The new selection is offered once the offers of the old one are dead.
LEMMA RequestKeeps ==
  ASSUME DeviceInv, NEW s \in Sources, RequestSelection(s)
  PROVE  DeviceInv' /\ Told
<1> USE Finds
<1>1. /\ use \in [Sources -> {"new", "selection", "drag", "gone"}]
      /\ use[s] = "new" /\ use' = [use EXCEPT ![s] = "selection"]
  BY DEF DeviceInv, RequestSelection
<1>2. /\ Selected' = Selected \cup {s} /\ Dragged' = Dragged
      /\ s \notin Selected /\ s \notin Dragged /\ s # NoSource
  BY <1>1, DataAssumption DEF Selected, Dragged
<1>3. seat.selection # s
  BY <1>2 DEF SeatOK
<1> DEFINE m == <<seat.selection, "cancelled">>
           told == IF seat.selection = NoSource THEN Fresh ELSE Hear(Fresh, m[1], m[2])
           chosen == [told EXCEPT !.selection = s]
           K == Killed(chosen.offers, "selection")
           dead == [chosen EXCEPT !.offers = K]
<1>4. seat' = SendSelection(dead, s)
  BY <1>3 DEF RequestSelection, SetCurrentSelection, SetSelection, FreshIs
<1>5. /\ SeatOK(told, Dragged) /\ SameKeyboard(Fresh, told) /\ SamePointer(Fresh, told)
      /\ told.source = Fresh.source /\ told.hooked = Fresh.hooked
      /\ told.cursor = Fresh.cursor
  <2>1. CASE seat.selection = NoSource
    <3>1. told = Fresh
      BY <2>1
    <3> HIDE DEF told
    <3> QED  BY <3>1 DEF FreshIs, SameKeyboard, SamePointer
  <2>2. CASE seat.selection # NoSource
    <3>1. m \in Messages
      BY <2>2 DEF Messages, SeatOK, SeatType
    <3>2. told = Hear(Fresh, m[1], m[2])
      BY <2>2
    <3> HIDE DEF m, told
    <3> \A x \in Messages : \A y :
          y = Hear(Fresh, x[1], x[2]) =>
            /\ SeatOK(y, Dragged) /\ SameKeyboard(Fresh, y) /\ SamePointer(Fresh, y)
            /\ y.source = Fresh.source /\ y.hooked = Fresh.hooked /\ y.cursor = Fresh.cursor
      BY Heard DEF FreshIs
    <3> QED  BY <3>1, <3>2
  <2> QED  BY <2>1, <2>2
<1> HIDE DEF told
<1>6. /\ chosen \in SeatType /\ chosen.offers = told.offers /\ chosen.selection = s
      /\ SameKeyboard(told, chosen) /\ SamePointer(told, chosen) /\ chosen.source = told.source
      /\ chosen.hooked = told.hooked /\ chosen.cursor = told.cursor
  BY <1>5 DEF SeatOK, SeatType, SameKeyboard, SamePointer
<1> HIDE DEF chosen
<1>7. /\ K \in Seq(AnOffer)
      /\ \A i \in DOMAIN K :
           /\ K[i].source \in Selected \cup Dragged \cup {NoSource}
           /\ ~K[i].dead => K[i].source \notin Selected
  <2>1. OffersOK(told.offers, told.kb, told.selection, Dragged)
    BY <1>5 DEF SeatOK
  <2> QED  BY <1>6, <2>1, KilledIsOffers DEF OffersOK, OfferOK, Selected
<1> HIDE DEF K
<1>8. /\ dead \in SeatType /\ dead.offers = K /\ dead.selection = s
      /\ SameKeyboard(chosen, dead) /\ SamePointer(chosen, dead) /\ dead.source = chosen.source
      /\ dead.hooked = chosen.hooked /\ dead.cursor = chosen.cursor
  BY <1>6, <1>7 DEF SeatType, SameKeyboard, SamePointer
<1> HIDE DEF dead
<1> DEFINE n == IF seat.kb \notin devices THEN K ELSE Append(K, Offer(s, seat.kb))
           o == IF seat.kb \notin devices THEN dead.told ELSE s
<1>9. dead.kb = seat.kb /\ dead.told = seat.told
  BY <1>5, <1>6, <1>8 DEF SameKeyboard, FreshIs
<1>10. seat' = [dead EXCEPT !.told = o, !.offers = n]
  <2>1. CASE seat.kb \notin devices
    <3>1. seat' = dead /\ o = dead.told /\ n = dead.offers
      BY <1>4, <1>8, <1>9, <2>1 DEF SendSelection
    <3> HIDE DEF n, o
    <3>2. dead = [dead EXCEPT !.told = dead.told, !.offers = dead.offers]
      BY <1>8 DEF SeatType
    <3> QED  BY <3>1, <3>2
  <2>2. CASE seat.kb \in devices
    BY <1>2, <1>4, <1>8, <1>9, <2>2 DEF SendSelection
  <2> QED  BY <2>1, <2>2
<1>11. /\ n \in Seq(AnOffer)
       /\ \A i \in DOMAIN n :
            /\ n[i].source \in Selected \cup {s} \cup Dragged \cup {NoSource}
            /\ ~n[i].dead /\ n[i].source \in Selected \cup {s}
                 => n[i].client = seat.kb /\ n[i].source = s
  <2>1. CASE seat.kb \notin devices
    <3>1. n = K
      BY <2>1
    <3> HIDE DEF n
    <3> QED  BY <1>2, <1>7, <3>1, DataAssumption
  <2>2. CASE seat.kb \in devices
    <3>1. n = Append(K, Offer(s, seat.kb))
      BY <2>2
    <3> HIDE DEF n
    <3>2. /\ Offer(s, seat.kb) \in AnOffer
          /\ Offer(s, seat.kb).source = s /\ Offer(s, seat.kb).client = seat.kb
      BY <2>2 DEF Offer, AnOffer
    <3>3. /\ n \in Seq(AnOffer) /\ Len(K) \in Nat /\ DOMAIN K = 1..Len(K)
          /\ Len(n) = Len(K) + 1 /\ DOMAIN n = 1..Len(n)
          /\ \A i \in 1..Len(K) : n[i] = K[i]
          /\ n[Len(K) + 1] = Offer(s, seat.kb)
      BY <1>7, <3>1, <3>2, AppendProperties
    <3>4. \A i \in DOMAIN n : i \in DOMAIN K \/ i = Len(K) + 1
      BY <3>3
    <3>5. ASSUME NEW i \in DOMAIN n
          PROVE  /\ n[i].source \in Selected \cup {s} \cup Dragged \cup {NoSource}
                 /\ ~n[i].dead /\ n[i].source \in Selected \cup {s}
                      => n[i].client = seat.kb /\ n[i].source = s
      <4>1. CASE i \in DOMAIN K
        BY <1>2, <1>7, <3>3, <4>1
      <4>2. CASE i = Len(K) + 1
        BY <3>2, <3>3, <4>2
      <4> QED  BY <3>4, <4>1, <4>2
    <3> QED  BY <3>3, <3>5
  <2> QED  BY <2>1, <2>2
<1>12. o \in Sources \cup {NoSource} /\ (seat.kb \in devices => o = s)
  BY <1>8 DEF SeatType
<1> HIDE DEF n, o
<1>13. /\ seat' \in SeatType /\ seat'.told = o /\ seat'.offers = n /\ seat'.kb = dead.kb
       /\ seat'.selection = s /\ SamePointer(dead, seat') /\ seat'.source = dead.source
       /\ seat'.hooked = dead.hooked /\ seat'.cursor = dead.cursor
  BY <1>8, <1>10, <1>11, <1>12 DEF SeatType, SamePointer
<1>14. /\ SamePointer(seat, seat') /\ seat'.source = seat.source
       /\ seat'.hooked = seat.hooked /\ seat'.cursor = seat.cursor
  BY <1>5, <1>6, <1>8, <1>13 DEF SamePointer, FreshIs
<1>15. SeatOK(seat, Dragged)'
  <2>1. OffersOK(seat.offers, seat.kb, seat.selection, Dragged)'
    BY <1>2, <1>9, <1>11, <1>13 DEF OffersOK, OfferOK
  <2>2. /\ seat'.hooked \/ seat'.device # NoClient => seat'.source # NoSource
        /\ seat'.source \in Dragged \cup {NoSource}
    BY <1>14 DEF SeatOK, SamePointer, Active
  <2>3. seat'.selection \in Selected' \cup {NoSource}
    BY <1>2, <1>13
  <2> QED  BY <1>2, <1>13, <2>1, <2>2, <2>3 DEF SeatOK, Active, SeatType, MaybeClient, AnOffer, Messages
<1>16. Informed'
  BY <1>9, <1>12, <1>13 DEF DeviceInv, Informed, Knows, RequestSelection
<1>17. CursorGivenBack' /\ Taken(seat)' /\ LeftBeforeEntered' /\ Told
  BY <1>14 DEF DeviceInv, CursorGivenBack, Taken, LeftBeforeEntered, Told,
               SamePointer, RequestSelection, Active
<1>18. use' \in [Sources -> {"new", "selection", "drag", "gone"}]
  BY <1>1
<1> QED  BY <1>15, <1>16, <1>17, <1>18 DEF DeviceInv, RequestSelection, Room

\* A source that goes takes the selection and the drag with it, and its offers
\* have none.
LEMMA DestroySourceKeeps ==
  ASSUME DeviceInv, NEW s \in Sources, DestroySource(s)
  PROVE  DeviceInv' /\ Told
<1> USE Finds
<1> DEFINE freed == IF seat.selection = s THEN SetCurrentSelection(Fresh, NoSource) ELSE Fresh
<1>1. PICK follow \in BOOLEAN :
        seat' = [(IF freed.source = s THEN AbortDrag(freed, follow) ELSE freed) EXCEPT !.offers =
            [i \in DOMAIN @ |-> IF @[i].source = s THEN [@[i] EXCEPT !.source = NoSource]
                                ELSE @[i]]]
  BY DEF DestroySource
<1> DEFINE ended == IF freed.source = s THEN AbortDrag(freed, follow) ELSE freed
           n == [i \in DOMAIN ended.offers |->
                   IF ended.offers[i].source = s THEN [ended.offers[i] EXCEPT !.source = NoSource]
                   ELSE ended.offers[i]]
<1>2. seat' = [ended EXCEPT !.offers = n]
  BY <1>1
<1>3. /\ use \in [Sources -> {"new", "selection", "drag", "gone"}]
      /\ use' = [use EXCEPT ![s] = "gone"] /\ s # NoSource
  BY DataAssumption DEF DeviceInv, DestroySource
<1>4. /\ Selected' = Selected \ {s} /\ Dragged' = Dragged \ {s}
  BY <1>3 DEF Selected, Dragged
<1>5. /\ SeatOK(freed, Dragged) /\ freed.selection # s /\ StillKnows(Fresh, freed)
      /\ SamePointer(Fresh, freed) /\ freed.source = seat.source
      /\ freed.hooked = seat.hooked /\ freed.cursor = seat.cursor
  <2>1. CASE seat.selection = s
    <3>1. freed = SetCurrentSelection(Fresh, NoSource)
      BY <2>1
    <3> HIDE DEF freed
    <3> QED  BY <1>3, <3>1, SelectionChanged DEF FreshIs, StillKnows
  <2>2. CASE seat.selection # s
    <3>1. freed = Fresh
      BY <2>2
    <3> HIDE DEF freed
    <3> QED  BY <2>2, <3>1 DEF FreshIs, StillKnows, SamePointer
  <2> QED  BY <2>1, <2>2
<1> HIDE DEF freed
<1>6. /\ SeatOK(ended, Dragged) /\ ended.selection # s /\ ended.source # s
      /\ StillKnows(freed, ended)
      /\ Tidy(freed) => Tidy(ended)
      /\ ended.cursor => ended.hooked \/ (freed.cursor /\ ~freed.hooked)
      /\ freed.source = s => <<s, "cancelled">> \in ended.heard
      /\ freed.source # s => ended.source = freed.source
      /\ Active(freed) /\ ~Active(ended) /\ Taken(freed) /\ ~canvas => ended.ptr = under
      /\ Taken(freed) => Taken(ended)
  <2>1. CASE freed.source = s
    <3>1. ended = AbortDrag(freed, follow)
      BY <2>1
    <3>2. Active(freed)
      BY <1>3, <2>1 DEF Active
    <3> HIDE DEF ended
    <3>3. /\ SeatOK(ended, Dragged) /\ StillKnows(freed, ended)
          /\ ended.selection = freed.selection
          /\ ~Active(ended) /\ ~ended.hooked /\ ~ended.cursor
          /\ Tidy(freed) => Tidy(ended)
          /\ ended.heard = freed.heard \cup {<<freed.source, "cancelled">>}
          /\ Taken(freed) /\ ~canvas => ended.ptr = under
      BY <1>5, <3>1, <3>2, DragAborted
    <3> QED  BY <1>3, <1>5, <2>1, <3>3 DEF Active, Taken
  <2>2. CASE freed.source # s
    <3>1. ended = freed
      BY <2>2
    <3> HIDE DEF ended
    <3> QED  BY <1>5, <2>2, <3>1 DEF StillKnows, Active, SeatOK, SeatType
  <2> QED  BY <2>1, <2>2
<1> HIDE DEF ended
<1>7. /\ ended.offers \in Seq(AnOffer)
      /\ \A i \in DOMAIN ended.offers :
           OfferOK(ended.offers[i], ended.kb, ended.selection, Dragged)
  BY <1>6 DEF SeatOK, OffersOK
<1>8. /\ n \in Seq(AnOffer)
      /\ \A i \in DOMAIN n :
           /\ n[i].source \in Selected' \cup Dragged' \cup {NoSource}
           /\ ~n[i].dead /\ n[i].source \in Selected'
                => n[i].client = ended.kb /\ n[i].source = ended.selection
  <2>1. DOMAIN ended.offers = 1..Len(ended.offers) /\ Len(ended.offers) \in Nat
    BY <1>7
  <2>2. \A o \in AnOffer :
          /\ [o EXCEPT !.source = NoSource] \in AnOffer
          /\ [o EXCEPT !.source = NoSource].source = NoSource
    BY DEF AnOffer
  <2>3. \A i \in DOMAIN ended.offers : ended.offers[i] \in AnOffer
    BY <1>7
  <2>4. \A i \in DOMAIN ended.offers : n[i] \in AnOffer
    BY <2>2, <2>3
  <2>5. n \in Seq(AnOffer) /\ DOMAIN n = DOMAIN ended.offers
    <3>1. DOMAIN n = DOMAIN ended.offers /\ n = [i \in DOMAIN ended.offers |-> n[i]]
      OBVIOUS
    <3> HIDE DEF n
    <3>2. [i \in DOMAIN ended.offers |-> n[i]] \in [1..Len(ended.offers) -> AnOffer]
      BY <2>1, <2>4
    <3>3. n \in [1..Len(ended.offers) -> AnOffer]
      BY <3>1, <3>2
    <3> QED  BY <2>1, <3>1, <3>3
  <2>6. ASSUME NEW i \in DOMAIN ended.offers
        PROVE  /\ n[i].source \in Selected' \cup Dragged' \cup {NoSource}
               /\ ~n[i].dead /\ n[i].source \in Selected'
                    => n[i].client = ended.kb /\ n[i].source = ended.selection
    <3>1. CASE ended.offers[i].source = s
      <4>1. n[i].source = NoSource
        BY <2>2, <2>3, <3>1
      <4> HIDE DEF n
      <4> QED  BY <4>1, DataAssumption DEF Selected
    <3>2. CASE ended.offers[i].source # s
      <4>1. n[i] = ended.offers[i]
        BY <3>2
      <4> HIDE DEF n
      <4> QED  BY <1>4, <1>7, <3>2, <4>1 DEF OfferOK
    <3> QED  BY <3>1, <3>2
  <2> HIDE DEF n
  <2> QED  BY <2>5, <2>6
<1> HIDE DEF n
<1>9. /\ seat' \in SeatType /\ seat'.offers = n /\ SameKeyboard(ended, seat')
      /\ SameDrag(ended, seat') /\ SamePointer(ended, seat')
  BY <1>2, <1>6, <1>8 DEF SeatOK, SeatType, SameKeyboard, SameDrag, SamePointer
<1>10. SeatOK(seat, Dragged)'
  <2>1. OffersOK(seat.offers, seat.kb, seat.selection, Dragged)'
    BY <1>8, <1>9 DEF OffersOK, OfferOK, SameKeyboard, SameDrag
  <2>2. /\ seat'.hooked \/ seat'.device # NoClient => seat'.source # NoSource
        /\ seat'.source \in Dragged' \cup {NoSource}
        /\ seat'.selection \in Selected' \cup {NoSource}
    BY <1>4, <1>6, <1>9 DEF SeatOK, SamePointer, SameDrag, Active
  <2> QED  BY <1>9, <2>1, <2>2 DEF SeatOK, Active, SeatType, MaybeClient, AnOffer, Messages
<1>11. StillKnows(seat, seat')
  BY <1>5, <1>6, <1>9 DEF StillKnows, Knows, SameKeyboard, SameDrag, FreshIs
<1>12. Informed' /\ late' \in BOOLEAN
  BY <1>9, <1>11 DEF DeviceInv, Informed, StillKnows, Knows, Missed, DestroySource, SeatType
<1>13. Told
  BY <1>5, <1>6, <1>9 DEF Told, SameDrag, SamePointer, Active, Taken, DeviceInv, FreshIs
<1>14. CursorGivenBack' /\ Taken(seat)' /\ LeftBeforeEntered'
  <2>1. UNCHANGED <<under, held, canvas, crossed>>
    BY DEF DestroySource
  <2>2. CursorGivenBack'
    BY <1>5, <1>6, <1>9, <2>1 DEF DeviceInv, CursorGivenBack, SameDrag
  <2>3. Taken(seat)'
    BY <1>5, <1>6, <1>9, <2>1 DEF DeviceInv, Taken, SameDrag, SamePointer, FreshIs, Active
  <2>4. LeftBeforeEntered'
    BY <1>5, <1>6, <1>9, <2>1 DEF DeviceInv, LeftBeforeEntered, SamePointer, FreshIs, Tidy
  <2> QED  BY <2>2, <2>3, <2>4
<1>15. use' \in [Sources -> {"new", "selection", "drag", "gone"}]
  BY <1>3
<1> QED  BY <1>10, <1>12, <1>13, <1>14, <1>15 DEF DeviceInv, DestroySource, Room

(***************************************************************************)
(* What can be dropped.  While the hooks wait for the drop, a device that  *)
(* is pointed to is entered, and who made a live offer of what is dragged  *)
(* its own is the client of that device: the offers of the drag are dead   *)
(* before another device is entered, and a device that goes leaves none.   *)
(***************************************************************************)
Aimed(d) ==
  d.hooked /\ d.device # NoClient =>
    /\ d.device \in d.inside
    /\ \A i \in DOMAIN d.offers :
         ~d.offers[i].dead /\ d.offers[i].source = d.source => d.offers[i].client = d.device

\* No client was told of a drop.
Quiet(d) == \A c \in Clients : <<c, "drop">> \notin d.heard

LEMMA AimStays ==
  ASSUME NEW d, NEW e, Aimed(d), SamePointer(d, e), e.source = d.source,
         e.hooked = d.hooked,
         \A j \in DOMAIN e.offers :
           ~e.offers[j].dead /\ e.offers[j].source = d.source =>
             \E i \in DOMAIN d.offers :
               /\ ~d.offers[i].dead /\ d.offers[i].source = d.source
               /\ d.offers[i].client = e.offers[j].client
  PROVE  Aimed(e)
BY DEF Aimed, SamePointer

\* An offer of something else is made.
LEMMA AppendedElse ==
  ASSUME NEW offers \in Seq(AnOffer), NEW o \in AnOffer
  PROVE  /\ Append(offers, o) \in Seq(AnOffer)
         /\ \A i \in DOMAIN Append(offers, o) :
              \/ i \in DOMAIN offers /\ Append(offers, o)[i] = offers[i]
              \/ Append(offers, o)[i] = o
<1> DEFINE more == Append(offers, o)
<1>1. /\ more \in Seq(AnOffer)
      /\ Len(more) = Len(offers) + 1
      /\ \A i \in 1..Len(offers) : more[i] = offers[i]
      /\ more[Len(offers) + 1] = o
      /\ Len(offers) \in Nat /\ DOMAIN offers = 1..Len(offers) /\ DOMAIN more = 1..Len(more)
  BY AppendProperties
<1>2. \A i \in DOMAIN more : i \in DOMAIN offers \/ i = Len(offers) + 1
  BY <1>1
<1> HIDE DEF more
<1> QED  BY <1>1, <1>2 DEF more

LEMMA AimSent ==
  ASSUME NEW d \in SeatType, NEW s \in Sources \cup {NoSource}, devices \subseteq Clients,
         Aimed(d), d.hooked => d.source # s, NEW e, e = SendSelection(d, s)
  PROVE  Aimed(e) /\ e.heard = d.heard
<1>1. CASE d.kb \notin devices
  BY <1>1 DEF SendSelection
<1>2. CASE d.kb \in devices
  <2> DEFINE o == IF s = NoSource THEN d.offers ELSE Append(d.offers, Offer(s, d.kb))
  <2>1. e = [d EXCEPT !.told = s, !.offers = o]
    BY <1>2 DEF SendSelection
  <2>2. d.offers \in Seq(AnOffer)
    BY DEF SeatType
  <2>3. /\ o \in Seq(AnOffer)
        /\ \A j \in DOMAIN o : \/ j \in DOMAIN d.offers /\ o[j] = d.offers[j]
                               \/ o[j].source = s
    <3>1. CASE s = NoSource
      BY <2>2, <3>1
    <3>2. CASE s # NoSource
      <4>1. Offer(s, d.kb) \in AnOffer /\ Offer(s, d.kb).source = s
        BY <1>2, <3>2 DEF Offer, AnOffer
      <4>2. o = Append(d.offers, Offer(s, d.kb))
        BY <3>2
      <4> HIDE DEF o
      <4> QED  BY <2>2, <4>1, <4>2, AppendedElse
    <3> QED  BY <3>1, <3>2
  <2> HIDE DEF o
  <2>4. /\ e.offers = o /\ SamePointer(d, e) /\ e.source = d.source /\ e.hooked = d.hooked
        /\ e.heard = d.heard
    BY <2>1, <2>3 DEF SeatType, SamePointer
  <2> QED  BY <2>3, <2>4 DEF Aimed, SamePointer
<1> QED  BY <1>1, <1>2

LEMMA AimOfKeyboard ==
  ASSUME NEW D \in DragSources, NEW d, SeatOK(d, D), devices \subseteq Clients,
         NEW c \in MaybeClient, Aimed(d), NEW e, e = SetKeyboardFocus(d, c)
  PROVE  Aimed(e)
<1>1. CASE c = d.kb
  BY <1>1 DEF SetKeyboardFocus
<1>2. CASE c # d.kb
  <2> DEFINE m == [d EXCEPT !.kb = c, !.told = NoSource]
             k == [m EXCEPT !.offers = Killed(m.offers, "selection")]
  <2>1. /\ m \in SeatType /\ m.offers = d.offers /\ SamePointer(d, m) /\ m.source = d.source
        /\ m.hooked = d.hooked /\ m.selection = d.selection
    BY DEF SeatOK, SeatType, SamePointer
  <2>2. d.offers \in Seq(AnOffer)
    BY DEF SeatOK, OffersOK
  <2>3. e = SendSelection(k, k.selection)
    BY <1>2, <2>1 DEF SetKeyboardFocus, OnKeyboardFocus
  <2> HIDE DEF m
  <2>4. /\ Killed(d.offers, "selection") \in Seq(AnOffer)
        /\ DOMAIN Killed(d.offers, "selection") = DOMAIN d.offers
        /\ \A i \in DOMAIN d.offers :
             /\ Killed(d.offers, "selection")[i].source = d.offers[i].source
             /\ Killed(d.offers, "selection")[i].client = d.offers[i].client
             /\ ~Killed(d.offers, "selection")[i].dead => ~d.offers[i].dead
    BY <2>2, KilledIsOffers
  <2>5. /\ k \in SeatType /\ k.offers = Killed(d.offers, "selection") /\ SamePointer(m, k)
        /\ k.source = m.source /\ k.hooked = m.hooked /\ k.selection = m.selection
    BY <2>1, <2>4 DEF SeatType, SamePointer
  <2> HIDE DEF k
  <2>6. Aimed(k)
    BY <2>1, <2>4, <2>5, AimStays DEF SamePointer
  <2>7. k.selection \in Sources \cup {NoSource} /\ (k.hooked => k.source # k.selection)
    BY <2>1, <2>5, DataAssumption DEF SeatOK, SeatType, Active, DragSources
  <2> QED  BY <2>3, <2>5, <2>6, <2>7, AimSent
<1> QED  BY <1>1, <1>2

\* What is entered is offered the drag, and no one else holds an offer of it.
LEMMA AimUpdated ==
  ASSUME NEW D \in DragSources, NEW d, SeatOK(d, D), devices \subseteq Clients, Active(d),
         d.dnd # NoClient \/ d.device = NoClient,
         \A i \in DOMAIN d.offers : d.offers[i].dead \/ d.offers[i].source # d.source,
         NEW e, e = UpdateDrag(d)
  PROVE  Aimed(e)
<1> DEFINE left == [d EXCEPT !.inside = @ \ {d.device}]
           o == Append(d.offers, Offer(d.source, d.dnd))
           n == left.inside \cup {d.dnd}
<1>1. left \in SeatType /\ left.device = d.device /\ left.source = d.source /\ left.offers = d.offers
  BY DEF SeatOK, SeatType
<1>2. CASE d.dnd = NoClient
  <2>1. e = left
    BY <1>2 DEF UpdateDrag
  <2> QED  BY <1>1, <1>2, <2>1 DEF Aimed
<1>3. CASE d.dnd # NoClient /\ d.dnd \notin devices
  <2>1. e = [left EXCEPT !.device = NoClient]
    BY <1>3 DEF UpdateDrag
  <2> HIDE DEF left
  <2>2. e.device = NoClient
    BY <1>1, <2>1 DEF SeatType
  <2> QED  BY <2>2 DEF Aimed
<1>4. CASE d.dnd # NoClient /\ d.dnd \in devices
  <2>1. e = [left EXCEPT !.device = d.dnd, !.inside = n, !.offers = o]
    BY <1>1, <1>4 DEF UpdateDrag
  <2>2. /\ d.offers \in Seq(AnOffer) /\ Offer(d.source, d.dnd) \in AnOffer
        /\ Offer(d.source, d.dnd).client = d.dnd
    BY <1>4 DEF SeatOK, SeatType, Offer, AnOffer
  <2>3. \A j \in DOMAIN o : (j \in DOMAIN d.offers /\ o[j] = d.offers[j]) \/ o[j].client = d.dnd
    BY <2>2, AppendedElse
  <2>4. d.dnd \in n
    OBVIOUS
  <2> HIDE DEF left, o, n
  <2>5. e.device = d.dnd /\ e.inside = n /\ e.offers = o /\ e.source = d.source
    BY <1>1, <2>1 DEF SeatType
  <2> QED  BY <2>3, <2>4, <2>5 DEF Aimed
<1> QED  BY <1>2, <1>3, <1>4

\* No drag, nothing to aim at.
LEMMA Unaimed ==
  ASSUME NEW D, NEW d, SeatOK(d, D), ~Active(d) PROVE Aimed(d)
BY DEF SeatOK, Aimed

LEMMA AimOfDrag ==
  ASSUME Dragged \in DragSources, NEW d, SeatOK(d, Dragged), devices \subseteq Clients,
         Active(d) => d.dnd # NoClient, NEW e, e = OnDndPointerFocus(d)
  PROVE  Aimed(e)
<1>1. CASE ~Active(d)
  <2>1. SeatOK(e, Dragged) /\ SameDrag(d, e)
    BY DragRefocused
  <2> QED  BY <1>1, <2>1, Unaimed DEF SameDrag, Active
<1>2. CASE Active(d)
  <2> DEFINE k == [d EXCEPT !.offers = Killed(@, "drag")]
  <2>1. e = UpdateDrag(k)
    BY DEF OnDndPointerFocus
  <2>2. OffersOK(Killed(d.offers, "drag"), d.kb, d.selection, Dragged)
    BY KilledDrag DEF SeatOK
  <2>3. /\ k \in SeatType /\ SameDrag(d, k) /\ SameKeyboard(d, k) /\ SamePointer(d, k)
        /\ k.offers = Killed(d.offers, "drag")
    BY <2>2 DEF SeatOK, SeatType, OffersOK, SameDrag, SameKeyboard, SamePointer
  <2> HIDE DEF k
  <2>4. SeatOK(k, Dragged)
    BY <2>2, <2>3 DEF SeatOK, Active, SameDrag, SameKeyboard, SamePointer
  <2>5. use[d.source] = "drag"
    BY <1>2 DEF SeatOK, Active, Dragged
  <2>6. d.offers \in Seq(AnOffer)
    BY DEF SeatOK, SeatType
  <2>7. \A i \in DOMAIN k.offers : k.offers[i].dead \/ k.offers[i].source # k.source
    BY <2>3, <2>5, <2>6, KilledIsOffers DEF SameDrag
  <2>8. Active(k) /\ k.dnd # NoClient
    BY <1>2, <2>3 DEF Active, SameDrag, SamePointer
  <2> QED  BY <2>1, <2>4, <2>7, <2>8, AimUpdated
<1> QED  BY <1>1, <1>2

LEMMA AimOfPointer ==
  ASSUME Dragged \in DragSources, NEW d, SeatOK(d, Dragged), devices \subseteq Clients,
         NEW c \in MaybeClient, Aimed(d), NEW e, e = SetPointerFocus(d, c)
  PROVE  Aimed(e)
<1> DEFINE m == [d EXCEPT !.dnd = c]
           n == [d EXCEPT !.ptr = c, !.dnd = c]
<1>1. /\ m \in SeatType /\ SameDrag(d, m) /\ SameKeyboard(d, m) /\ m.device = d.device
      /\ m.inside = d.inside /\ m.offers = d.offers /\ m.dnd = c
      /\ n \in SeatType /\ SameDrag(d, n) /\ SameKeyboard(d, n) /\ n.device = d.device
      /\ n.inside = d.inside /\ n.offers = d.offers /\ n.dnd = c
  BY DEF SeatOK, SeatType, SameDrag, SameKeyboard
<1>2. \/ e \in {d, n}
      \/ c # NoClient /\ e \in {OnDndPointerFocus(m), OnDndPointerFocus(n)}
  BY DEF SetPointerFocus
<1> HIDE DEF m, n
<1>3. SeatOK(m, Dragged) /\ SeatOK(n, Dragged)
  BY <1>1 DEF SeatOK, Active, SameDrag, SameKeyboard
<1>4. Aimed(n)
  BY <1>1 DEF Aimed, SameDrag
<1>5. CASE e \in {d, n}
  BY <1>4, <1>5
<1>6. CASE c # NoClient /\ e \in {OnDndPointerFocus(m), OnDndPointerFocus(n)}
  <2>1. Aimed(OnDndPointerFocus(m)) /\ Aimed(OnDndPointerFocus(n))
    BY <1>1, <1>3, <1>6, AimOfDrag
  <2> QED  BY <1>6, <2>1
<1> QED  BY <1>2, <1>5, <1>6

LEMMA AimOfMouse ==
  ASSUME Dragged \in DragSources, NEW d, SeatOK(d, Dragged), devices \subseteq Clients,
         NEW u \in MaybeClient, NEW h \in BOOLEAN, NEW follow \in BOOLEAN,
         Aimed(d), NEW e, e = MouseMove(d, u, h, follow)
  PROVE  Aimed(e)
<1>1. PICK f \in {u, d.ptr} :
        \/ e = d
        \/ e = SetPointerFocus(d, f)
        \/ e = SetPointerFocus(SetKeyboardFocus(d, f), f)
  BY DEF MouseMove
<1>2. f \in MaybeClient
  BY DEF SeatOK, SeatType
<1>3. CASE e = SetPointerFocus(d, f)
  BY <1>2, <1>3, AimOfPointer
<1>4. CASE e = SetPointerFocus(SetKeyboardFocus(d, f), f)
  <2> DEFINE k == SetKeyboardFocus(d, f)
  <2>1. SeatOK(k, Dragged) /\ Aimed(k)
    <3>1. k = SetKeyboardFocus(d, f)
      OBVIOUS
    <3> HIDE DEF k
    <3> QED  BY <1>2, <3>1, KeyboardMoves, AimOfKeyboard
  <2>2. e = SetPointerFocus(k, f)
    BY <1>4
  <2> HIDE DEF k
  <2> QED  BY <1>2, <2>1, <2>2, AimOfPointer
<1> QED  BY <1>1, <1>3, <1>4

LEMMA AimOfSelection ==
  ASSUME NEW D \in DragSources, NEW d, SeatOK(d, D), devices \subseteq Clients,
         NEW s \in Sources \cup {NoSource}, d.hooked => d.source # s,
         Aimed(d), Quiet(d), NEW e, e = SetCurrentSelection(d, s)
  PROVE  Aimed(e) /\ Quiet(e)
<1>1. CASE s = d.selection
  BY <1>1 DEF SetCurrentSelection
<1>2. CASE s # d.selection
  <2> DEFINE m == <<d.selection, "cancelled">>
             told == IF d.selection = NoSource THEN d ELSE Hear(d, m[1], m[2])
             chosen == [told EXCEPT !.selection = s]
             dead == [chosen EXCEPT !.offers = Killed(d.offers, "selection")]
  <2>1. /\ SeatOK(told, D) /\ SamePointer(d, told) /\ told.source = d.source
        /\ told.hooked = d.hooked /\ told.offers = d.offers /\ Quiet(told)
    <3>1. CASE d.selection = NoSource
      <4>1. told = d
        BY <3>1
      <4> QED  BY <4>1 DEF SamePointer
    <3>2. CASE d.selection # NoSource
      <4>1. m \in Messages
        BY <3>2 DEF Messages, SeatOK, SeatType
      <4>2. told = Hear(d, m[1], m[2])
        BY <3>2
      <4>3. \A c : <<c, "drop">> # m
        OBVIOUS
      <4> HIDE DEF m, told
      <4>4. \A x \in Messages : \A y :
            y = Hear(d, x[1], x[2]) =>
              /\ SeatOK(y, D) /\ SamePointer(d, y) /\ y.heard = d.heard \cup {x}
              /\ y.source = d.source /\ y.hooked = d.hooked /\ y.offers = d.offers
        BY Heard
      <4> QED  BY <4>1, <4>2, <4>3, <4>4 DEF Quiet
    <3> QED  BY <3>1, <3>2
  <2>2. e = SendSelection(dead, s)
    <3>1. dead = [chosen EXCEPT !.offers = Killed(chosen.offers, "selection")]
      <4> HIDE DEF told
      <4>1. chosen.offers = told.offers
        BY <2>1 DEF SeatOK, SeatType
      <4> QED  BY <2>1, <4>1
    <3> QED  BY <1>2, <3>1 DEF SetCurrentSelection, SetSelection
  <2> HIDE DEF told
  <2>3. /\ chosen \in SeatType /\ SamePointer(told, chosen) /\ chosen.source = told.source
        /\ chosen.hooked = told.hooked /\ chosen.heard = told.heard
    BY <2>1 DEF SeatOK, SeatType, SamePointer
  <2> HIDE DEF chosen
  <2>4. d.offers \in Seq(AnOffer)
    BY DEF SeatOK, OffersOK
  <2>5. /\ Killed(d.offers, "selection") \in Seq(AnOffer)
        /\ DOMAIN Killed(d.offers, "selection") = DOMAIN d.offers
        /\ \A i \in DOMAIN d.offers :
             /\ Killed(d.offers, "selection")[i].source = d.offers[i].source
             /\ Killed(d.offers, "selection")[i].client = d.offers[i].client
             /\ ~Killed(d.offers, "selection")[i].dead => ~d.offers[i].dead
    BY <2>4, KilledIsOffers
  <2>6. /\ dead \in SeatType /\ dead.offers = Killed(d.offers, "selection")
        /\ SamePointer(chosen, dead) /\ dead.source = chosen.source
        /\ dead.hooked = chosen.hooked /\ dead.heard = chosen.heard
    BY <2>3, <2>5 DEF SeatType, SamePointer
  <2> HIDE DEF dead
  <2>7. SamePointer(d, dead) /\ dead.source = d.source /\ dead.hooked = d.hooked
        /\ dead.heard = told.heard
    BY <2>1, <2>3, <2>6 DEF SamePointer
  <2>8. Aimed(dead)
    BY <2>5, <2>6, <2>7, AimStays
  <2>9. Aimed(e) /\ e.heard = dead.heard
    BY <2>2, <2>6, <2>7, <2>8, AimSent
  <2> QED  BY <2>1, <2>7, <2>9 DEF Quiet
<1> QED  BY <1>1, <1>2

\* An abort leaves nothing to aim at, and so does a drag that is completed.
LEMMA AimOfAbort ==
  ASSUME NEW D \in DragSources, NEW d, SeatOK(d, D), devices \subseteq Clients,
         under \in MaybeClient, held \in BOOLEAN, NEW follow \in BOOLEAN, Quiet(d),
         NEW e, e \in {AbortDrag(d, follow), CompleteDrag(d, follow)}
  PROVE  Aimed(e) /\ Quiet(e)
<1>1. CASE e = AbortDrag(d, follow)
  <2>1. /\ SeatOK(e, D) /\ ~Active(e)
        /\ ~Active(d) => e.heard = d.heard
        /\ Active(d) => e.heard = d.heard \cup {<<d.source, "cancelled">>}
    BY <1>1, DragAborted
  <2> QED  BY <2>1, Unaimed DEF Quiet
<1>2. CASE e = CompleteDrag(d, follow)
  <2>1. /\ SeatOK(e, D) /\ ~Active(e)
        /\ ~Active(d) => e.heard = d.heard
        /\ Active(d) => e.heard = d.heard \cup {<<d.source, "finished">>}
    BY <1>2, DragCompleted
  <2> QED  BY <2>1, Unaimed DEF Quiet
<1> QED  BY <1>1, <1>2

\* A new drag is offered to the client under the pointer alone.
LEMMA AimOfNewDrag ==
  ASSUME Dragged \in DragSources, NEW d, SeatOK(d, Dragged), devices \subseteq Clients,
         under \in MaybeClient, held \in BOOLEAN, NEW follow \in BOOLEAN,
         NEW s \in Sources, s \notin Selected, s \notin Dragged, Quiet(d),
         NEW e, e = InitiateDrag(d, s, follow)
  PROVE  Aimed(e) /\ Quiet(e)
<1> DEFINE free == IF Active(d) THEN AbortDrag(d, follow) ELSE d
           begun == [free EXCEPT !.source = s, !.cursor = TRUE, !.hooked = TRUE]
           out == SetPointerFocus(begun, NoClient)
           kept == [out EXCEPT !.dnd = begun.dnd]
           D == Dragged \cup {s}
<1>1. SeatOK(free, Dragged) /\ ~Active(free) /\ Quiet(free)
  <2>1. CASE Active(d)
    <3>1. free = AbortDrag(d, follow)
      BY <2>1
    <3> HIDE DEF free
    <3>2. free \in {AbortDrag(d, follow), CompleteDrag(d, follow)}
      BY <3>1
    <3> QED  BY <3>1, <3>2, DragAborted, AimOfAbort
  <2>2. CASE ~Active(d)
    BY <2>2
  <2> QED  BY <2>1, <2>2
<1>2. e = UpdateDrag(kept)
  BY DEF InitiateDrag
<1>3. s # NoSource
  BY DataAssumption
<1> HIDE DEF free
<1>4. /\ begun \in SeatType /\ begun.source = s /\ begun.hooked = TRUE
      /\ begun.offers = free.offers /\ begun.selection = free.selection
      /\ begun.heard = free.heard /\ SameKeyboard(free, begun) /\ SamePointer(free, begun)
  BY <1>1 DEF SeatOK, SeatType, SameKeyboard, SamePointer
<1> HIDE DEF begun
<1>5. /\ out \in SeatType /\ SameDrag(begun, out) /\ SameKeyboard(begun, out)
      /\ out.device = begun.device /\ out.inside = begun.inside /\ out.offers = begun.offers
  <2>1. out = begun \/ out = [begun EXCEPT !.ptr = NoClient, !.dnd = NoClient]
    BY DEF SetPointerFocus
  <2> HIDE DEF out
  <2> QED  BY <1>4, <2>1 DEF SeatType, SameDrag, SameKeyboard, MaybeClient
<1> HIDE DEF out
<1>6. begun.dnd \in MaybeClient
  BY <1>4 DEF SeatType
<1>7. /\ kept \in SeatType /\ SameDrag(out, kept) /\ SameKeyboard(out, kept)
      /\ kept.inside = out.inside /\ kept.device = out.device /\ kept.offers = out.offers
  BY <1>5, <1>6 DEF SeatType, SameDrag, SameKeyboard
<1> HIDE DEF kept
<1>8. /\ kept.device = NoClient /\ kept.source = s /\ kept.offers = free.offers
      /\ kept.kb = free.kb /\ kept.selection = free.selection /\ kept.heard = free.heard
  BY <1>1, <1>4, <1>5, <1>7 DEF SeatOK, SameDrag, SameKeyboard, SamePointer
<1>9. D \in DragSources
  BY DEF DragSources
<1>10. SeatOK(kept, D)
  <2>1. OffersOK(kept.offers, kept.kb, kept.selection, Dragged)
    BY <1>1, <1>8 DEF SeatOK
  <2>2. OffersOK(kept.offers, kept.kb, kept.selection, D)
    BY <2>1 DEF OffersOK, OfferOK
  <2>3. kept.selection \in Selected \cup {NoSource} /\ kept.source \in D /\ Active(kept)
    BY <1>1, <1>3, <1>8 DEF SeatOK, Active
  <2> QED  BY <1>7, <2>2, <2>3 DEF SeatOK
<1>11. \A i \in DOMAIN kept.offers : kept.offers[i].dead \/ kept.offers[i].source # kept.source
  BY <1>1, <1>3, <1>8 DEF SeatOK, OffersOK, OfferOK
<1>12. Active(kept)
  BY <1>3, <1>8 DEF Active
<1> HIDE DEF D
<1>13. Aimed(e)
  BY <1>2, <1>8, <1>9, <1>10, <1>11, <1>12, AimUpdated
<1>14. SameDrag(kept, e)
  BY <1>2, <1>9, <1>10, DragUpdated
<1> QED  BY <1>1, <1>8, <1>13, <1>14 DEF SameDrag, Quiet

\* The client took what is dragged.
Took(d, c) ==
  \E i \in DOMAIN d.offers :
    /\ d.offers[i].client = c /\ d.offers[i].source = d.source
    /\ ~d.offers[i].dead /\ (d.offers[i].accepted \/ d.offers[i].recvd)

\* What a drop finds: a device that is entered and an offer its client took.
LEMMA DropHeard ==
  ASSUME NEW D \in DragSources, NEW d, SeatOK(d, D), devices \subseteq Clients,
         under \in MaybeClient, held \in BOOLEAN, NEW follow \in BOOLEAN, Quiet(d),
         d.hooked, Aimed(d), NEW e, e = DropDrag(d, follow),
         NEW c \in Clients, <<c, "drop">> \in e.heard
  PROVE  c \in d.inside /\ Took(d, c)
<1>1. Active(d)
  BY DEF SeatOK
<1>2. CASE d.device = NoClient \/ ~WasDragSuccessful(d)
  <2>1. e \in {AbortDrag(d, follow), CompleteDrag(d, follow)}
    BY <1>1, <1>2 DEF DropDrag
  <2> QED  BY <2>1, AimOfAbort DEF Quiet
<1>3. CASE d.device # NoClient /\ WasDragSuccessful(d)
  <2>1. e.heard = d.heard \cup {<<d.device, "drop">>}
    <3> DEFINE told == Hear(d, d.device, "drop")
               h == d.heard \cup {<<d.device, "drop">>}
    <3>1. e = [told EXCEPT !.inside = told.inside \ {d.device}, !.cursor = FALSE, !.hooked = FALSE]
      BY <1>1, <1>3 DEF DropDrag
    <3>2. told = [d EXCEPT !.heard = h]
      BY DEF Hear
    <3> HIDE DEF h, told
    <3>3. told.heard = h /\ DOMAIN told = DOMAIN d
      BY <3>2 DEF SeatOK, SeatType
    <3>4. e.heard = told.heard
      BY <3>1, <3>2 DEF SeatOK, SeatType
    <3> QED  BY <3>3, <3>4 DEF h
  <2>2. c = d.device
    BY <2>1 DEF Quiet
  <2> QED  BY <1>3, <2>2 DEF Aimed, WasDragSuccessful, Took
<1> QED  BY <1>2, <1>3

\* Every step keeps the aim, and all but the release of a button are quiet.
LEMMA AimFound ==
  ASSUME DeviceInv, Aimed(seat) PROVE Aimed(Fresh) /\ Quiet(Fresh)
BY Finds DEF FreshIs, Aimed, SamePointer, Quiet

LEMMA MovesKeepAim ==
  ASSUME DeviceInv, Aimed(seat),
         \/ \E c \in MaybeClient : Motion(c) \/ FocusSurface(c)
         \/ PressButton \/ AbortDndIfPresent
  PROVE  Aimed(seat') /\ Quiet(seat')
<1> USE Finds, AimFound DEF FreshIs
<1>1. ASSUME NEW u \in MaybeClient, NEW h \in BOOLEAN, NEW follow \in BOOLEAN,
             seat' = MouseMove(Fresh, u, h, follow)
      PROVE  Aimed(seat') /\ Quiet(seat')
  <2>1. SameDrag(Fresh, seat')
    BY <1>1, MouseMoves
  <2> QED  BY <1>1, <2>1, AimOfMouse DEF SameDrag, Quiet
<1>2. ASSUME NEW c \in MaybeClient, Motion(c) PROVE Aimed(seat') /\ Quiet(seat')
  BY <1>1, <1>2 DEF Motion
<1>3. ASSUME NEW c \in MaybeClient, FocusSurface(c) PROVE Aimed(seat') /\ Quiet(seat')
  <2>1. seat' = SetKeyboardFocus(Fresh, c)
    BY <1>3 DEF FocusSurface
  <2>2. SameDrag(Fresh, seat')
    BY <2>1, KeyboardMoves
  <2> QED  BY <2>1, <2>2, AimOfKeyboard DEF SameDrag, Quiet
<1>4. CASE PressButton
  BY <1>1, <1>4 DEF PressButton
<1>5. CASE AbortDndIfPresent
  <2>1. PICK follow \in BOOLEAN : seat' = AbortDrag(Fresh, follow)
    BY <1>5 DEF AbortDndIfPresent
  <2> QED  BY <2>1, AimOfAbort
<1> QED  BY <1>2, <1>3, <1>4, <1>5

\* Letting the button go drops what is dragged.
Wanted ==
  \A c \in Clients : <<c, "drop">> \in seat'.heard =>
    /\ c \in seat.inside
    /\ \E i \in DOMAIN seat.offers :
         LET o == seat.offers[i]
         IN o.client = c /\ o.source = seat.source /\ ~o.dead /\ (o.accepted \/ o.recvd)

LEMMA ReleaseKeepsAim ==
  ASSUME DeviceInv, Aimed(seat), HookRuns PROVE Aimed(seat') /\ Wanted
<1> USE Finds, AimFound DEF FreshIs
<1>1. PICK follow \in BOOLEAN :
        seat' = IF seat.hooked THEN DropDrag(Fresh, follow) ELSE Fresh
  BY DEF HookRuns
<1>2. CASE seat.hooked
  <2>1. seat' = DropDrag(Fresh, follow)
    BY <1>1, <1>2
  <2>2. SeatOK(seat', Dragged) /\ ~seat'.hooked
    BY <1>2, <2>1, DragDropped
  <2>3. ASSUME NEW c \in Clients, <<c, "drop">> \in seat'.heard
        PROVE  c \in Fresh.inside /\ Took(Fresh, c)
    BY <1>2, <2>1, <2>3, DropHeard
  <2>4. Wanted
    BY <2>3 DEF Wanted, SamePointer, Took
  <2> QED  BY <2>2, <2>4 DEF Aimed
<1>3. CASE ~seat.hooked
  <2>1. seat' = Fresh
    BY <1>1, <1>3
  <2> QED  BY <2>1 DEF Quiet, Wanted
<1> QED  BY <1>2, <1>3

\* A device that goes is no longer pointed to.
LEMMA DevicesKeepAim ==
  ASSUME DeviceInv, Aimed(seat), NEW c \in Clients, GetDataDevice(c) \/ ReleaseDataDevice(c)
  PROVE  Aimed(seat') /\ Quiet(seat')
<1> USE Finds, AimFound DEF FreshIs
<1>1. CASE GetDataDevice(c)
  BY <1>1 DEF GetDataDevice
<1>2. CASE ReleaseDataDevice(c)
  <2> DEFINE v == IF Fresh.device = c THEN NoClient ELSE Fresh.device
             n == Fresh.inside \ {c}
             o == IF seat.kb = c THEN NoSource ELSE Fresh.told
  <2>1. seat' = [Fresh EXCEPT !.device = v, !.inside = n, !.told = o]
    BY <1>2 DEF ReleaseDataDevice
  <2>2. v # NoClient => v = Fresh.device /\ (v \in Fresh.inside => v \in n)
    OBVIOUS
  <2> HIDE DEF v, n, o
  <2>3. /\ seat'.device = v /\ seat'.inside = n /\ SameDrag(Fresh, seat')
        /\ seat'.offers = Fresh.offers
    BY <2>1 DEF SeatOK, SeatType, SameDrag
  <2> QED  BY <2>2, <2>3 DEF Aimed, SameDrag, Quiet
<1> QED  BY <1>1, <1>2

\* An offer that is left is one that was there.
LEMMA OffersLeft ==
  ASSUME DeviceInv, Aimed(seat), NEW e, SamePointer(seat, e), e.source = seat.source,
         e.hooked = seat.hooked,
         \A j \in DOMAIN e.offers : \E i \in DOMAIN seat.offers :
           /\ e.offers[j].source = seat.offers[i].source
           /\ e.offers[j].client = seat.offers[i].client
           /\ ~e.offers[j].dead => ~seat.offers[i].dead
  PROVE  Aimed(e)
<1>1. \A j \in DOMAIN e.offers :
        ~e.offers[j].dead /\ e.offers[j].source = seat.source =>
          \E i \in DOMAIN seat.offers :
            /\ ~seat.offers[i].dead /\ seat.offers[i].source = seat.source
            /\ seat.offers[i].client = e.offers[j].client
  OBVIOUS
<1> QED  BY <1>1, AimStays

LEMMA OneOfferAimed ==
  ASSUME DeviceInv, Aimed(seat), NEW i \in DOMAIN seat.offers, NEW o \in AnOffer,
         o.source = seat.offers[i].source, o.client = seat.offers[i].client,
         seat.offers[i].dead => o.dead,
         NEW e, e = [Fresh EXCEPT !.offers = [seat.offers EXCEPT ![i] = o]]
  PROVE  Aimed(e) /\ Quiet(e)
<1> DEFINE n == [seat.offers EXCEPT ![i] = o]
<1>1. OnlyOffers(e) /\ e.heard = {}
  BY OneOfferChanged
<1>2. seat.offers \in Seq(AnOffer)
  BY Finds DEF SeatOK, OffersOK
<1>3. DOMAIN n = DOMAIN seat.offers /\ \A j \in DOMAIN n : n[j] = IF j = i THEN o ELSE seat.offers[j]
  BY <1>2
<1> HIDE DEF n
<1>4. e.offers = n
  BY Finds DEF FreshIs, SeatOK, SeatType, n
<1>5. \A j \in DOMAIN e.offers : \E k \in DOMAIN seat.offers :
           /\ e.offers[j].source = seat.offers[k].source
           /\ e.offers[j].client = seat.offers[k].client
           /\ ~e.offers[j].dead => ~seat.offers[k].dead
  BY <1>3, <1>4
<1> QED  BY <1>1, <1>5, OffersLeft DEF OnlyOffers, Quiet

LEMMA OffersKeepAim ==
  ASSUME DeviceInv, Aimed(seat), NEW i \in DOMAIN seat.offers,
         \/ \E takes \in BOOLEAN : Accept(i, takes)
         \/ Receive(i) \/ Finish(i)
  PROVE  Aimed(seat') /\ Quiet(seat')
<1> DEFINE accepted(t) == [seat.offers[i] EXCEPT !.accepted = t]
           recvd == [seat.offers[i] EXCEPT !.recvd = TRUE]
           o == [seat.offers[i] EXCEPT !.dead = TRUE]
<1>1. seat.offers \in Seq(AnOffer) /\ seat.offers[i] \in AnOffer
  BY Finds DEF SeatOK, OffersOK
<1>2. ASSUME NEW takes \in BOOLEAN, Accept(i, takes) PROVE Aimed(seat') /\ Quiet(seat')
  <2>1. seat' = [Fresh EXCEPT !.offers = [seat.offers EXCEPT ![i] = accepted(takes)]]
    BY <1>2, Finds DEF Accept, FreshIs
  <2>2. /\ accepted(takes) \in AnOffer /\ accepted(takes).source = seat.offers[i].source
        /\ accepted(takes).client = seat.offers[i].client
        /\ accepted(takes).dead = seat.offers[i].dead
    BY <1>1 DEF AnOffer
  <2> HIDE DEF accepted
  <2> QED  BY <2>1, <2>2, OneOfferAimed
<1>3. CASE Receive(i)
  <2>1. seat' = [Fresh EXCEPT !.offers = [seat.offers EXCEPT ![i] = recvd]]
    BY <1>3, Finds DEF Receive, FreshIs
  <2>2. /\ recvd \in AnOffer /\ recvd.source = seat.offers[i].source
        /\ recvd.client = seat.offers[i].client /\ recvd.dead = seat.offers[i].dead
    BY <1>1 DEF AnOffer
  <2> HIDE DEF recvd
  <2> QED  BY <2>1, <2>2, OneOfferAimed
<1>4. CASE Finish(i)
  <2> DEFINE dead == [Fresh EXCEPT !.offers[i].dead = TRUE]
  <2>1. PICK follow \in BOOLEAN : seat' \in {AbortDrag(dead, follow), CompleteDrag(dead, follow)}
    BY <1>4 DEF Finish
  <2>2. dead = [Fresh EXCEPT !.offers = [seat.offers EXCEPT ![i] = o]]
    BY Finds DEF FreshIs
  <2>3. /\ o \in AnOffer /\ o.source = seat.offers[i].source /\ o.client = seat.offers[i].client
        /\ o.dead = TRUE
    BY <1>1 DEF AnOffer
  <2> HIDE DEF dead, o
  <2>4. OnlyOffers(dead) /\ Quiet(dead)
    BY <2>2, <2>3, OneOfferChanged DEF Quiet
  <2>5. SeatOK(dead, Dragged)
    BY <2>4, OffersKeepSeat
  <2> QED  BY <2>1, <2>4, <2>5, Finds, AimOfAbort
<1> QED  BY <1>2, <1>3, <1>4

LEMMA LetGoKeepsAim ==
  ASSUME DeviceInv, Aimed(seat), NEW i \in DOMAIN seat.offers, DestroyOffer(i)
  PROVE  Aimed(seat') /\ Quiet(seat')
<1> DEFINE n == RemoveAt(seat.offers, i)
           h == IF OfDrag(seat.offers[i]) /\ ~seat.offers[i].dead
                THEN {<<seat.offers[i].source, "finished">>} ELSE {}
<1>1. seat' = [Fresh EXCEPT !.offers = n, !.heard = h]
  <2>1. Fresh.offers = seat.offers /\ Fresh.heard = {} /\ Fresh \in SeatType
    BY Finds DEF FreshIs, SeatOK
  <2> DEFINE rest == [Fresh EXCEPT !.offers = n]
  <2>2. rest = [Fresh EXCEPT !.offers = RemoveAt(@, i)]
    BY <2>1
  <2> HIDE DEF n
  <2>3. rest.heard = {} /\ rest = [Fresh EXCEPT !.offers = n, !.heard = {}]
    BY <2>1 DEF SeatType
  <2>4. Hear(rest, seat.offers[i].source, "finished")
          = [Fresh EXCEPT !.offers = n, !.heard = {<<seat.offers[i].source, "finished">>}]
    BY <2>1, <2>3 DEF SeatType, Hear
  <2> QED  BY <2>2, <2>3, <2>4 DEF DestroyOffer
<1>2. seat.offers \in Seq(AnOffer)
  BY Finds DEF SeatOK, OffersOK
<1>3. \A j \in DOMAIN n : \E k \in DOMAIN seat.offers : n[j] = seat.offers[k]
  BY <1>2, Removed
<1>4. \A c : <<c, "drop">> \notin h
  OBVIOUS
<1> HIDE DEF n, h
<1>5. /\ seat'.offers = n /\ seat'.heard = h /\ SamePointer(Fresh, seat')
      /\ seat'.source = Fresh.source /\ seat'.hooked = Fresh.hooked
  BY <1>1, Finds DEF FreshIs, SeatOK, SeatType, SamePointer
<1>6. \A j \in DOMAIN seat'.offers : \E k \in DOMAIN seat.offers :
           /\ seat'.offers[j].source = seat.offers[k].source
           /\ seat'.offers[j].client = seat.offers[k].client
           /\ ~seat'.offers[j].dead => ~seat.offers[k].dead
  BY <1>3, <1>5
<1>7. SamePointer(seat, seat') /\ seat'.source = seat.source /\ seat'.hooked = seat.hooked
  BY <1>5, Finds DEF FreshIs, SamePointer
<1> QED  BY <1>4, <1>5, <1>6, <1>7, OffersLeft DEF Quiet

LEMMA SourcesKeepAim ==
  ASSUME DeviceInv, Aimed(seat), NEW s \in Sources,
         RequestSelection(s) \/ StartDrag(s) \/ ResetSelection
  PROVE  Aimed(seat') /\ Quiet(seat')
<1> USE Finds, AimFound DEF FreshIs
<1>1. use[s] = "new" => s \notin Selected /\ s \notin Dragged
  BY DEF Selected, Dragged
<1>2. s # NoSource /\ (seat.hooked => seat.source # NoSource /\ seat.source \in Dragged)
  BY DataAssumption DEF SeatOK, Active
<1>3. CASE RequestSelection(s)
  <2>1. seat' = SetCurrentSelection(Fresh, s) /\ (Fresh.hooked => Fresh.source # s)
    BY <1>1, <1>2, <1>3 DEF RequestSelection
  <2> QED  BY <2>1, AimOfSelection
<1>4. CASE StartDrag(s)
  <2>1. PICK follow \in BOOLEAN : seat' = InitiateDrag(Fresh, s, follow)
    BY <1>4 DEF StartDrag
  <2> QED  BY <1>1, <1>4, <2>1, AimOfNewDrag DEF StartDrag
<1>5. CASE ResetSelection
  <2>1. seat' = SetCurrentSelection(Fresh, NoSource) /\ (Fresh.hooked => Fresh.source # NoSource)
    BY <1>2, <1>5 DEF ResetSelection
  <2> QED  BY <2>1, AimOfSelection
<1> QED  BY <1>3, <1>4, <1>5

LEMMA DestroySourceKeepsAim ==
  ASSUME DeviceInv, Aimed(seat), NEW s \in Sources, DestroySource(s)
  PROVE  Aimed(seat') /\ Quiet(seat')
<1> USE Finds, AimFound DEF FreshIs
<1> DEFINE freed == IF seat.selection = s THEN SetCurrentSelection(Fresh, NoSource) ELSE Fresh
<1>1. PICK follow \in BOOLEAN :
        seat' = [(IF freed.source = s THEN AbortDrag(freed, follow) ELSE freed) EXCEPT !.offers =
            [i \in DOMAIN @ |-> IF @[i].source = s THEN [@[i] EXCEPT !.source = NoSource]
                                ELSE @[i]]]
  BY DEF DestroySource
<1> DEFINE ended == IF freed.source = s THEN AbortDrag(freed, follow) ELSE freed
           n == [i \in DOMAIN ended.offers |->
                   IF ended.offers[i].source = s THEN [ended.offers[i] EXCEPT !.source = NoSource]
                   ELSE ended.offers[i]]
<1>2. seat' = [ended EXCEPT !.offers = n]
  BY <1>1
<1>3. Fresh.hooked => Fresh.source # NoSource
  BY DEF SeatOK, Active
<1>4. SeatOK(freed, Dragged) /\ Aimed(freed) /\ Quiet(freed)
  <2>1. CASE seat.selection = s
    <3>1. freed = SetCurrentSelection(Fresh, NoSource)
      BY <2>1
    <3> HIDE DEF freed
    <3> QED  BY <1>3, <3>1, SelectionChanged, AimOfSelection
  <2>2. CASE seat.selection # s
    BY <2>2
  <2> QED  BY <2>1, <2>2
<1> HIDE DEF freed
<1>5. SeatOK(ended, Dragged) /\ Aimed(ended) /\ Quiet(ended)
  <2>1. CASE freed.source = s
    <3>1. ended = AbortDrag(freed, follow)
      BY <2>1
    <3> HIDE DEF ended
    <3>2. ended \in {AbortDrag(freed, follow), CompleteDrag(freed, follow)}
      BY <3>1
    <3> QED  BY <1>4, <3>1, <3>2, DragAborted, AimOfAbort
  <2>2. CASE freed.source # s
    BY <1>4, <2>2
  <2> QED  BY <2>1, <2>2
<1> HIDE DEF ended
<1>6. /\ ended \in SeatType /\ ended.offers \in Seq(AnOffer)
      /\ ended.hooked => ended.source # NoSource
  BY <1>5 DEF SeatOK, OffersOK, Active
<1>7. DOMAIN n = DOMAIN ended.offers
      /\ \A j \in DOMAIN n : n[j].source = NoSource \/ n[j] = ended.offers[j]
  <2>1. \A o \in AnOffer : [o EXCEPT !.source = NoSource].source = NoSource
    BY DEF AnOffer
  <2>2. \A j \in DOMAIN ended.offers : ended.offers[j] \in AnOffer
    BY <1>6
  <2> QED  BY <2>1, <2>2
<1> HIDE DEF n
<1>8. /\ seat'.offers = n /\ SamePointer(ended, seat') /\ seat'.heard = ended.heard
      /\ seat'.source = ended.source /\ seat'.hooked = ended.hooked
  BY <1>2, <1>6 DEF SeatType, SamePointer
<1>9. Aimed(seat')
  BY <1>5, <1>6, <1>7, <1>8 DEF Aimed, SamePointer
<1> QED  BY <1>5, <1>8, <1>9 DEF Quiet

LEMMA NextKeepsAim ==
  DeviceInv /\ Aimed(seat) /\ [Next]_vars => Aimed(seat)' /\ (Wanted \/ UNCHANGED vars)
<1> SUFFICES ASSUME DeviceInv, Aimed(seat), [Next]_vars
             PROVE  Aimed(seat') /\ (Wanted \/ UNCHANGED vars)
  BY DEF Aimed
<1>1. Quiet(seat') => Wanted
  BY DEF Quiet, Wanted
<1>2. ASSUME \/ \E c \in MaybeClient : Motion(c) \/ FocusSurface(c)
             \/ PressButton \/ AbortDndIfPresent
      PROVE  Aimed(seat') /\ Wanted
  BY <1>1, <1>2, MovesKeepAim
<1>3. CASE ReleaseButton \/ ReleaseToCanvas
  BY <1>3, ReleaseKeepsAim DEF ReleaseButton, ReleaseToCanvas
<1>4. ASSUME NEW c \in Clients, GetDataDevice(c) \/ ReleaseDataDevice(c)
      PROVE  Aimed(seat') /\ Wanted
  BY <1>1, <1>4, DevicesKeepAim
<1>5. ASSUME NEW s \in Sources, RequestSelection(s) \/ StartDrag(s) \/ DestroySource(s)
      PROVE  Aimed(seat') /\ Wanted
  BY <1>1, <1>5, SourcesKeepAim, DestroySourceKeepsAim
<1>6. CASE ResetSelection
  <2>1. seat.selection \in Sources
    BY <1>6, Finds DEF ResetSelection, SeatOK, SeatType
  <2> QED  BY <1>1, <1>6, <2>1, SourcesKeepAim
<1>7. ASSUME NEW i \in DOMAIN seat.offers,
             \/ \E takes \in BOOLEAN : Accept(i, takes)
             \/ Receive(i) \/ Finish(i)
      PROVE  Aimed(seat') /\ Wanted
  BY <1>1, <1>7, OffersKeepAim
<1>8. ASSUME NEW i \in DOMAIN seat.offers, DestroyOffer(i) PROVE Aimed(seat') /\ Wanted
  BY <1>1, <1>8, LetGoKeepsAim
<1>9. CASE ToggleCanvas
  BY <1>1, <1>9, AimFound DEF ToggleCanvas
<1>10. CASE UNCHANGED vars
  BY <1>10 DEF vars
<1> QED  BY <1>2, <1>3, <1>4, <1>5, <1>6, <1>7, <1>8, <1>9, <1>10 DEF Next

(***************************************************************************)
(* The theorems.                                                           *)
(***************************************************************************)
LEMMA InitInvariant == Init => DeviceInv
<1> SUFFICES ASSUME Init PROVE DeviceInv
  OBVIOUS
<1>1. seat \in SeatType
  <2>1. <<>> \in Seq(AnOffer)
    OBVIOUS
  <2> QED  BY <2>1 DEF Init, SeatType, MaybeClient
<1>2. OffersOK(seat.offers, seat.kb, seat.selection, Dragged)
  BY DEF Init, OffersOK
<1>3. SeatOK(seat, Dragged)
  BY <1>1, <1>2 DEF Init, SeatOK, Active
<1>4. Len(seat.offers) <= MaxOffers
  BY DataAssumption DEF Init
<1>5. Informed
  BY DataAssumption DEF Init, Informed, Knows
<1> QED  BY <1>3, <1>4, <1>5 DEF Init, DeviceInv, CursorGivenBack, Taken, Active,
                                 LeftBeforeEntered, MaybeClient

LEMMA NextKeeps == DeviceInv /\ [Next]_vars => DeviceInv' /\ (Told \/ UNCHANGED vars)
<1> SUFFICES ASSUME DeviceInv, [Next]_vars PROVE DeviceInv' /\ (Told \/ UNCHANGED vars)
  OBVIOUS
<1>1. ASSUME NEW c \in MaybeClient, Motion(c) \/ FocusSurface(c) PROVE DeviceInv' /\ Told
  BY <1>1, MotionKeeps, FocusKeeps
<1>2. CASE PressButton
  BY <1>2, PressKeeps
<1>3. CASE ReleaseButton \/ ReleaseToCanvas
  BY <1>3, ReleaseKeeps
<1>4. CASE AbortDndIfPresent
  BY <1>4, AbortKeeps
<1>5. ASSUME NEW c \in Clients, GetDataDevice(c) \/ ReleaseDataDevice(c) PROVE DeviceInv' /\ Told
  BY <1>5, DeviceMadeKeeps, DeviceGoneKeeps
<1>6. ASSUME NEW s \in Sources, RequestSelection(s) \/ StartDrag(s) \/ DestroySource(s)
      PROVE DeviceInv' /\ Told
  BY <1>6, RequestKeeps, StartDragKeeps, DestroySourceKeeps
<1>7. CASE ResetSelection
  BY <1>7, ResetKeeps
<1>8. ASSUME NEW i \in DOMAIN seat.offers, NEW takes \in BOOLEAN, Accept(i, takes)
      PROVE DeviceInv' /\ Told
  BY <1>8, AcceptKeeps
<1>9. ASSUME NEW i \in DOMAIN seat.offers, Receive(i) \/ Finish(i) \/ DestroyOffer(i)
      PROVE DeviceInv' /\ Told
  BY <1>9, ReceiveKeeps, FinishKeeps, DestroyOfferKeeps
<1>10. CASE UNCHANGED vars
  BY <1>10 DEF vars, DeviceInv, SeatOK, Dragged, Selected, OffersOK, OfferOK, Active,
               Informed, Knows, CursorGivenBack, Taken, LeftBeforeEntered
<1>11. CASE ToggleCanvas
  BY <1>11, ToggleKeeps
<1> QED  BY <1>1, <1>2, <1>3, <1>4, <1>5, <1>6, <1>7, <1>8, <1>9, <1>10, <1>11 DEF Next

\* The invariant holds of every state the seat reaches.
THEOREM DevicesInvariant == Spec => []DeviceInv
<1>1. Init => DeviceInv
  BY InitInvariant
<1>2. DeviceInv /\ [Next]_vars => DeviceInv'
  BY NextKeeps
<1> QED  BY <1>1, <1>2, PTL DEF Spec

\* Every variable has its type, and a device is entered, and the hooks wait,
\* only while there is a drag (CWLDataDeviceProtocol, m_dnd).
THEOREM TypesOK == Spec => []TypeOK
<1>1. DeviceInv => TypeOK
  BY DEF DeviceInv, SeatOK, SeatType, Active, TypeOK
<1> QED  BY <1>1, DevicesInvariant, PTL

\* The client with the keyboard focus knows the selection, through changes of
\* the focus, ends of drags and sources that go (onKeyboardFocus,
\* setCurrentSelection, resendEnterEvents).
THEOREM FocusKnowsTheSelection == Spec => []SelectionKnown
<1>1. DeviceInv => SelectionKnown
  BY DEF DeviceInv, Informed, Knows, SelectionKnown
<1> QED  BY <1>1, DevicesInvariant, PTL

\* Every live offer of a selection is of the current one and for the client
\* with the focus (setSelection, onKeyboardFocus).
THEOREM OthersCannotRead == Spec => []OnlyFocusReads
<1>1. DeviceInv => OnlyFocusReads
  <2> SUFFICES ASSUME DeviceInv, NEW i \in DOMAIN seat.offers,
                      ~seat.offers[i].dead, seat.offers[i].source # NoSource,
                      use[seat.offers[i].source] = "selection"
               PROVE  seat.offers[i].client = seat.kb /\ seat.offers[i].source = seat.selection
    BY DEF OnlyFocusReads
  <2>1. /\ seat.offers[i] \in AnOffer
        /\ OfferOK(seat.offers[i], seat.kb, seat.selection, Dragged)
    BY DEF DeviceInv, SeatOK, OffersOK
  <2>2. seat.offers[i].source \in Selected
    BY <2>1 DEF AnOffer, Selected
  <2> QED  BY <2>1, <2>2 DEF OfferOK
<1> QED  BY <1>1, DevicesInvariant, PTL

\* Nothing of a drag stays behind: its cursor and the device that was entered
\* are given back, however it ends (dropDrag, abortDrag, completeDrag,
\* updateDrag).
THEOREM DragsLeaveNothing == Spec => []DragLeavesNothing
<1>1. DeviceInv => DragLeavesNothing
  BY DEF DeviceInv, DragLeavesNothing
<1> QED  BY <1>1, DevicesInvariant, PTL

\* The pointer, which no client had during the drag, is given to what is under
\* it in the step that ends the drag, whether a button is held or not, unless
\* the canvas takes the move (abortDrag, completeDrag, mouseMoveUnified).
THEOREM DragsGivePointerBack == Spec => PointerGivenBack
<1>1. DeviceInv /\ [Next]_vars =>
        [Active(seat) /\ ~Active(seat') /\ ~canvas => seat'.ptr = under]_vars
  BY NextKeeps DEF Told
<1> QED  BY <1>1, DevicesInvariant, PTL DEF Spec, PointerGivenBack

\* The source of a drag is told in the step that ends it, be it dropped on
\* nothing, taken, stopped by the user or replaced by another.
THEOREM EndsAreTold == Spec => EndIsTold
<1>1. DeviceInv /\ [Next]_vars =>
        [Active(seat) /\ seat'.source # seat.source
         => \E end \in {"cancelled", "finished"} : <<seat.source, end>> \in seat'.heard]_vars
  BY NextKeeps DEF Told
<1> QED  BY <1>1, DevicesInvariant, PTL DEF Spec, EndIsTold

\* What is dropped is dropped on the client that was entered and not left, and
\* that itself took what is dragged now, though its device may go, the pointer
\* move on and older offers live (dropDrag, wasDragSuccessful, updateDrag).
THEOREM DropsAreWanted == Spec => DropIsWanted
<1>1. Init => Aimed(seat)
  BY DEF Init, Aimed
<1>2. DeviceInv /\ Aimed(seat) /\ [Next]_vars => Aimed(seat)' /\ [Wanted]_vars
  BY NextKeepsAim
<1>3. Spec => [][Wanted]_vars
  BY <1>1, <1>2, DevicesInvariant, PTL DEF Spec
<1>4. [Wanted]_vars =>
        [\A c \in Clients : <<c, "drop">> \in seat'.heard =>
           /\ c \in seat.inside
           /\ \E i \in DOMAIN seat.offers :
                LET o == seat.offers[i]
                IN o.client = c /\ o.source = seat.source /\ ~o.dead /\ (o.accepted \/ o.recvd)]_vars
  BY DEF Wanted
<1> QED  BY <1>3, <1>4, PTL DEF DropIsWanted

=============================================================================
