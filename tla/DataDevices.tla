----------------------------- MODULE DataDevices -----------------------------
(***************************************************************************)
(* The clipboard and drag and drop: data sources, the offers made of them, *)
(* the data devices of the clients, and the seat, whose keyboard focus     *)
(* decides who is offered the selection and whose pointer focus is         *)
(* replaced by a focus of its own while something is dragged.              *)
(*                                                                         *)
(* A client has one surface and at most one data device, a source is used  *)
(* once, for the selection or for a drag, and a client finishes only       *)
(* offers of drags: the code warns of anything else and goes on.  X11      *)
(* clients, seat grabs, touch and tablets, the primary selection and the   *)
(* data control protocols are left out.                                    *)
(***************************************************************************)
EXTENDS Naturals, SequencesExt

CONSTANTS
  Clients,
  NoClient,
  Sources,
  NoSource,
  MaxOffers      \* offers that exist at a time: a bound

ASSUME DataAssumption ==
  NoClient \notin Clients /\ NoSource \notin Sources /\ MaxOffers \in Nat

VARIABLES
  use,       \* of each source: "new", "selection", "drag", or "gone"
  devices,   \* the clients with a data device
  under,     \* the client whose surface is under the pointer
  held,      \* a button is in m_currentlyHeldButtons
  canvas,    \* the canvas pans or its draw mode is on: moves go to it
  seat,      \* everything the handlers below work on
  late,      \* history: the client with the focus had no device when it got it
  crossed    \* history: an offer was finished while a drag was under way or moved on

vars == <<use, devices, under, held, canvas, seat, late, crossed>>

(* seat.kb, seat.ptr, seat.dnd   keyboardFocus, pointerFocus and            *)
(*                   dndPointerFocus of the seat                            *)
(* seat.selection    currentSelection                                       *)
(* seat.offers       m_offers: source, client, dead, accepted, recvd        *)
(* seat.source, seat.device      m_dnd.currentSource, m_dnd.focusedDevice   *)
(* seat.hooked       the hooks that wait for the drop are installed         *)
(* seat.cursor       overriddenCursor                                       *)
(* seat.told         the last selection the client with the focus was sent   *)
(* seat.inside       clients between enter and leave of their data device   *)
(* seat.heard        what sources and devices were sent in this step        *)

MaybeClient == Clients \cup {NoClient}
Active(d) == d.source # NoSource

-----------------------------------------------------------------------------
(* Offers and the selection.                                                *)

Offer(s, c) ==
  [source |-> s, client |-> c, dead |-> FALSE, accepted |-> FALSE, recvd |-> FALSE]

\* Of the selection or of the drags; an offer without a source is of both.
Killed(offers, kind) ==
  [i \in DOMAIN offers |->
     IF offers[i].source = NoSource \/ use[offers[i].source] = kind
     THEN [offers[i] EXCEPT !.dead = TRUE] ELSE offers[i]]

Hear(d, who, what) == [d EXCEPT !.heard = @ \cup {<<who, what>>}]

SendSelection(d, s) ==
  IF d.kb \notin devices THEN d
  ELSE [d EXCEPT !.told = s,
                 !.offers = IF s = NoSource THEN @ ELSE Append(@, Offer(s, d.kb))]

\* Fault: what was offered before stays alive.
SetSelection_Spares(d, s) == SendSelection(d, s)

\* CWLDataDeviceProtocol::setSelection
SetSelection(d, s) == SendSelection([d EXCEPT !.offers = Killed(@, "selection")], s)

\* Fault: a selection that goes is not spoken of.
SetCurrentSelection_Silent(d, s) ==
  LET old == IF d.selection = NoSource THEN d ELSE Hear(d, d.selection, "cancelled")
  IN IF s = d.selection THEN d
     ELSE IF s = NoSource THEN [old EXCEPT !.selection = s]
     ELSE SetSelection([old EXCEPT !.selection = s], s)

SetCurrentSelection(d, s) ==
  IF s = d.selection THEN d
  ELSE SetSelection([(IF d.selection = NoSource THEN d ELSE Hear(d, d.selection, "cancelled"))
                     EXCEPT !.selection = s], s)

OnKeyboardFocus(d) ==
  SendSelection([d EXCEPT !.offers = Killed(@, "selection")], d.selection)

SetKeyboardFocus(d, c) == IF d.kb = c THEN d ELSE OnKeyboardFocus([d EXCEPT !.kb = c, !.told = NoSource])

-----------------------------------------------------------------------------
(* The drag.                                                                *)

\* The entered device is left, and what is under the pointer now is entered.
UpdateDrag(d) ==
  IF ~Active(d) THEN d
  ELSE LET left == [d EXCEPT !.inside = @ \ {d.device}]
       IN IF d.dnd = NoClient THEN left
          ELSE IF d.dnd \notin devices THEN [left EXCEPT !.device = NoClient]
          ELSE [left EXCEPT !.device = d.dnd, !.inside = @ \cup {d.dnd},
                            !.offers = Append(@, Offer(d.source, d.dnd))]

\* Fault: the offers made elsewhere stay alive.
OnDndPointerFocus_Spares(d) == UpdateDrag(d)

OnDndPointerFocus(d) == UpdateDrag([d EXCEPT !.offers = Killed(@, "drag")])

\* During a drag only the focus of the drag moves, and never to nothing.
SetPointerFocus(d, c) ==
  IF d.ptr = c THEN d
  ELSE IF Active(d) /\ c # NoClient
  THEN IF d.dnd = c THEN d ELSE OnDndPointerFocus([d EXCEPT !.dnd = c])
  ELSE IF c = NoClient THEN [d EXCEPT !.ptr = c, !.dnd = c]
  ELSE OnDndPointerFocus([d EXCEPT !.ptr = c, !.dnd = c])

\* mouseMoveUnified, with the pointer over u and a button held or not.  The canvas
\* may take the move; a held button keeps the focus where it is; settings and the
\* nature of the surface decide whether the keyboard follows.
MouseMove(d, u, h, follow) ==
  LET found == IF h /\ ~Active(d) /\ d.kb # NoClient /\ d.ptr # NoClient THEN d.ptr ELSE u
      kept == IF follow \/ d.kb = NoClient THEN SetKeyboardFocus(d, found) ELSE d
  IN IF canvas THEN d ELSE SetPointerFocus(kept, found)

ResendEnterEvents(d) ==
  LET gone == SetPointerFocus(SetKeyboardFocus(d, NoClient), NoClient)
  IN SetPointerFocus(SetKeyboardFocus(gone, d.kb), d.ptr)

\* Fault: the pointer is not looked up again.
Refreshed_NoMove(d, follow) == ResendEnterEvents(d)

\* Where the input goes once the drag is over.
Refreshed(d, follow) == ResendEnterEvents(MouseMove(d, under, held, follow))

Over(d) == [d EXCEPT !.source = NoSource, !.device = NoClient, !.hooked = FALSE]

\* Fault: the source is not told.
AbortDrag_Silent(d, follow) ==
  IF ~Active(d) /\ d.device = NoClient THEN [d EXCEPT !.hooked = FALSE, !.cursor = FALSE]
  ELSE Refreshed(Over([d EXCEPT !.inside = @ \ {d.device}, !.cursor = FALSE]), follow)

AbortDrag(d, follow) ==
  LET left == [d EXCEPT !.inside = @ \ {d.device}, !.cursor = FALSE, !.hooked = FALSE]
  IN IF ~Active(d) /\ d.device = NoClient THEN left
     ELSE Refreshed(Over(IF Active(d) THEN Hear(left, d.source, "cancelled") ELSE left), follow)

CompleteDrag(d, follow) ==
  IF ~Active(d) /\ d.device = NoClient THEN d
  ELSE Refreshed(Over(IF Active(d) THEN Hear(d, d.source, "finished") ELSE d), follow)

WasDragSuccessful(d) ==
  \E i \in DOMAIN d.offers :
    LET o == d.offers[i] IN ~o.dead /\ o.source = d.source /\ (o.recvd \/ o.accepted)

\* Fault: the cursor of the drag is kept.
DropDrag_KeepsCursor(d, follow) ==
  IF ~Active(d) THEN d
  ELSE IF d.device = NoClient \/ ~WasDragSuccessful(d) THEN AbortDrag(d, follow)
  ELSE [Hear(d, d.device, "drop") EXCEPT !.inside = @ \ {d.device}, !.hooked = FALSE]

\* After a drop the drag stays the current one until its offer is finished.
DropDrag(d, follow) ==
  IF ~Active(d) THEN d
  ELSE IF d.device = NoClient \/ ~WasDragSuccessful(d) THEN AbortDrag(d, follow)
  ELSE [Hear(d, d.device, "drop") EXCEPT
          !.inside = @ \ {d.device}, !.cursor = FALSE, !.hooked = FALSE]

\* An older drag is aborted; the pointer leaves the clients, the drag does not.
InitiateDrag(d, s, follow) ==
  LET free == IF Active(d) THEN AbortDrag(d, follow) ELSE d
      begun == [free EXCEPT !.source = s, !.cursor = TRUE, !.hooked = TRUE]
  IN UpdateDrag([SetPointerFocus(begun, NoClient) EXCEPT !.dnd = begun.dnd])

-----------------------------------------------------------------------------
(* What users and clients do.                                               *)

Room == Len(seat'.offers) <= MaxOffers
Fresh == [seat EXCEPT !.heard = {}]

\* The client that gets the focus may have no device to hear of the selection.
Missed == late' = IF seat'.kb = seat.kb THEN late ELSE seat'.kb \notin devices

\* The pointer moves to another client, or within one.
Motion(u) ==
  /\ under' = u
  /\ \E follow \in BOOLEAN : seat' = MouseMove(Fresh, u, held, follow)
  /\ Missed
  /\ Room
  /\ UNCHANGED <<use, devices, held, canvas, crossed>>

\* A click on another window moves the focus before the button holds it.
PressButton ==
  /\ ~held /\ held' = TRUE
  /\ seat' \in {Fresh, MouseMove(Fresh, under, FALSE, TRUE)}
  /\ Missed
  /\ Room
  /\ UNCHANGED <<use, devices, under, canvas, crossed>>

\* Before anything else the hook of the drag hears of a release.
HookRuns ==
  /\ \E follow \in BOOLEAN :
       seat' = IF seat.hooked THEN DropDrag(Fresh, follow) ELSE Fresh
  /\ Missed
  /\ Room

\* The pointer is not looked up again: its focus stays until the next move.
ReleaseButton ==
  /\ held /\ held' = FALSE
  /\ HookRuns
  /\ UNCHANGED <<use, devices, under, canvas, crossed>>

\* A release that goes to the canvas: a pan may end, a held button stays held.
ReleaseToCanvas ==
  /\ canvas' \in {canvas, FALSE}
  /\ HookRuns
  /\ UNCHANGED <<use, devices, under, held, crossed>>

\* A pan begins, or the draw mode is toggled.
ToggleCanvas ==
  /\ canvas' = ~canvas /\ seat' = Fresh
  /\ UNCHANGED <<use, devices, under, held, late, crossed>>

FocusSurface(c) ==
  /\ c # seat.kb
  /\ seat' = SetKeyboardFocus(Fresh, c)
  /\ Missed
  /\ Room
  /\ UNCHANGED <<use, devices, under, held, canvas, crossed>>

\* Escape, for drags that got stuck.
AbortDndIfPresent ==
  /\ Active(seat)
  /\ \E follow \in BOOLEAN : seat' = AbortDrag(Fresh, follow)
  /\ Missed
  /\ Room
  /\ UNCHANGED <<use, devices, under, held, canvas, crossed>>

GetDataDevice(c) ==
  /\ c \notin devices
  /\ devices' = devices \cup {c}
  /\ seat' = Fresh
  /\ UNCHANGED <<use, under, held, canvas, late, crossed>>

\* The drag only points to the device.
ReleaseDataDevice(c) ==
  /\ c \in devices
  /\ devices' = devices \ {c}
  /\ seat' = [Fresh EXCEPT !.device = IF @ = c THEN NoClient ELSE @,
                           !.inside = @ \ {c}, !.told = IF seat.kb = c THEN NoSource ELSE @]
  /\ late' = (late \/ seat.kb = c)
  /\ UNCHANGED <<use, under, held, canvas, crossed>>

RequestSelection(s) ==
  /\ use[s] = "new" /\ use' = [use EXCEPT ![s] = "selection"]
  /\ seat' = SetCurrentSelection(Fresh, s)
  /\ Room
  /\ UNCHANGED <<devices, under, held, canvas, late, crossed>>

ResetSelection ==
  /\ seat.selection # NoSource
  /\ seat' = SetCurrentSelection(Fresh, NoSource)
  /\ UNCHANGED <<use, devices, under, held, canvas, late, crossed>>

StartDrag(s) ==
  /\ use[s] = "new" /\ use' = [use EXCEPT ![s] = "drag"]
  /\ \E follow \in BOOLEAN : seat' = InitiateDrag(Fresh, s, follow)
  /\ Missed
  /\ Room
  /\ UNCHANGED <<devices, under, held, canvas, crossed>>

\* A source that goes takes the selection or the drag with it.
DestroySource(s) ==
  /\ use[s] # "gone" /\ use' = [use EXCEPT ![s] = "gone"]
  /\ \E follow \in BOOLEAN :
       LET freed == IF seat.selection = s THEN SetCurrentSelection(Fresh, NoSource) ELSE Fresh
           ended == IF freed.source = s THEN AbortDrag(freed, follow) ELSE freed
       IN seat' = [ended EXCEPT !.offers =
            [i \in DOMAIN @ |-> IF @[i].source = s THEN [@[i] EXCEPT !.source = NoSource]
                                ELSE @[i]]]
  /\ Missed
  /\ Room
  /\ UNCHANGED <<devices, under, held, canvas, crossed>>

OfDrag(o) == o.source # NoSource /\ use[o.source] = "drag"

\* A client takes a type, or none; its offer is dead or without source otherwise.
Accept(i, takes) ==
  /\ OfDrag(seat.offers[i]) /\ ~seat.offers[i].dead
  /\ seat' = [Fresh EXCEPT !.offers[i].accepted = takes]
  /\ UNCHANGED <<use, devices, under, held, canvas, late, crossed>>

Receive(i) ==
  /\ OfDrag(seat.offers[i]) /\ ~seat.offers[i].dead
  /\ seat' = [Fresh EXCEPT !.offers[i].recvd = TRUE]
  /\ UNCHANGED <<use, devices, under, held, canvas, late, crossed>>

\* Whatever drag is under way is ended, not the one the offer was made of.
Finish(i) ==
  LET o == seat.offers[i]
      dead == [Fresh EXCEPT !.offers[i].dead = TRUE]
      done == o.source # NoSource /\ o.recvd /\ o.accepted
  IN /\ o.source = NoSource \/ OfDrag(o)
     /\ \E follow \in BOOLEAN :
          seat' = IF done THEN CompleteDrag(dead, follow) ELSE AbortDrag(dead, follow)
     /\ Missed
     /\ crossed' = (crossed \/ (done /\ (seat.hooked \/ seat.inside # {})))
     /\ Room
     /\ UNCHANGED <<use, devices, under, held, canvas>>

\* An offer let go alive tells its source that all is done.
DestroyOffer(i) ==
  LET o == seat.offers[i]
      rest == [Fresh EXCEPT !.offers = RemoveAt(@, i)]
  IN /\ seat' = IF OfDrag(o) /\ ~o.dead THEN Hear(rest, o.source, "finished") ELSE rest
     /\ UNCHANGED <<use, devices, under, held, canvas, late, crossed>>

Init ==
  /\ use = [s \in Sources |-> "new"]
  /\ devices = {} /\ under = NoClient /\ held = FALSE /\ canvas = FALSE /\ late = FALSE /\ crossed = FALSE
  /\ seat = [kb |-> NoClient, ptr |-> NoClient, dnd |-> NoClient, selection |-> NoSource,
             offers |-> <<>>, source |-> NoSource, device |-> NoClient, hooked |-> FALSE,
             cursor |-> FALSE, told |-> NoSource, inside |-> {},
             heard |-> {}]

Next ==
  \/ \E c \in MaybeClient : Motion(c) \/ FocusSurface(c)
  \/ PressButton
  \/ ReleaseButton \/ ReleaseToCanvas \/ ToggleCanvas
  \/ AbortDndIfPresent
  \/ \E c \in Clients : GetDataDevice(c) \/ ReleaseDataDevice(c)
  \/ \E s \in Sources : RequestSelection(s) \/ StartDrag(s) \/ DestroySource(s)
  \/ ResetSelection
  \/ \E i \in DOMAIN seat.offers :
       \/ \E takes \in BOOLEAN : Accept(i, takes)
       \/ Receive(i)
       \/ Finish(i)
       \/ DestroyOffer(i)

Spec == Init /\ [][Next]_vars

-----------------------------------------------------------------------------
(* Properties.                                                              *)

AnOffer == [source : Sources \cup {NoSource}, client : Clients, dead : BOOLEAN,
            accepted : BOOLEAN, recvd : BOOLEAN]

\* Every variable has its type, and a device is entered, and the hooks wait
\* for a drop, only while there is a drag.
TypeOK ==
  /\ use \in [Sources -> {"new", "selection", "drag", "gone"}]
  /\ devices \subseteq Clients /\ under \in MaybeClient
  /\ {held, canvas, late, crossed, seat.hooked, seat.cursor} \subseteq BOOLEAN
  /\ {seat.kb, seat.ptr, seat.dnd, seat.device} \subseteq MaybeClient
  /\ {seat.selection, seat.source, seat.told} \subseteq Sources \cup {NoSource}
  /\ seat.offers \in Seq(AnOffer) /\ Len(seat.offers) <= MaxOffers
  /\ seat.inside \subseteq Clients
  /\ seat.hooked \/ seat.device # NoClient => Active(seat)

\* The client with the keyboard focus knows the selection: the last one it was
\* sent is the current one, and none if there is none, through changes of the
\* focus, sources that go and the focus that is taken and given back after a
\* drag.  (A client that asks for its device with the focus is sent nothing.)
SelectionKnown == seat.kb \in devices /\ ~late => seat.told = seat.selection

\* Only the client with the keyboard focus can read the selection, and only
\* the current one: every other offer of a selection is dead.
OnlyFocusReads ==
  \A i \in DOMAIN seat.offers :
    LET o == seat.offers[i]
    IN ~o.dead /\ o.source # NoSource /\ use[o.source] = "selection"
       => o.client = seat.kb /\ o.source = seat.selection

\* Something is dropped only on a client that was entered and not left, and
\* that itself took what is dragged now.
DropIsWanted ==
  [][\A c \in Clients : <<c, "drop">> \in seat'.heard =>
       /\ c \in seat.inside
       /\ \E i \in DOMAIN seat.offers :
            LET o == seat.offers[i]
            IN o.client = c /\ o.source = seat.source /\ ~o.dead /\ (o.accepted \/ o.recvd)]_vars

\* However a drag ends, its source is told in the same step.  (A source older
\* than version 3 has no event for `finished': the code sends it none, and heard
\* says only that the code was about to.)
EndIsTold ==
  [][Active(seat) /\ seat'.source # seat.source
     => \E end \in {"cancelled", "finished"} : <<seat.source, end>> \in seat'.heard]_vars

\* The cursor of a drag is given back by the time it waits for no drop, unless
\* another offer was finished meanwhile.
CursorGivenBack == seat.cursor => seat.hooked \/ crossed

\* A client that was entered was left before another is entered and by the
\* time the drag is over.
LeftBeforeEntered == crossed \/ seat.inside \subseteq {seat.device}

\* However a drag ends, nothing of it stays behind: its cursor and the device
\* that was entered are given back.
DragLeavesNothing == CursorGivenBack /\ LeftBeforeEntered

\* The focus that was taken from the clients for the drag is given, as it ends,
\* to what is under the pointer then, button held or not: the one that held it
\* before does not get it back.  A canvas that pans or draws takes the move that
\* would give it, and the next one does.
PointerGivenBack ==
  [][Active(seat) /\ ~Active(seat') /\ ~canvas => seat'.ptr = under]_vars
=============================================================================
