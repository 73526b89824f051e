----------------------------- MODULE KeyRouting -----------------------------
(***************************************************************************)
(* What becomes of a key: the keyboards, the quick jump overlay, the       *)
(* keybinds with their submaps, shadows, repeats and global shortcuts, an  *)
(* input method, and the focused client.  One key event is one handler:    *)
(* the key is routed under the modifiers as they were, and then the        *)
(* modifiers of its keyboard are brought up to date.                       *)
(*                                                                         *)
(* A bind is known by its place in the configuration.  Mouse and switch    *)
(* binds, catch-alls, several keys at once, long presses, `pass' and       *)
(* `sendshortcut' are left out, and so are virtual keyboards and the       *)
(* query typed into the quick jump.                                        *)
(***************************************************************************)
EXTENDS Naturals, SequencesExt, FiniteSetsExt

CONSTANTS
  Keyboards,
  Keys,
  KeysOf,        \* the keys a keyboard has
  Mods,
  ModOf,         \* the modifiers of a key: none or one
  Escape,        \* the key that closes the quick jump
  Printable,     \* the keys the quick jump takes as text
  Binds,         \* m_keybinds, a sequence of records
  Submaps,       \* with the default one
  DefaultSubmap,
  Clients,
  NoClient,
  SettingsOf,    \* what its configuration may make of a keyboard
  MaxHeld,       \* keys held at once: a bound
  MaxChanges     \* what happens besides keys and focus: a bound

BindIds == DOMAIN Binds

ASSUME KeyAssumption ==
  /\ IsFiniteSet(Keyboards)
  /\ KeysOf \in [Keyboards -> SUBSET Keys]
  /\ ModOf \in [Keys -> SUBSET Mods]
  /\ \A k \in Keys : Cardinality(ModOf[k]) <= 1
  /\ Escape \in Keys /\ Printable \subseteq Keys
  /\ DefaultSubmap \in Submaps
  /\ NoClient \notin Clients
  /\ {MaxHeld, MaxChanges} \subseteq Nat

\* The keyboard is on, permitted, and its keys may run binds.
Setting == [enabled : BOOLEAN, allowed : BOOLEAN, binds : BOOLEAN]
Plugged == [enabled |-> TRUE, allowed |-> TRUE, binds |-> TRUE]

ASSUME SettingAssumption ==
  /\ SettingsOf \in [Keyboards -> SUBSET Setting]
  /\ \A kb \in Keyboards : Plugged \in SettingsOf[kb]

Bind == [key : Keys, mods : SUBSET Mods, submap : Submaps, to : Submaps,
         handler : {"exec", "global", "submap", "quickjump"},
         release : BOOLEAN, repeat : BOOLEAN, locked : BOOLEAN,
         dontInhibit : BOOLEAN, ignoreMods : BOOLEAN, nonConsuming : BOOLEAN,
         transparent : BOOLEAN]

\* The configuration refuses a bind that repeats and waits for the release.
ASSUME BindAssumption ==
  Binds \in Seq(Bind) /\ \A b \in BindIds : ~(Binds[b].release /\ Binds[b].repeat)

VARIABLES
  held,      \* m_pressed of each keyboard
  config,    \* its m_enabled, m_allowed and m_allowBinds
  mods,      \* m_lastMods
  km,        \* the keybind manager, the fields below
  pressed,   \* m_pressed of the input manager: what clients are told
  focus,     \* the client with the keyboard focus
  seen,      \* the keys it believes pressed
  mode,      \* what else decides where a key goes, the fields below
  changes,   \* how often it changed
  strayed,   \* history: keys whose last release went elsewhere
  away       \* history: m_pressedKeys was cleared, no release handled since

vars == <<held, config, mods, km, pressed, focus, seen, mode, changes, strayed, away>>

(* km.down      m_pressedKeys, by key: modmaskAtPressTime, sent, and, as    *)
(*              history, the binds the press ran                            *)
(* km.shadowed  binds with the flag;  km.special  m_pressedSpecialBinds     *)
(* km.active    m_activeKeybinds;  km.submap  m_currentSelectedSubmap       *)
(* km.jumping   m_active of the quick jump                                  *)
(* km.ran  binds the event at hand ran;  km.found, km.stop  of its loop      *)
(* km.slipped  history: those of the last release that were not the press's *)
(* mode.working   the session is active and there is a monitor              *)
(* mode.locked, mode.ime, mode.dragging, mode.inhibiting  the session lock, *)
(*              a grab of the input method, m_currentlyDraggedWindow, and   *)
(*              inhibitors of the clients                                   *)

-----------------------------------------------------------------------------
(* Keybinds.                                                                *)

Global(b) == Binds[b].handler = "global"
Inhibited == focus # NoClient /\ mode.inhibiting

\* Fault: whatever has changed counts for a pressed shortcut too.
HeedsConditions(s, b, press) == FALSE

\* A shortcut that was pressed is let go whatever has changed since.
IgnoresConditions(s, b, press) == Global(b) /\ ~press /\ b \in s.special

Matches(s, b, e, press) ==
  /\ Binds[b].key = e.key
  /\ Binds[b].dontInhibit \/ ~Inhibited
  /\ Binds[b].locked \/ ~mode.locked
  /\ \/ IgnoresConditions(s, b, press)
     \/ /\ Binds[b].mods = mods \/ Binds[b].ignoreMods
        /\ Binds[b].submap = s.submap
        /\ b \notin s.shadowed

ModsChanged(b, e) == e.mods # mods /\ ~Binds[b].ignoreMods

\* Fault: nothing tells the halves apart.
NeverWaits(b, e, press) == FALSE

\* The bind has been or will be run by the other half of the stroke.
Waits(b, e, press) ==
  /\ ~Global(b)
  /\ IF press THEN Binds[b].release ELSE ~Binds[b].release /\ ~ModsChanged(b, e)

\* A release under other modifiers: only those of the key itself are looked at.
GivenUp(b, e, press) == ~press /\ ModsChanged(b, e) /\ ModOf[e.key] = e.mods

Dispatch(s, b, e, press) ==
  LET h == Binds[b].handler
  IN [s EXCEPT
       !.special = IF ~press THEN @ \ {b} ELSE IF Global(b) THEN @ \cup {b} ELSE @,
       !.jumping = IF h = "quickjump" THEN ~@ ELSE @,
       !.submap = IF h = "submap" THEN Binds[b].to ELSE @,
       !.active = IF Binds[b].repeat /\ h # "submap" THEN @ \cup {b} ELSE @,
       !.found = @ \/ h = "submap" \/ ~Binds[b].nonConsuming,
       !.stop = h = "submap",
       !.ran = @ \cup {b},
       !.slipped = IF press \/ ~ModsChanged(b, e) THEN @ ELSE @ \cup {b}]

\* A change of submap ends the loop.
Consider(s, b, e, press) ==
  IF s.stop \/ ~Matches(s, b, e, press) \/ GivenUp(b, e, press) THEN s
  ELSE IF Waits(b, e, press) THEN [s EXCEPT !.found = @ \/ ~Binds[b].nonConsuming]
  ELSE Dispatch(s, b, e, press)

\* The binds one after the other.
HandleKeybinds(s, e, press) ==
  LET after[b \in 0 .. Len(Binds)] ==
        IF b = 0 THEN [s EXCEPT !.stop = FALSE, !.found = FALSE]
        ELSE Consider(after[b - 1], b, e, press)
  IN after[Len(Binds)]

Down(s) == {k \in Keys : s.down[k] # <<>>}

\* What is pressed keeps its binds from running, the key at hand excepted.
ShadowKeybinds(s, except) ==
  [s EXCEPT !.shadowed =
     {b \in BindIds : ~Global(b) /\ ~Binds[b].transparent
                      /\ Binds[b].key \in Down(s) \ except}]

Event(k) == [key |-> k, mods |-> mods]

OnPress(s, k) ==
  LET h == HandleKeybinds(s, Event(k), TRUE)
      t == [h EXCEPT !.down[k] =
              Append(@, [key |-> k, mods |-> mods, sent |-> ~h.found, ran |-> h.ran])]
  IN IF h.found THEN ShadowKeybinds(t, {k}) ELSE t

\* Fault: the binds as they are now decide for the client.
OnRelease_ByBinds(s, k) ==
  ShadowKeybinds([HandleKeybinds(s, Event(k), FALSE) EXCEPT !.down[k] = <<>>], {})

\* Fault: the shadows are cast before the key is let go.
OnRelease_ShadowsFirst(s, k) ==
  LET h == ShadowKeybinds(s, {}) IN [h EXCEPT !.down[k] = <<>>, !.found = FALSE]

\* Every press of the key is let go, and the last one decides for the client.
OnRelease(s, k) ==
  LET after[i \in 0 .. Len(s.down[k])] ==
        IF i = 0 THEN s ELSE HandleKeybinds(after[i - 1], s.down[k][i], FALSE)
      h == IF s.down[k] = <<>> THEN HandleKeybinds(s, Event(k), FALSE)
           ELSE after[Len(s.down[k])]
  IN ShadowKeybinds([h EXCEPT !.down[k] = <<>>,
       !.found = IF s.down[k] = <<>> THEN @ ELSE ~Last(s.down[k]).sent], {})

Quietened(s) == [s EXCEPT !.ran = {}, !.slipped = {}, !.active = {}]

\* A keyboard whose binds are off passes its keys on, and they leave no record.
OnKeyEvent(s, kb, k, press) ==
  IF ~mode.working THEN [s EXCEPT !.down = [j \in Keys |-> <<>>], !.ran = {}, !.found = FALSE]
  ELSE IF ~config[kb].binds THEN [s EXCEPT !.ran = {}, !.found = FALSE]
  ELSE IF press THEN OnPress(Quietened(s), k)
  ELSE OnRelease(Quietened(s), k)

-----------------------------------------------------------------------------
(* Keyboards and the client.                                                *)

HeldKeys == UNION Range(held)

Heard(kb) == config[kb].enabled /\ config[kb].allowed

\* The keys it sends reach the binds.
Bound(kb) == mode.working /\ config[kb].binds

Holds(h, k) == {kb \in Keyboards : config[kb].enabled /\ k \in h[kb]}
ModsOf(h) == UNION {ModOf[k] : k \in h}

\* The key as all keyboards have it, once the one at hand has sent it.
Shared(h, k, press) == press \/ Holds(h, k) # {}

\* Fault: the clients are told of a key that is still down elsewhere.
Tell_EveryTime(h, k, press) ==
  /\ pressed' = IF Shared(h, k, press) THEN pressed \cup {k} ELSE pressed \ {k}
  /\ seen' = IF focus = NoClient THEN seen
             ELSE IF press THEN seen \cup {k} ELSE seen \ {k}

\* Told the clients, if that is news.
Tell(h, k, press) ==
  LET now == IF Shared(h, k, press) THEN pressed \cup {k} ELSE pressed \ {k}
  IN /\ pressed' = now
     /\ seen' = IF focus = NoClient THEN seen ELSE (seen \ (pressed \ now)) \cup (now \ pressed)

\* The quick jump takes presses only; the release goes the usual way.
Jumps(k, press) == km.jumping /\ press /\ k \in Printable \cup {Escape}

Route(h, kb, k, press) ==
  IF ~Heard(kb) THEN UNCHANGED <<km, pressed, seen, mode>>
  ELSE IF Jumps(k, press)
  THEN /\ km' = [km EXCEPT !.jumping = k # Escape, !.ran = {}, !.found = TRUE]
       /\ UNCHANGED <<pressed, seen, mode>>
  ELSE /\ km' = OnKeyEvent(km, kb, k, press)
       /\ mode' = [mode EXCEPT !.dragging = @ /\ ~Bound(kb)]
       /\ IF km'.found \/ mode.ime \/ (mode.dragging /\ Bound(kb))
          THEN UNCHANGED <<pressed, seen>>
          ELSE Tell(h, k, press)

\* The modifiers of all keyboards, whenever those of one change.
OnKeyboardMod(h, kb) ==
  mods' = IF config[kb].enabled /\ ModsOf(h[kb]) # ModsOf(held[kb])
          THEN UNION {ModsOf(h[o]) : o \in {n \in Keyboards : config[n].enabled}}
          ELSE mods

KeptBack(s, k) == s.down[k] # <<>> /\ ~Last(s.down[k]).sent

\* The release will not reach the client that saw the press: it came from a
\* keyboard nobody hears; an input method, a drag or, without the record of a
\* press, a bind took it; or the binds did not hear it, and they kept back the
\* press of another keyboard.  The last case is a record that nothing clears.
Strays(kb, k) ==
  \/ ~Heard(kb)
  \/ /\ k \in pressed'
     /\ \/ mode.ime
        \/ Bound(kb) /\ (mode.dragging \/ km.down[k] = <<>>)
        \/ KeptBack(km', k)
  \/ km'.down[k] # <<>> /\ k \notin HeldKeys'

Key(kb, k, press) ==
  LET h == [held EXCEPT ![kb] = IF press THEN @ \cup {k} ELSE @ \ {k}]
  IN /\ held' = h
     /\ Route(h, kb, k, press)
     /\ OnKeyboardMod(h, kb)
     /\ strayed' = IF press THEN strayed
                   ELSE IF Strays(kb, k) THEN strayed \cup {k}
                   ELSE IF k \notin pressed' THEN strayed \ {k} ELSE strayed
     /\ away' = IF ~Heard(kb) \/ Jumps(k, press) THEN away
                ELSE ~mode.working \/ (away /\ (press \/ ~Bound(kb)))
     /\ UNCHANGED <<config, focus, changes>>

Press(kb, k) ==
  /\ k \in KeysOf[kb]
  /\ k \notin held[kb]
  /\ Cardinality({p \in Keyboards \X Keys : p[2] \in held[p[1]]}) < MaxHeld
  /\ Key(kb, k, TRUE)

Release(kb, k) == k \in held[kb] /\ Key(kb, k, FALSE)

SetKeyboardFocus(c) ==
  /\ c # focus
  /\ focus' = c
  /\ seen' = IF c = NoClient THEN {} ELSE pressed
  /\ UNCHANGED <<held, config, mods, km, pressed, mode, changes, strayed, away>>

Changes == changes < MaxChanges /\ changes' = changes + 1

\* The configuration or hyprctl turns a keyboard or its binds on or off, or
\* its permission is granted or refused.
ConfigureKeyboard(kb) ==
  /\ Changes
  /\ \E c \in SettingsOf[kb] \ {config[kb]} : config' = [config EXCEPT ![kb] = c]
  /\ UNCHANGED <<held, mods, km, pressed, focus, seen, mode, strayed, away>>

Modes == {"working", "locked", "ime", "dragging", "inhibiting"}

\* The session or the last monitor goes or comes, the session is locked or
\* unlocked, an input method grabs the keys, a window is dragged,
\* clients inhibit shortcuts.
ModeChanges ==
  /\ Changes
  /\ \E f \in Modes : mode' = [mode EXCEPT ![f] = ~@]
  /\ UNCHANGED <<held, config, mods, km, pressed, focus, seen, strayed, away>>

\* The binds are read anew.
Reload ==
  /\ Changes
  /\ km' = [km EXCEPT !.shadowed = {}, !.special = {}, !.active = {}]
  /\ UNCHANGED <<held, config, mods, pressed, focus, seen, mode, strayed, away>>

Init ==
  /\ held = [kb \in Keyboards |-> {}]
  /\ config = [kb \in Keyboards |-> Plugged]
  /\ mods = {} /\ pressed = {} /\ seen = {} /\ focus = NoClient
  /\ km = [down |-> [k \in Keys |-> <<>>], shadowed |-> {}, special |-> {},
           active |-> {}, submap |-> DefaultSubmap, jumping |-> FALSE,
           ran |-> {}, slipped |-> {}, found |-> FALSE, stop |-> FALSE]
  /\ mode = [m \in Modes |-> m = "working"]
  /\ changes = 0 /\ strayed = {} /\ away = FALSE

Next ==
  \/ \E kb \in Keyboards, k \in Keys : Press(kb, k) \/ Release(kb, k)
  \/ \E c \in Clients \cup {NoClient} : SetKeyboardFocus(c)
  \/ \E kb \in Keyboards : ConfigureKeyboard(kb)
  \/ ModeChanges
  \/ Reload

Spec == Init /\ [][Next]_vars

-----------------------------------------------------------------------------
(* Properties.                                                              *)

Stroke == [key : Keys, mods : SUBSET Mods, sent : BOOLEAN, ran : SUBSET BindIds]

KeybindManager ==
  [down : [Keys -> Seq(Stroke)], shadowed : SUBSET BindIds, special : SUBSET BindIds,
   active : SUBSET BindIds, submap : Submaps, jumping : BOOLEAN, ran : SUBSET BindIds,
   slipped : SUBSET BindIds, found : BOOLEAN, stop : BOOLEAN]

\* Every variable has its type; no more presses of a key are on record than
\* there are keyboards, but for those one left behind when it was turned off.
TypeOK ==
  /\ held \in [Keyboards -> SUBSET Keys]
  /\ config \in [Keyboards -> Setting]
  /\ mods \subseteq Mods
  /\ km \in KeybindManager
  /\ \A k \in Keys : Len(km.down[k]) <= Cardinality(Keyboards) + MaxChanges
  /\ pressed \cup seen \cup strayed \subseteq Keys
  /\ focus \in Clients \cup {NoClient}
  /\ mode \in [Modes -> BOOLEAN]
  /\ changes \in 0 .. MaxChanges /\ away \in BOOLEAN

\* A key the clients were told pressed is held on some keyboard, whatever the
\* submaps, the shadows, the quick jump and the focus did between its press
\* and its release; unless the release was taken by a drag or an input method,
\* came from a keyboard that is off or after the record of the press was gone;
\* or the key was down on two keyboards, one of them with its binds off, and a
\* bind took the press of the other: then it does stick.
NoStuckKeys == pressed \subseteq HeldKeys \cup strayed

\* The focused client believes pressed exactly what the compositor told
\* clients of, through changes of focus and two keyboards with the same key.
SeenIsPressed == seen = IF focus = NoClient THEN {} ELSE pressed

\* A bind that is kept from running has its key down: no bind is lost once the
\* keys are up, unless the session was away and no key has come up since.
ShadowsArePressed == ~away => \A b \in km.shadowed : Binds[b].key \in Down(km)

\* A press on record is of a key that is held, or of one that came up on a
\* keyboard that was turned off, or its binds, after the press.
RecordHeld == Down(km) \subseteq HeldKeys \cup strayed

\* A bind that repeats has its key held.  (A repeating global shortcut starts
\* to repeat when it is let go, and so does a bind that a release runs because
\* the modifiers are no longer those of the press: they are not spoken of.)
RepeatHeld ==
  \A b \in km.active \ km.slipped :
    Global(b) \/ away \/ Binds[b].key \in HeldKeys \cup strayed

\* What the keybinds remember of the keyboard is true of it: no more presses
\* than there were, and no record, no shadow and no repeat without its key.
BindsSound == TypeOK /\ RecordHeld /\ ShadowsArePressed /\ RepeatHeld

\* The key comes up, and the binds hear of it.
CameUp(k) ==
  \E kb \in Keyboards : Heard(kb) /\ Bound(kb) /\ k \in held[kb] \ held'[kb]

\* Every press of the key on record was under the same modifiers.
PressedAlike(k) ==
  \A i, j \in DOMAIN km.down[k] : km.down[k][i].mods = km.down[k][j].mods

\* A bind that the press of a key ran is not run again by its release, however
\* the modifiers and the submap have changed since; unless the key was pressed
\* on another keyboard too, under other modifiers.
OncePerPress ==
  [][\A k \in Keys : CameUp(k) /\ PressedAlike(k) =>
       \A i \in DOMAIN km.down[k] : \A b \in km.down[k][i].ran \cap km'.ran : Global(b)]_vars

\* A shortcut whose key comes up, on a keyboard whose keys reach the binds, is
\* released whatever the submap is by then, if its bind may run at all and the
\* modifiers are those of the press; unless the same release changes the submap
\* first, which ends the loop.
ShortcutLetGo ==
  [][\A b \in km.special :
       /\ CameUp(Binds[b].key)
       /\ Binds[b].dontInhibit \/ ~Inhibited
       /\ Binds[b].locked \/ ~mode.locked
       /\ \E i \in DOMAIN km.down[Binds[b].key] : km.down[Binds[b].key][i].mods = mods
       => \/ b \in km'.ran
          \/ \E c \in km'.ran : c < b /\ Binds[c].handler = "submap"]_vars
=============================================================================
