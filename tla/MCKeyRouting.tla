---------------------------- MODULE MCKeyRouting ----------------------------
(* A keyboard with a modifier, a letter and Escape, a keypad with the same  *)
(* letter, and a bind of every sort.                                        *)
EXTENDS KeyRouting, TLC

Plain == [key |-> "a", mods |-> {}, handler |-> "exec", submap |-> "default",
          to |-> "default", release |-> FALSE, repeat |-> FALSE, locked |-> FALSE,
          dontInhibit |-> FALSE, ignoreMods |-> FALSE, nonConsuming |-> FALSE,
          transparent |-> FALSE]

MCKeysOf == [k \in Keyboards |-> IF k = "pad" THEN {"a"} ELSE Keys]
MCModOf == [k \in Keys |-> IF k \in Mods THEN {k} ELSE {}]

MCBinds == <<
  [Plain EXCEPT !.mods = {"super"}, !.handler = "quickjump"],
  [Plain EXCEPT !.submap = "pick", !.handler = "submap", !.release = TRUE],
  [Plain EXCEPT !.handler = "global", !.nonConsuming = TRUE],
  [Plain EXCEPT !.key = "esc", !.mods = {"super"}, !.handler = "submap",
                !.to = "pick", !.dontInhibit = TRUE],
  [Plain EXCEPT !.submap = "pick", !.ignoreMods = TRUE, !.repeat = TRUE, !.locked = TRUE],
  [Plain EXCEPT !.repeat = TRUE, !.transparent = TRUE],
  [Plain EXCEPT !.key = "super", !.mods = {"super"}, !.release = TRUE]>>

\* One thing is off at a time.
MCSettingsOf ==
  [k \in Keyboards |->
     {Plugged, [Plugged EXCEPT !.binds = FALSE],
      IF k = "pad" THEN [Plugged EXCEPT !.allowed = FALSE] ELSE [Plugged EXCEPT !.enabled = FALSE]}]

\* What is only read as soon as it is written.
Unread == <<held, config, mods, [km EXCEPT !.ran = {}, !.found = FALSE, !.stop = FALSE],
            pressed, focus, seen, mode, changes, strayed, away>>
=============================================================================
