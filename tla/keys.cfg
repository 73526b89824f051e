SPECIFICATION Spec
CONSTANTS
  Keyboards = {"board", "pad"}
  KeysOf <- MCKeysOf
  Keys = {"super", "a", "esc"}
  Mods = {"super"}
  ModOf <- MCModOf
  Escape = "esc"
  Printable = {"a"}
  Binds <- MCBinds
  Submaps = {"default", "pick"}
  DefaultSubmap = "default"
  Clients = {"plain"}
  NoClient = "none"
  SettingsOf <- MCSettingsOf
  MaxHeld = 2
  MaxChanges = 2
VIEW Unread
INVARIANTS
  BindsSound
  NoStuckKeys
  SeenIsPressed
PROPERTIES
  OncePerPress
  ShortcutLetGo
