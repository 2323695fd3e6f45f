------------------------------ MODULE Settings ------------------------------
(***************************************************************************)
(* The settings of the addon (settings.h, settings.cpp): loaded from a     *)
(* file when the addon starts, changed on the tabs of the options window,  *)
(* used to decide where the timer is enabled, prepared and stopped, and    *)
(* saved when the addon is unloaded, which a crash of the game prevents or *)
(* interrupts.  The decisions read the map of the game's shared memory and *)
(* the map the map tracker knows, which need not agree.                    *)
(***************************************************************************)
EXTENDS Integers, Sequences, FiniteSets

CONSTANTS
  Text, Key, Color, BossId, Threshold,    \* what can be entered
  NoText, NoKey, Grey,                    \* the defaults
  NoPopup,
  Found,       \* the files an earlier version may have left
  MapId,       \* the maps that are visited
  MaxStarts, MaxEdits   \* bounds

CurrentVersion == 11

-----------------------------------------------------------------------------
(* The maps of the enumeration MapID, by the comments over its parts, and  *)
(* those get_instance_type has a case for.                                 *)

Fractals ==
  {872, 1164, 1177, 1205, 1267, 1290, 1384} \cup 947 .. 960

Raids == {1062, 1149, 1156, 1188, 1264, 1303, 1323}

Dungeons == {36, 33, 76, 75, 67, 68, 64, 63, 69, 66, 71, 70, 82, 81, 112}

Strikes ==
  {1450, 1451, 1437, 1432, 1332, 1374, 1359, 1339, 1346, 1341, 1368}

Nightmare == 1177

MistlockObservatory == 872

get_instance_type(id) ==
  CASE id \in Fractals \ {Nightmare} -> "Fractal"
    [] id \in Raids                  -> "Raid"
    [] id \in Dungeons               -> "Dungeon"
    [] id \in Strikes                -> "Strike"
    [] OTHER                         -> "Unknown"

-----------------------------------------------------------------------------

OnByDefault ==
  {"show_timer", "auto_prepare", "disable_outside_instances", "save_logs",
   "segment_window_border", "disable_in_fractal_lobby"}

FlagSetting ==
  OnByDefault \cup
  {"show_history", "show_segments", "use_custom_id", "hide_timer_buttons",
   "hide_segment_buttons", "auto_stop", "unified_window"}

TextSetting == {"custom_id", "time_formatter", "segment_time_formatter"}

KeySetting == {"start_key", "stop_key", "reset_key", "prepare_key", "segment_key"}

TimerColor ==
  {"start_button_color", "stop_button_color", "reset_button_color",
   "prepare_button_color"}

SegmentColor == {"segment_button_color", "clear_button_color"}

ColorSetting == TimerColor \cup SegmentColor

SetSetting == {"dungeon_fractal_settings", "raid_settings", "strike_settings"}

SettingsSet ==
  [is_enabled : BOOLEAN, auto_prepare : BOOLEAN, auto_stop : BOOLEAN,
   early_gg_threshold : Threshold]

Setting ==
  FlagSetting \cup TextSetting \cup KeySetting \cup ColorSetting \cup SetSetting
    \cup {"additional_boss_ids"}

Default ==
  [s \in Setting |->
    CASE s \in FlagSetting  -> s \in OnByDefault
      [] s \in TextSetting  -> NoText
      [] s \in KeySetting   -> NoKey
      [] s \in ColorSetting -> Grey
      [] s \in SetSetting   -> [is_enabled |-> TRUE,
                                auto_prepare |-> s = "dungeon_fractal_settings",
                                auto_stop |-> TRUE, early_gg_threshold |-> 10]
      [] OTHER              -> {}]

Values(s) ==
  CASE s \in FlagSetting  -> BOOLEAN
    [] s \in TextSetting  -> Text
    [] s \in KeySetting   -> Key
    [] s \in ColorSetting -> Color
    [] s \in SetSetting   -> SettingsSet
    [] OTHER              -> SUBSET BossId

(* A file: its version and what is stored by name.  No file is as good as  *)
(* one of a version before all; a torn one is not JSON.                    *)
NoFile == [version |-> 0, stored |-> <<>>]

Torn == [version |-> -1, stored |-> <<>>]

WellTyped(f) == \A s \in DOMAIN f.stored \cap Setting : f.stored[s] \in Values(s)

ASSUME DefaultsAssumption ==
  NoText \in Text /\ NoKey \in Key /\ Grey \in Color /\ 10 \in Threshold
ASSUME FoundAssumption == \A f \in Found : f.version \in Nat /\ WellTyped(f)
ASSUME PopupAssumption == NoPopup \notin ColorSetting

VARIABLES
  file,          \* timer.json
  running,       \* the addon is loaded
  saving,        \* in mod_release, between opening the file and writing it
  settings, boss_id_selected,
  handler_key,   \* the key each handler of the key bindings waits for
  popup,         \* the color whose popup is open
  starts, edits,
  kept           \* what the last start found or the last unload saved

vars == <<file, running, saving, settings, boss_id_selected, handler_key, popup,
          starts, edits, kept>>

-----------------------------------------------------------------------------
(* The file.                                                               *)

(* Mutant: a setting is not written.                                       *)
WrittenAsOmitted(s) == IF s = "show_history" THEN "" ELSE s

(* The name under which a setting is written; it is read under its own.    *)
WrittenAs(s) == IF s = "time_formatter" THEN "timer_formatter" ELSE s

Save(values) ==
  [version |-> CurrentVersion,
   stored  |-> [name \in {WrittenAs(s) : s \in Setting} |->
                  values[CHOOSE s \in Setting : WrittenAs(s) = name]]]

Usable(f) == f.version >= CurrentVersion

Load(f) ==
  [s \in Setting |->
    IF Usable(f) /\ s \in DOMAIN f.stored THEN f.stored[s] ELSE Default[s]]

-----------------------------------------------------------------------------

Init ==
  /\ file \in Found \cup {NoFile}
  /\ running = FALSE /\ saving = FALSE
  /\ settings = Default /\ kept = Default
  /\ boss_id_selected = -1
  /\ handler_key = [s \in KeySetting |-> NoKey]
  /\ popup = NoPopup
  /\ starts = 0 /\ edits = 0

(* The constructor, and mod_init, which subscribes the handlers.  On a     *)
(* torn file the constructor throws, and the addon does not load.          *)
Start ==
  /\ ~ running /\ file # Torn
  /\ starts < MaxStarts /\ starts' = starts + 1
  /\ running' = TRUE
  /\ settings' = Load(file)
  /\ boss_id_selected' = -1
  /\ handler_key' = [s \in KeySetting |-> settings'[s]]
  /\ kept' = IF starts = 0 THEN settings' ELSE kept
  /\ UNCHANGED <<file, saving, popup, edits>>

(* mod_release opens the file, which empties it, and writes.               *)
OpenFile ==
  /\ running /\ ~ saving
  /\ file' = Torn /\ saving' = TRUE
  /\ popup' = NoPopup
  /\ UNCHANGED <<running, settings, boss_id_selected, handler_key, starts, edits, kept>>

Stopped ==
  /\ running' = FALSE /\ saving' = FALSE
  /\ settings' = Default /\ popup' = NoPopup

WriteFile ==
  /\ saving
  /\ file' = Save(settings) /\ kept' = settings
  /\ Stopped
  /\ UNCHANGED <<boss_id_selected, handler_key, starts, edits>>

Crash ==
  /\ running
  /\ Stopped
  /\ UNCHANGED <<file, boss_id_selected, handler_key, starts, edits, kept>>

-----------------------------------------------------------------------------
(* Settings::mod_options and mod_windows: each control is there only under *)
(* its condition.  Closing a window is unchecking it.                      *)

Using ==
  /\ running /\ ~ saving
  /\ edits < MaxEdits /\ edits' = edits + 1
  /\ UNCHANGED <<file, running, saving, starts, kept>>

Set(s, value) == settings' = [settings EXCEPT ![s] = value]

Shown(s) ==
  CASE s = "custom_id"                          -> settings["use_custom_id"]
    [] s = "disable_in_fractal_lobby"           -> settings["disable_outside_instances"]
    [] s \in {"segment_window_border", "show_segments"} -> ~ settings["unified_window"]
    [] s \in TimerColor                         -> ~ settings["hide_timer_buttons"]
    [] s \in SegmentColor                       -> ~ settings["hide_segment_buttons"]
    [] OTHER                                    -> TRUE

Checkbox(s) ==
  /\ Using /\ popup = NoPopup /\ Shown(s)
  /\ Set(s, ~ settings[s])
  /\ UNCHANGED <<boss_id_selected, handler_key, popup>>

InputText(s) ==
  /\ Using /\ popup = NoPopup /\ Shown(s)
  /\ \E text \in Text : Set(s, text)
  /\ UNCHANGED <<boss_id_selected, handler_key, popup>>

(* Mutant: the handler of another key is updated.                          *)
UpdateKeySwapped(s, key) ==
  handler_key' = [handler_key EXCEPT !["start_key"] = key]

UpdateKey(s, key) == handler_key' = [handler_key EXCEPT ![s] = key]

KeyCodeInput(s) ==
  /\ Using /\ popup = NoPopup
  /\ \E key \in Key : Set(s, key) /\ UpdateKey(s, key)
  /\ UNCHANGED <<boss_id_selected, popup>>

InputSet(s) ==
  /\ Using /\ popup = NoPopup
  /\ \/ \E flag \in {"is_enabled", "auto_prepare", "auto_stop"} :
          Set(s, [settings[s] EXCEPT ![flag] = ~ @])
     \/ \E t \in Threshold : Set(s, [settings[s] EXCEPT !.early_gg_threshold = t])
  /\ UNCHANGED <<boss_id_selected, handler_key, popup>>

Selectable(id) ==
  /\ Using /\ popup = NoPopup
  /\ id \in settings["additional_boss_ids"] /\ boss_id_selected' = id
  /\ UNCHANGED <<settings, handler_key, popup>>

ButtonAdd(id) ==
  /\ Using /\ popup = NoPopup
  /\ Set("additional_boss_ids", settings["additional_boss_ids"] \cup {id})
  /\ UNCHANGED <<boss_id_selected, handler_key, popup>>

ButtonRemove ==
  /\ Using /\ popup = NoPopup
  /\ Set("additional_boss_ids", settings["additional_boss_ids"] \ {boss_id_selected})
  /\ UNCHANGED <<boss_id_selected, handler_key, popup>>

(* color_picker_popup: a frame with the popup open writes what the picker  *)
(* shows, which is the color of the start button until another is picked.  *)
OpenPopup(s) ==
  /\ running /\ ~ saving /\ Shown(s)
  /\ popup' = s
  /\ UNCHANGED <<file, running, saving, settings, boss_id_selected, handler_key,
                 starts, edits, kept>>

PopupFrame ==
  /\ running /\ ~ saving /\ popup # NoPopup
  /\ Set(popup, settings["start_button_color"])
  /\ UNCHANGED <<file, running, saving, boss_id_selected, handler_key, popup, starts,
                 edits, kept>>

PickColor(color) ==
  /\ Using /\ popup # NoPopup
  /\ Set(popup, color)
  /\ UNCHANGED <<boss_id_selected, handler_key, popup>>

ClosePopup ==
  /\ popup # NoPopup /\ popup' = NoPopup
  /\ UNCHANGED <<file, running, saving, settings, boss_id_selected, handler_key,
                 starts, edits, kept>>

Next ==
  \/ Start \/ OpenFile \/ WriteFile \/ Crash
  \/ \E s \in FlagSetting : Checkbox(s)
  \/ \E s \in TextSetting : InputText(s)
  \/ \E s \in KeySetting : KeyCodeInput(s)
  \/ \E s \in SetSetting : InputSet(s)
  \/ \E id \in BossId : Selectable(id) \/ ButtonAdd(id)
  \/ ButtonRemove
  \/ \E s \in ColorSetting : OpenPopup(s)
  \/ PopupFrame \/ ClosePopup
  \/ \E color \in Color : PickColor(color)

Spec == Init /\ [][Next]_vars

-----------------------------------------------------------------------------
(* What the settings decide at a place: the type and the id of the map in  *)
(* the shared memory, and the id the map tracker knows.                    *)

Place == [instance : BOOLEAN, mapId : MapId, tracked : MapId]

HasSet(place) == get_instance_type(place.tracked) # "Unknown"

(* Mutant: the cases of raids and strikes are swapped.                     *)
get_current_set_swapped(place) ==
  CASE get_instance_type(place.tracked) \in {"Dungeon", "Fractal"}
                                                    -> settings["dungeon_fractal_settings"]
    [] get_instance_type(place.tracked) = "Raid"    -> settings["strike_settings"]
    [] get_instance_type(place.tracked) = "Strike"  -> settings["raid_settings"]

get_current_set(place) ==
  CASE get_instance_type(place.tracked) \in {"Dungeon", "Fractal"}
                                                    -> settings["dungeon_fractal_settings"]
    [] get_instance_type(place.tracked) = "Raid"    -> settings["raid_settings"]
    [] get_instance_type(place.tracked) = "Strike"  -> settings["strike_settings"]

InDisabledLobby(place) ==
  /\ settings["disable_outside_instances"] /\ settings["disable_in_fractal_lobby"]
  /\ place.mapId = MistlockObservatory

is_enabled(place) ==
  /\ settings["disable_outside_instances"] => place.instance
  /\ ~ InDisabledLobby(place)
  /\ HasSet(place) => get_current_set(place).is_enabled

should_autoprepare(place) ==
  /\ place.instance /\ ~ InDisabledLobby(place)
  /\ settings["auto_prepare"]
  /\ HasSet(place) => get_current_set(place).auto_prepare

should_autostop(place) ==
  /\ settings["auto_stop"]
  /\ HasSet(place) => get_current_set(place).auto_stop

get_early_gg_threshold(place) ==
  IF HasSet(place) THEN get_current_set(place).early_gg_threshold ELSE 0

-----------------------------------------------------------------------------

TypeOK ==
  /\ file = Torn \/ (file.version \in Nat /\ WellTyped(file))
  /\ running \in BOOLEAN /\ saving \in BOOLEAN
  /\ DOMAIN settings = Setting /\ DOMAIN kept = Setting
  /\ \A s \in Setting : settings[s] \in Values(s) /\ kept[s] \in Values(s)
  /\ handler_key \in [KeySetting -> Key]
  /\ boss_id_selected \in BossId \cup {-1}
  /\ popup \in ColorSetting \cup {NoPopup}
  /\ starts \in Nat /\ edits \in Nat

(* Every start finds the settings of the last time the addon was unloaded, *)
(* however often the game crashed since and whatever was changed before    *)
(* it did - all but the time formatter.  (settings.cpp:24-68 beside 71-106 *)
(* and the two lists of names in them)                                     *)
SettingsSurvive ==
  [][Start /\ starts > 0 =>
       \A s \in Setting \ {"time_formatter"} : settings'[s] = kept[s]]_vars

(* Each handler waits for the key that the settings show, so the key that  *)
(* is saved is the one that works.  (settings.cpp:174-192, mod.cpp:97-145) *)
HandlersFollowKeys ==
  running => \A s \in KeySetting : handler_key[s] = settings[s]

TabOf(id) ==
  CASE id \in Fractals \cup Dungeons -> "dungeon_fractal_settings"
    [] id \in Raids                  -> "raid_settings"
    [] id \in Strikes                -> "strike_settings"
    [] OTHER                         -> "none"

Decisions(place) ==
  <<is_enabled(place), should_autoprepare(place), should_autostop(place),
    get_early_gg_threshold(place)>>

(* A change on the tab of one kind of content is without effect on every   *)
(* other kind, by the lists of maps of the enumeration, wherever the game  *)
(* and the map tracker say the player is.  (settings.cpp:412-424 beside    *)
(* maptracker.cpp:72-137)                                                  *)
TabsAreSeparate ==
  [][\A s \in SetSetting :
       InputSet(s) =>
         \A place \in Place :
           TabOf(place.tracked) # s => Decisions(place)' = Decisions(place)]_vars

=============================================================================
