----------------------------- MODULE Visualizer -----------------------------
(***************************************************************************)
(* The music visualizer: the item on the GUI thread (fe/Visualizer.cpp),   *)
(* its renderer on the render thread, which owns projectM and its playlist,*)
(* and the favorites kept on disk (fe/Favorites.cpp).                      *)
(*                                                                         *)
(* The GUI sends commands through a vector that synchronize() empties while*)
(* the GUI thread is blocked; the renderer reports every switch of preset  *)
(* with a queued event. Presets are numbered in the order of their paths;  *)
(* a playlist is a set of them, played in that order. No is "no preset".   *)
(***************************************************************************)
EXTENDS Naturals, Sequences, FiniteSets

CONSTANTS
    NPresets,       \* presets in the library
    Levels,         \* values of the sensitivity and preset duration sliders
    DefaultLevel,   \* the value both start with
    Watched,        \* the preset whose mark the history follows: any of the library
    MaxCmds,        \* bound: commands waiting for the render thread
    MaxEvents,      \* bound: events waiting for the GUI thread
    MaxWaiting      \* bound: commands and events waiting at the same time

ASSUME ConstantsAssumption ==
    /\ NPresets \in Nat \ {0}
    /\ MaxCmds \in Nat \ {0} /\ MaxEvents \in Nat \ {0, 1}
    /\ DefaultLevel \in Levels
    /\ Watched \in 1 .. NPresets

VARIABLES
    \* GUI thread, the item
    mode,           \* m_favoritesMode (and m_pendingFavoritesOn)
    locked,         \* m_locked
    level,          \* m_sensitivity (and m_pendingSensitivity); m_presetDuration is the same
    shuffled,       \* m_shuffleOn
    nav,            \* m_playlistSize and m_currentIndex, counted from 1
    current,        \* m_currentFilename
    cmds,           \* m_pendingCmds
    payload,        \* m_pendingFavoritesList
    events,         \* queued calls of set...FromRenderer
    \* Favorites
    favs, last,     \* m_set, m_lastPreset
    file,           \* favorites.json
    \* render thread
    syncing,        \* inside synchronize(), the GUI thread blocked
    playlist,       \* m_playlist
    playing,        \* its position
    pm,             \* what projectM was told: lock, level, shuffle
    \* history
    early,          \* a command was given before there was a playlist
    unsaved,        \* no save has succeeded since one failed, or since the load did
    mark,           \* what the user last made of Watched, over all runs of the program,
                    \* or "lost" if that was lost to a failure since
    pending         \* no save has succeeded since the user last marked or unmarked it

gui == <<mode, locked, level, shuffled, nav, current>>
store == <<favs, last, file, unsaved, pending>>
renderer == <<syncing, playlist, playing, pm>>
history == <<early, mark>>
vars == <<gui, cmds, payload, events, store, renderer, history>>

Presets == 1 .. NPresets
No == 0
NoPlaylist == {No}
NoFile == [favs |-> {}, last |-> No]

Cmd == {"Next", "Prev", "ShuffleOn", "ShuffleOff", "LockOn", "LockOff",
        "SetLevel", "SetFavoritesMode"}
Event == [preset : Presets \cup {No}, size : 0 .. NPresets,
          index : 0 .. NPresets, shuffle : BOOLEAN]

TypeOK ==
    /\ mode \in BOOLEAN /\ locked \in BOOLEAN /\ level \in Levels
    /\ shuffled \in BOOLEAN /\ current \in Presets \cup {No}
    /\ nav \in [size : 0 .. NPresets, index : 0 .. NPresets]
    /\ cmds \in Seq(Cmd) /\ Len(cmds) <= MaxCmds
    /\ payload \subseteq Presets
    /\ events \in Seq(Event) /\ Len(events) <= MaxEvents
    /\ favs \subseteq Presets /\ last \in Presets \cup {No} /\ unsaved \in BOOLEAN
    /\ file \in [favs : SUBSET Presets, last : Presets \cup {No}]
    /\ syncing \in BOOLEAN
    /\ playlist \in (SUBSET Presets) \cup {NoPlaylist}
    /\ playing \in Presets \cup {No}
    /\ pm \in [locked : BOOLEAN, level : Levels, shuffle : BOOLEAN]
    /\ early \in BOOLEAN /\ pending \in BOOLEAN
    /\ mark \in {"marked", "unmarked", "lost"}

-----------------------------------------------------------------------------
(* Favorites. save() goes through QSaveFile: the file is the new one or, when   *)
(* opening or committing fails or the process dies, the old one. touched is the *)
(* preset whose mark the save is for.                                           *)

\* Mutant: saving leaves out the case of an emptied set.
Save_NotEmpty(newFavs, newLast, touched) ==
    /\ file' = IF newFavs # {} THEN [favs |-> newFavs, last |-> newLast] ELSE file
    /\ unsaved' = FALSE /\ pending' = FALSE

Save(newFavs, newLast, touched) ==
    \/ /\ file' = [favs |-> newFavs, last |-> newLast]
       /\ unsaved' = FALSE /\ pending' = FALSE
    \/ /\ UNCHANGED file
       /\ unsaved' = TRUE /\ pending' = (pending \/ touched = Watched)

SetLastPreset(p) ==
    IF p = last THEN UNCHANGED store
    ELSE last' = p /\ favs' = favs /\ Save(favs, p, No)

\* The Favorites constructor in a new process. load() reads the file, and what was
\* not saved is lost; or it finds no file or cannot open or parse it, and leaves
\* the set empty: the next save then replaces whatever the file held.
Load ==
    /\ UNCHANGED file /\ pending' = FALSE
    /\ \/ /\ favs' = file.favs /\ last' = file.last /\ unsaved' = FALSE
          /\ mark' = IF pending THEN "lost" ELSE mark
       \/ /\ favs' = {} /\ last' = No /\ unsaved' = TRUE
          /\ mark' = "lost"

-----------------------------------------------------------------------------
(* The item. Each operation is one call on the GUI thread.                      *)

GuiRuns == ~syncing
Room == Len(cmds) + Len(events) < MaxWaiting

Send(c) ==
    /\ GuiRuns /\ Len(cmds) < MaxCmds /\ Room
    /\ cmds' = Append(cmds, c)
    /\ early' = (early \/ playlist = NoPlaylist)
    /\ UNCHANGED <<events, store, renderer, mark>>

CanNext == nav.size > 1 /\ (shuffled \/ (nav.index >= 1 /\ nav.index < nav.size))
CanPrev == nav.size > 1 /\ (shuffled \/ nav.index > 1)

PlayNext == CanNext /\ Send("Next") /\ UNCHANGED <<gui, payload>>
PlayPrev == CanPrev /\ Send("Prev") /\ UNCHANGED <<gui, payload>>

SetLocked(on) ==
    /\ locked # on /\ locked' = on
    /\ Send(IF on THEN "LockOn" ELSE "LockOff")
    /\ UNCHANGED <<mode, level, shuffled, nav, current, payload>>

SetLevel(v) ==
    /\ level # v /\ level' = v
    /\ Send("SetLevel")
    /\ UNCHANGED <<mode, locked, shuffled, nav, current, payload>>

Shuffle(on) ==
    /\ shuffled' = on
    /\ Send(IF on THEN "ShuffleOn" ELSE "ShuffleOff")
    /\ UNCHANGED <<mode, locked, level, nav, current, payload>>

SetFavoritesMode(on) ==
    /\ mode # on
    /\ on => favs # {}
    /\ mode' = on
    /\ payload' = IF on THEN favs ELSE {}
    /\ Send("SetFavoritesMode")
    /\ UNCHANGED <<locked, level, shuffled, nav, current>>

ToggleFavorite ==
    /\ GuiRuns /\ current # No
    /\ favs' = IF current \in favs THEN favs \ {current} ELSE favs \cup {current}
    /\ mark' = IF current # Watched THEN mark
               ELSE IF current \in favs THEN "unmarked" ELSE "marked"
    /\ last' = last /\ Save(favs', last, current)
    /\ UNCHANGED <<gui, cmds, payload, events, renderer, early>>

PersistState ==
    /\ GuiRuns /\ current # No
    /\ SetLastPreset(current)
    /\ UNCHANGED <<gui, cmds, payload, events, renderer, history>>

\* setCurrentPresetFromRenderer, unless the event is from pushNavState, and
\* setNavStateFromRenderer.
FromRenderer ==
    /\ GuiRuns /\ events # <<>>
    /\ events' = Tail(events)
    /\ LET e == Head(events) IN
       /\ nav' = [size |-> e.size, index |-> e.index]
       /\ shuffled' = e.shuffle
       /\ IF e.preset \in {No, current} THEN UNCHANGED <<current, store>>
          ELSE current' = e.preset /\ SetLastPreset(e.preset)
    /\ UNCHANGED <<mode, locked, level, cmds, payload, renderer, history>>

-----------------------------------------------------------------------------
(* The renderer.                                                                *)

\* Mutant: the index is counted from 1 twice.
Index_Twice(list, p) == Cardinality({q \in list : q <= p}) + 1

Index(list, p) == Cardinality({q \in list : q <= p})

Report(list, p, shuffle) ==
    [preset |-> p, size |-> Cardinality(list), index |-> Index(list, p), shuffle |-> shuffle]

\* projectM's playlist: the next preset in order, around the end, or any.
After(list, p) ==
    IF \E q \in list : q > p
    THEN CHOOSE q \in list : q > p /\ \A r \in list : r > p => q <= r
    ELSE CHOOSE q \in list : \A r \in list : q <= r
Before(list, p) == CHOOSE q \in list : After(list, q) = p
FollowingIn(list) == IF pm.shuffle THEN list ELSE {After(list, playing)}
PrecedingIn(list) == IF pm.shuffle THEN list ELSE {Before(list, playing)}

\* Mutant: the switch is reported with the index of the preset that was left.
SwitchTo_OldIndex(p) ==
    /\ playing' = p
    /\ events' = Append(events, [Report(playlist, p, pm.shuffle) EXCEPT !.index = Index(playlist, playing)])

\* A switch calls onPresetSwitched on the render thread.
SwitchTo(p) ==
    /\ playing' = p
    /\ events' = Append(events, Report(playlist, p, pm.shuffle))

EnsureProjectM == pm' = [locked |-> FALSE, level |-> level, shuffle |-> FALSE]

\* The whole library, from the preset of the last run if it is still there.
LoadPresetsOnce ==
    /\ playlist' = Presets
    /\ playing' = IF last \in Presets THEN last ELSE 1
    /\ events' = Append(events, Report(Presets, playing', FALSE))

\* The first updatePaintNode(): the renderer takes the hint from the favorites,
\* synchronize() drops what was sent, for there is no playlist yet, and
\* createFramebufferObject() makes projectM and loads the library.
FirstPaint ==
    /\ playlist = NoPlaylist /\ Len(events) < MaxEvents
    /\ EnsureProjectM /\ LoadPresetsOnce
    /\ cmds' = <<>> /\ payload' = {}
    /\ UNCHANGED <<gui, store, syncing, history>>

\* synchronize() runs the commands in order and clears both vectors: the first
\* command starts it, the last one ends it.
Run(c) ==
    /\ playlist # NoPlaylist /\ cmds # <<>> /\ Head(cmds) = c
    /\ Len(events) < MaxEvents
    /\ cmds' = Tail(cmds)
    /\ syncing' = (cmds' # <<>>)
    /\ payload' = IF syncing' THEN payload ELSE {}
    /\ UNCHANGED <<gui, store, history>>

RunNext ==
    /\ Run("Next") /\ \E p \in FollowingIn(playlist) : SwitchTo(p)
    /\ UNCHANGED <<playlist, pm>>

RunPrev ==
    /\ Run("Prev") /\ \E p \in PrecedingIn(playlist) : SwitchTo(p)
    /\ UNCHANGED <<playlist, pm>>

RunSetting ==
    /\ \/ Run("ShuffleOn") /\ pm' = [pm EXCEPT !.shuffle = TRUE]
       \/ Run("ShuffleOff") /\ pm' = [pm EXCEPT !.shuffle = FALSE]
       \/ Run("LockOn") /\ pm' = [pm EXCEPT !.locked = TRUE]
       \/ Run("LockOff") /\ pm' = [pm EXCEPT !.locked = FALSE]
       \/ Run("SetLevel") /\ pm' = [pm EXCEPT !.level = level]
    /\ UNCHANGED <<events, playlist, playing>>

\* clear, fill, play_next, which calls onPresetSwitched, and pushNavState.
RunFavoritesMode ==
    /\ Run("SetFavoritesMode") /\ Len(events) + 1 < MaxEvents
    /\ playlist' = IF mode THEN payload ELSE Presets
    /\ \E p \in IF pm.shuffle THEN playlist' ELSE {After(playlist', No)} :
          /\ playing' = p
          /\ events' = events \o <<Report(playlist', p, pm.shuffle),
                                   [Report(playlist', p, pm.shuffle) EXCEPT !.preset = No]>>
    /\ UNCHANGED pm

\* render(): projectM goes on to the next preset when its time is up, unless it
\* is locked. Without a playlist there is no projectM either, and nothing happens.
AutoSwitch ==
    /\ ~syncing /\ playlist # NoPlaylist /\ ~pm.locked
    /\ Len(events) < MaxEvents /\ Room
    /\ \E p \in FollowingIn(playlist) : SwitchTo(p)
    /\ UNCHANGED <<gui, cmds, payload, store, syncing, playlist, pm, history>>

-----------------------------------------------------------------------------
Init ==
    /\ mode = FALSE /\ locked = FALSE /\ level = DefaultLevel /\ shuffled = FALSE
    /\ nav = [size |-> 0, index |-> 0] /\ current = No
    /\ cmds = <<>> /\ payload = {} /\ events = <<>>
    /\ syncing = FALSE /\ playlist = NoPlaylist /\ playing = No
    /\ pm = [locked |-> FALSE, level |-> DefaultLevel, shuffle |-> FALSE]
    /\ early = FALSE
    /\ favs = {} /\ last = No /\ file = NoFile
    /\ unsaved = FALSE /\ mark = "unmarked" /\ pending = FALSE

\* The process ends, at any point, and is started again.
Restart ==
    /\ mode' = FALSE /\ locked' = FALSE /\ level' = DefaultLevel /\ shuffled' = FALSE
    /\ nav' = [size |-> 0, index |-> 0] /\ current' = No
    /\ cmds' = <<>> /\ payload' = {} /\ events' = <<>>
    /\ syncing' = FALSE /\ playlist' = NoPlaylist /\ playing' = No
    /\ pm' = [locked |-> FALSE, level |-> DefaultLevel, shuffle |-> FALSE]
    /\ early' = FALSE
    /\ Load

Next ==
    \/ PlayNext \/ PlayPrev \/ ToggleFavorite \/ PersistState \/ FromRenderer
    \/ \E on \in BOOLEAN : SetLocked(on) \/ Shuffle(on) \/ SetFavoritesMode(on)
    \/ \E v \in Levels : SetLevel(v)
    \/ FirstPaint \/ RunNext \/ RunPrev \/ RunSetting
    \/ RunFavoritesMode \/ AutoSwitch
    \/ Restart

Spec == Init /\ [][Next]_vars

-----------------------------------------------------------------------------
\* The mark of a preset is lost in two ways only: the process ends while no save since the mark
\* was set has succeeded, or a load fails, which may cost every mark set before it
\* (Favorites::load leaves the set empty, and the next preset saves it). Any other
\* mark is what the user made it, through any order of switches, saves that fail and
\* are made good by a later one, and restarts.
FavoritesSurvive ==
    /\ mark = "marked" => Watched \in favs
    /\ mark = "unmarked" => Watched \notin favs

Quiet == playlist # NoPlaylist /\ cmds = <<>> /\ events = <<>>

\* With nothing under way the page and Favorites have the preset that projectM
\* plays, and so has favorites.json unless the latest save or load failed (nothing
\* tries it again). The page shows the renderer's position and level; when the user touched
\* nothing before the first frame (early), it also shows the lock and the favorites
\* mode that projectM was told. The shuffle flag is left out: an event posted before
\* the command is run takes the button's value back.
MirrorsAgree ==
    Quiet =>
      /\ current = playing /\ last = playing
      /\ unsaved \/ file.last = playing
      /\ nav = [size |-> Cardinality(playlist), index |-> Index(playlist, playing)]
      /\ pm.level = level
      /\ ~early => /\ pm.locked = locked
                   /\ mode \/ playlist = Presets
                   /\ playing \in playlist
=============================================================================
