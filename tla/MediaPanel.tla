----------------------------- MODULE MediaPanel -----------------------------
(***************************************************************************)
(* The media panel of banks-viz: the track of the phone's player           *)
(* (viz/media_control.cpp), the volume (viz/volume_control.cpp) and the    *)
(* main loop that polls both and then draws the buttons (viz/main.cpp,     *)
(* viz/gui.cpp). One thread: a blocking D-Bus call leaves the signals that *)
(* arrive meanwhile in sd-bus's queue, and poll() handles them afterwards. *)
(*                                                                         *)
(* There is one player, which may come and go. Position and Duration are   *)
(* copied the way Status and Title are, and Album the way Artist is. The   *)
(* volume is read and written by running wpctl, which may fail each time.  *)
(***************************************************************************)
EXTENDS Integers, Sequences

CONSTANTS
    Texts,          \* titles and artists
    FirstTitle,     \* the title the program finds: any, for they are interchangeable
    Top,            \* the full volume, 1.0
    Loudest,        \* how far other programs may turn the sink up
    MaxChanges      \* bound: changes made by the user, the phone and other programs

None == "none"

ASSUME PanelAssumption ==
    /\ MaxChanges \in Nat /\ None \notin Texts /\ FirstTitle \in Texts
    /\ Top \in Nat \ {0} /\ Loudest \in Nat /\ Top <= Loudest

VARIABLES
    player,         \* BlueZ's MediaPlayer1: there or not, status and track
    queue,          \* PropertiesChanged signals not handled yet
    matched,        \* match_slot is installed
    playerKnown,    \* player_path is set
    info,           \* TrackInfo
    said,           \* what the player last told, field by field (history)
    sink,           \* the audio sink's volume and mute
    panel,          \* vol, is_muted
    due,            \* last_poll is a second old, or was reset
    at,             \* where the thread is
    changes         \* bound counter

media == <<player, queue, matched, playerKnown, info, said>>
volume == <<sink, panel, due>>
panelVars == <<media, volume, at, changes>>

Statuses == {"playing", "paused"}
Fields == {"status", "title", "artist"}
Blank == [f \in Fields |-> None]
Infos == [status : Statuses \cup {None}, title : Texts \cup {None}, artist : Texts \cup {None}]
Volumes == [level : 0 .. Loudest, muted : BOOLEAN]

PanelTypeOK ==
    /\ player \in [alive : BOOLEAN, status : Statuses, title : Texts, artist : Texts \cup {None}]
    /\ queue \in Seq(Infos) /\ Len(queue) <= MaxChanges
    /\ matched \in BOOLEAN /\ playerKnown \in BOOLEAN
    /\ info \in Infos /\ said \in Infos
    /\ sink \in Volumes /\ panel \in Volumes
    /\ due \in BOOLEAN /\ changes \in 0 .. MaxChanges
    /\ at \in {"start", "discover", "getall", "media", "volume", "gui", "exit"}

\* A dictionary names some of the fields; the others keep what they had.
Overlay(old, dict) == [f \in Fields |-> IF dict[f] = None THEN old[f] ELSE dict[f]]
Dict == [f \in Fields |-> player[f]]

\* What a new VolumeControl shows: a volume of 0.5.
Unpolled == [level |-> Top \div 2, muted |-> FALSE]

\* A VolumeControl polled once before the loop; that poll may fail too.
PanelInit ==
    /\ player \in [alive : BOOLEAN, status : {"paused"}, title : {FirstTitle},
                   artist : Texts \cup {None}]
    /\ queue = <<>> /\ matched = FALSE /\ playerKnown = FALSE
    /\ info = Blank /\ said = Blank
    /\ sink \in Volumes /\ panel \in {sink, Unpolled} /\ due = FALSE
    /\ at = "start" /\ changes = 0

----------------------------------------------------------------------------
(* Starting up. *)

\* Mutant: the signals are asked for once the player has been read.
Match_Late ==
    /\ at = "start"
    /\ at' = "discover"
    /\ UNCHANGED <<media, volume, changes>>

Match ==
    /\ at = "start"
    /\ matched' = TRUE /\ at' = "discover"
    /\ UNCHANGED <<player, queue, playerKnown, info, said, volume, changes>>

DiscoverPlayer ==
    /\ at = "discover"
    /\ playerKnown' = player.alive
    /\ at' = IF player.alive THEN "getall" ELSE "media"
    /\ UNCHANGED <<player, queue, matched, info, said, volume, changes>>

\* GetAll fails when the player has gone since it was discovered.
ReadAllProperties ==
    /\ at = "getall"
    /\ at' = "media"
    /\ IF player.alive
       THEN info' = Overlay(info, Dict) /\ said' = Overlay(said, Dict)
       ELSE UNCHANGED <<info, said>>
    /\ UNCHANGED <<player, queue, matched, playerKnown, volume, changes>>

----------------------------------------------------------------------------
(* The loop. *)

HandleSignal(dict) == Overlay(info, dict)

OnPropertiesChanged ==
    /\ at = "media" /\ queue /= <<>>
    /\ playerKnown' = TRUE
    /\ info' = HandleSignal(Head(queue))
    /\ queue' = Tail(queue)
    /\ UNCHANGED <<player, matched, said, volume, at, changes>>

MediaPolled ==
    /\ at = "media" /\ queue = <<>>
    /\ at' = "volume"
    /\ UNCHANGED <<media, volume, changes>>

\* What a poll of wpctl leaves on the panel: the sink's state, the old one when
\* nothing could be run or read, or no mute when the line is not the expected one.
Readings == {sink, panel, [panel EXCEPT !.muted = FALSE]}

\* Mutant: the clock is set before it is compared, so that no poll is ever due.
PollVolume_ClockFirst ==
    /\ at = "volume"
    /\ at' = "gui"
    /\ due' = FALSE
    /\ UNCHANGED <<media, sink, panel, changes>>

\* The second is over, or the next one begins, whether or not the reading succeeds.
PollVolume ==
    /\ at = "volume"
    /\ at' = "gui"
    /\ panel' \in IF due THEN Readings ELSE {panel}
    /\ due' = FALSE
    /\ UNCHANGED <<media, sink, changes>>

CountChange == changes < MaxChanges /\ changes' = changes + 1

\* Mutant: only the upper end is looked at.
Clamp_Upper(v) == IF v > Top THEN Top ELSE v

Clamp(v) == IF v < 0 THEN 0 ELSE IF v > Top THEN Top ELSE v

\* wpctl may change the sink or fail; nobody looks at the outcome.
Command(new) == sink' \in {sink, new}

\* A value typed into the slider may lie outside of its range.
SetVolume ==
    /\ at = "gui" /\ CountChange
    /\ \E v \in -1 .. Top + 1 :
        /\ Command([sink EXCEPT !.level = Clamp(v)])
        /\ panel' = [panel EXCEPT !.level = Clamp(v)]
    /\ due' = TRUE
    /\ UNCHANGED <<media, at>>

ToggleMute ==
    /\ at = "gui" /\ CountChange
    /\ Command([sink EXCEPT !.muted = ~@])
    /\ panel' = [panel EXCEPT !.muted = ~@]
    /\ due' = TRUE
    /\ UNCHANGED <<media, at>>

\* What the player announces: the status when it changes, the whole track when
\* any of it changes.
Announced(new) ==
    LET same == new.title = player.title /\ new.artist = player.artist IN
    [status |-> IF new.status = player.status THEN None ELSE new.status,
     title  |-> IF same THEN None ELSE new.title,
     artist |-> IF same THEN None ELSE new.artist]

\* The player changes some fields and announces them in one signal.
PlayerChanges(new) ==
    /\ player.alive
    /\ player' = [player EXCEPT !.status = new.status, !.title = new.title,
                                !.artist = new.artist]
    /\ IF at = "start" THEN UNCHANGED <<queue, said>>
       ELSE /\ said' = Overlay(said, Announced(new))
            /\ queue' = IF matched THEN Append(queue, Announced(new)) ELSE queue

\* Play, Pause, Next and Previous: the call returns once the player has it.
SendCommand ==
    /\ at = "gui" /\ CountChange /\ playerKnown
    /\ \/ \E s \in Statuses \ {player.status} : PlayerChanges([Dict EXCEPT !.status = s])
       \/ \E t \in Texts \ {player.title}, a \in Texts \cup {None} :
            PlayerChanges([Dict EXCEPT !.title = t, !.artist = a])
    /\ UNCHANGED <<matched, playerKnown, info, volume, at>>

NextFrame ==
    /\ at = "gui"
    /\ at' \in {"media", "exit"}
    /\ UNCHANGED <<media, volume, changes>>

----------------------------------------------------------------------------
(* The world outside. *)

\* On the phone; it may start the next track and play it at once.
PhoneActs ==
    /\ CountChange
    /\ \E s \in Statuses, t \in Texts, a \in Texts \cup {None} :
        /\ [status |-> s, title |-> t, artist |-> a] /= Dict
        /\ PlayerChanges([status |-> s, title |-> t, artist |-> a])
    /\ UNCHANGED <<matched, playerKnown, info, volume, at>>

\* The player's object comes or goes; nobody listens for that.
PlayerComesOrGoes ==
    /\ CountChange
    /\ player' = [player EXCEPT !.alive = ~@]
    /\ UNCHANGED <<queue, matched, playerKnown, info, said, volume, at>>

SinkChanges ==
    /\ CountChange
    /\ \E v \in Volumes \ {sink} : sink' = v
    /\ UNCHANGED <<media, panel, due, at>>

SecondPasses ==
    /\ ~due /\ due' = TRUE
    /\ UNCHANGED <<media, sink, panel, at, changes>>

PanelNext ==
    \/ Match \/ DiscoverPlayer \/ ReadAllProperties
    \/ OnPropertiesChanged \/ MediaPolled \/ PollVolume
    \/ SetVolume \/ ToggleMute \/ SendCommand \/ NextFrame
    \/ PhoneActs \/ PlayerComesOrGoes \/ SinkChanges \/ SecondPasses

LoopStep ==
    \/ Match \/ DiscoverPlayer \/ ReadAllProperties
    \/ OnPropertiesChanged \/ MediaPolled \/ PollVolume \/ NextFrame

\* The loop runs until the user leaves it, time passes, and wpctl does not fail
\* for ever.
PanelFairness ==
    /\ WF_panelVars(LoopStep)
    /\ WF_panelVars(SecondPasses)
    /\ SF_panelVars(PollVolume /\ due /\ panel' = sink)

PanelSpec == PanelInit /\ [][PanelNext]_panelVars /\ PanelFairness

----------------------------------------------------------------------------
(* Properties. *)

\* Once the signals are handled the panel shows, in every field, what the player
\* last told about it: no change falls between discovering the player, reading it
\* and listening to it, and none is undone by a signal older than the reading.
PanelFollowsPlayer ==
    at \notin {"start", "discover", "getall"} /\ queue = <<>> => info = said

\* Whatever readings and commands of wpctl fail, whatever the panel guessed after
\* a click and whoever else turns the sink up, the panel comes back to the sink's
\* volume and mute again and again, unless the user leaves.
PanelComesRight == []<>(at = "exit" \/ panel = sink)

(* The inductive invariant behind PanelFollowsPlayer. *)

\* Nothing is queued or known before the signals are asked for; none is missed
\* after.
Listening ==
    /\ at = "start" => queue = <<>> /\ info = Blank /\ said = Blank
    /\ at # "start" => matched

\* A field no queued signal names is shown as the player last told it.
Shown(f) == (\A i \in 1 .. Len(queue) : queue[i][f] = None) => info[f] = said[f]

\* The last queued signal that names a field has what the player last told, which
\* is what the player has now unless it has dropped the field.
LastSignalHolds(f) ==
    \A i \in 1 .. Len(queue) :
        queue[i][f] # None /\ (\A j \in i + 1 .. Len(queue) : queue[j][f] = None)
            => queue[i][f] = said[f] /\ player[f] \in {said[f], None}

Following == Listening /\ \A f \in Fields : Shown(f) /\ LastSignalHolds(f)

PanelInv == PanelTypeOK /\ Len(queue) <= changes /\ Following
=============================================================================
