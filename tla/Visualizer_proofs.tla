-------------------------- MODULE Visualizer_proofs --------------------------
(***************************************************************************)
(* Proofs about Visualizer, for every library, every set of slider values  *)
(* and every bound: a favorite is lost in the two ways the module names    *)
(* only; and page, renderer, Favorites and favorites.json agree whenever   *)
(* both queues are empty and the latest save went well.                    *)
(*                                                                         *)
(* The second is not inductive: the invariant, View, says for each mirror  *)
(* what is still on its way to it. The latest event names the renderer's   *)
(* position, the latest lock command the page's lock, and so on.           *)
(***************************************************************************)
EXTENDS Visualizer, TLAPS, FiniteSetTheorems, WellFoundedInduction, SequenceTheorems

\* What is on disk is what is in memory, unless the latest save failed or the load
\* did; and for the preset that is watched also then, as long as its mark is neither
\* waiting to be saved nor lost.
FileFollows ==
    /\ ~unsaved => file.favs = favs /\ file.last = last
    /\ ~pending /\ mark # "lost" => (Watched \in file.favs <=> Watched \in favs)

IInv == FavoritesSurvive /\ FileFollows

\* A save leaves the file with what it was given, or leaves it alone and is marked as
\* failed, and as pending when it was to save the mark of the watched preset.
LEMMA SaveStores ==
    ASSUME NEW S, NEW p, NEW q, Save(S, p, q)
    PROVE  /\ ~unsaved' => file'.favs = S /\ file'.last = p
           /\ \/ file'.favs = S
              \/ file' = file /\ (pending \/ q = Watched => pending')
<1>1. CASE file' = [favs |-> S, last |-> p] /\ unsaved' = FALSE
    <2>1. file'.favs = S /\ file'.last = p
        BY <1>1
    <2>2. QED
        BY <2>1
<1>2. CASE UNCHANGED file /\ unsaved' = TRUE /\ pending' = (pending \/ q = Watched)
    BY <1>2, Zenon
<1>3. QED
    BY <1>1, <1>2 DEF Save

\* Remembering the last preset writes the favorites as they are.
LEMMA SetLastPresetKeeps ==
    ASSUME IInv, UNCHANGED mark, NEW p, SetLastPreset(p)
    PROVE  UNCHANGED favs /\ FileFollows'
<1>1. CASE p = last
    BY <1>1 DEF SetLastPreset, store, IInv, FileFollows
<1>2. CASE p # last
    <2>1. UNCHANGED favs /\ last' = p /\ Save(favs, p, No)
        BY <1>2 DEF SetLastPreset
    <2>2. QED
        BY <2>1, SaveStores DEF IInv, FileFollows
<1>3. QED
    BY <1>1, <1>2

\* Marking one preset leaves the others, and their marks, as they are.
LEMMA ToggleKeepsIInv ==
    ASSUME IInv, ToggleFavorite
    PROVE  IInv'
<1>1. /\ favs' = IF current \in favs THEN favs \ {current} ELSE favs \cup {current}
      /\ mark' = IF current # Watched THEN mark
                 ELSE IF current \in favs THEN "unmarked" ELSE "marked"
      /\ last' = last /\ Save(favs', last, current)
    BY DEF ToggleFavorite
<1>2. /\ ~unsaved' => file'.favs = favs' /\ file'.last = last'
      /\ \/ file'.favs = favs'
         \/ file' = file /\ (pending \/ current = Watched => pending')
    BY <1>1, SaveStores
<1>3. CASE current = Watched
    <2>1. FavoritesSurvive'
        BY <1>1, <1>3 DEF FavoritesSurvive
    <2>2. FileFollows'
        BY <1>2, <1>3 DEF FileFollows
    <2>3. QED
        BY <2>1, <2>2 DEF IInv
<1>4. CASE current # Watched
    <2>1. mark' = mark /\ (Watched \in favs' <=> Watched \in favs)
        BY <1>1, <1>4
    <2>2. FavoritesSurvive'
        BY <2>1 DEF IInv, FavoritesSurvive
    <2>3. FileFollows'
        BY <1>2, <2>1 DEF IInv, FileFollows
    <2>4. QED
        BY <2>2, <2>3 DEF IInv
<1>5. QED
    BY <1>3, <1>4

\* The steps on the GUI thread that reach the favorites, and the restart.
LEMMA StoreStepsKeepIInv ==
    ASSUME IInv, ToggleFavorite \/ PersistState \/ FromRenderer \/ Restart
    PROVE  IInv'
<1> USE DEF IInv, FavoritesSurvive
<1>1. CASE ToggleFavorite
    BY <1>1, ToggleKeepsIInv
<1>2. CASE PersistState
    BY <1>2, SetLastPresetKeeps DEF PersistState, history
<1>3. CASE FromRenderer
    <2>1. UNCHANGED mark
        BY <1>3 DEF FromRenderer, history
    <2>2. \/ UNCHANGED store
          \/ SetLastPreset(Head(events).preset)
        BY <1>3 DEF FromRenderer
    <2>3. QED
        BY <2>1, <2>2, SetLastPresetKeeps DEF store, FileFollows
<1>4. CASE Restart
    BY <1>4 DEF Restart, Load, FileFollows
<1>5. QED
    BY <1>1, <1>2, <1>3, <1>4

\* The others, on either thread, leave favorites and file alone.
LEMMA OtherStepsKeepIInv ==
    ASSUME IInv, UNCHANGED <<store, mark>>
    PROVE  IInv'
BY DEF IInv, FavoritesSurvive, FileFollows, store

\* The commands only wait to be sent.
LEMMA CommandsKeepStore ==
    ASSUME \/ PlayNext \/ PlayPrev
           \/ \E on \in BOOLEAN : SetLocked(on) \/ Shuffle(on) \/ SetFavoritesMode(on)
           \/ \E v \in Levels : SetLevel(v)
    PROVE  UNCHANGED <<store, mark>>
<1>1. ASSUME NEW c, Send(c) PROVE UNCHANGED <<store, mark>>
    BY <1>1 DEF Send
<1>2. QED
    BY <1>1 DEF PlayNext, PlayPrev, SetLocked, Shuffle, SetFavoritesMode, SetLevel

\* The renderer reads the store and never writes it.
LEMMA RendererKeepsStore ==
    ASSUME FirstPaint \/ RunNext \/ RunPrev \/ RunSetting \/ RunFavoritesMode \/ AutoSwitch
    PROVE  UNCHANGED <<store, mark>>
<1>1. ASSUME NEW c, Run(c) PROVE UNCHANGED <<store, mark>>
    BY <1>1 DEF Run, history
<1>2. CASE RunNext \/ RunPrev \/ RunSetting \/ RunFavoritesMode
    BY <1>1, <1>2 DEF RunNext, RunPrev, RunSetting, RunFavoritesMode
<1>3. CASE FirstPaint \/ AutoSwitch
    BY <1>3 DEF FirstPaint, AutoSwitch, history
<1>4. QED
    BY <1>2, <1>3

LEMMA StoreInvariant == Spec => []IInv
<1>1. Init => IInv
    BY DEF Init, IInv, FavoritesSurvive, FileFollows, NoFile
<1>2. IInv /\ [Next]_vars => IInv'
    <2> SUFFICES ASSUME IInv, [Next]_vars PROVE IInv'
        OBVIOUS
    <2>1. CASE UNCHANGED vars
        BY <2>1, OtherStepsKeepIInv DEF vars, history
    <2>2. CASE ToggleFavorite \/ PersistState \/ FromRenderer \/ Restart
        BY <2>2, StoreStepsKeepIInv
    <2>3. CASE \/ PlayNext \/ PlayPrev
               \/ \E on \in BOOLEAN : SetLocked(on) \/ Shuffle(on) \/ SetFavoritesMode(on)
               \/ \E v \in Levels : SetLevel(v)
        BY <2>3, CommandsKeepStore, OtherStepsKeepIInv
    <2>4. CASE FirstPaint \/ RunNext \/ RunPrev \/ RunSetting \/ RunFavoritesMode \/ AutoSwitch
        BY <2>4, RendererKeepsStore, OtherStepsKeepIInv
    <2>5. QED
        BY <2>1, <2>2, <2>3, <2>4 DEF Next
<1>3. QED
    BY <1>1, <1>2, PTL DEF Spec

\* What the user last made of a preset, any one of the library, is what the program
\* has, over every restart and any number of failed saves, except where the program
\* ended with the mark unsaved or a load failed.
THEOREM NoFavoriteIsLost == Spec => []FavoritesSurvive
<1>1. IInv => FavoritesSurvive
    BY DEF IInv
<1>2. QED
    BY <1>1, StoreInvariant, PTL

-----------------------------------------------------------------------------
\* A set of presets is finite and no larger than the library.
LEMMA PresetSets ==
    ASSUME NEW S, S \subseteq Presets
    PROVE  IsFiniteSet(S) /\ Cardinality(S) \in 0 .. NPresets
<1>1. NPresets \in Nat \ {0}
    BY ConstantsAssumption
<1>2. IsFiniteSet(Presets) /\ Cardinality(Presets) = NPresets
    BY <1>1, FS_Interval DEF Presets
<1>3. IsFiniteSet(S) /\ Cardinality(S) <= NPresets
    BY <1>2, FS_Subset
<1>4. Cardinality(S) \in Nat
    BY <1>3, FS_CardinalityType
<1>5. QED
    BY <1>1, <1>3, <1>4

\* The index of a preset is a position in the library, or 0.
LEMMA IndexInRange ==
    ASSUME NEW S, S \subseteq Presets, NEW p
    PROVE  Index(S, p) \in 0 .. NPresets
<1>1. {q \in S : q <= p} \subseteq Presets
    OBVIOUS
<1>2. QED
    BY <1>1, PresetSets DEF Index

\* A set of numbers has a smallest element, a set of presets also a largest.
LEMMA SmallestExists ==
    ASSUME NEW S, S \subseteq Nat, S # {}
    PROVE  \E m \in S : \A r \in S : m <= r
<1>1. PICK m \in S : \A r \in S : ~ (<<r, m>> \in OpToRel(<, Nat))
    BY NatLessThanWellFounded, WFMin, Zenon
<1>2. ASSUME NEW r \in S PROVE m <= r
    <2>1. r \in Nat /\ m \in Nat
        OBVIOUS
    <2>2. r < m => <<r, m>> \in OpToRel(<, Nat)
        BY <2>1 DEF OpToRel
    <2>3. ~ (<<r, m>> \in OpToRel(<, Nat))
        BY <1>1
    <2>4. ~ (r < m)
        BY <2>2, <2>3
    <2>5. QED
        BY <2>1, <2>4
<1>3. QED
    BY <1>2

LEMMA LargestExists ==
    ASSUME NEW S, S \subseteq Presets, S # {}
    PROVE  \E m \in S : \A r \in S : r <= m
<1> DEFINE T == {NPresets - q : q \in S}
<1>1. NPresets \in Nat /\ \A q \in S : q \in 1 .. NPresets
    BY ConstantsAssumption DEF Presets
<1>2. T \subseteq Nat /\ T # {}
    BY <1>1
<1>3. PICK t \in T : \A u \in T : t <= u
    BY <1>2, SmallestExists
<1>4. PICK m \in S : t = NPresets - m
    BY <1>3
<1>5. ASSUME NEW r \in S PROVE r <= m
    <2>1. NPresets - r \in T
        OBVIOUS
    <2>2. NPresets - m <= NPresets - r
        BY <1>3, <1>4, <2>1
    <2>3. QED
        BY <1>1, <2>2
<1>6. QED
    BY <1>5

\* Of two smallest elements each is at most the other.
LEMMA SmallestChosen ==
    ASSUME NEW S, S \subseteq Nat, NEW m \in S, \A r \in S : m <= r
    PROVE  (CHOOSE q \in S : \A r \in S : q <= r) = m
<1> DEFINE Smallest(q) == q \in S /\ \A r \in S : q <= r
<1>1. ASSUME NEW q, Smallest(q) PROVE q = m
    BY <1>1
<1>2. Smallest(m)
    OBVIOUS
<1> DEFINE c == CHOOSE q : Smallest(q)
<1>3. Smallest(c)
    BY <1>2
<1>4. c = CHOOSE q \in S : \A r \in S : q <= r
    OBVIOUS
<1>5. QED
    BY <1>1, <1>3, <1>4

\* The presets of a playlist behind p.
Behind(list, p) == {q \in list : q > p}

LEMMA AfterChosen ==
    ASSUME NEW list, list \subseteq Presets, NEW p
    PROVE  /\ Behind(list, p) # {} =>
                After(list, p) = CHOOSE q \in Behind(list, p) : \A r \in Behind(list, p) : q <= r
           /\ Behind(list, p) = {} => After(list, p) = CHOOSE q \in list : \A r \in list : q <= r
<1>1. CASE Behind(list, p) # {}
    <2>1. After(list, p) = CHOOSE q \in list : q > p /\ \A r \in list : r > p => q <= r
        BY <1>1 DEF After, Behind
    <2>2. \A q : (q \in list /\ q > p /\ \A r \in list : r > p => q <= r)
                 <=> (q \in Behind(list, p) /\ \A r \in Behind(list, p) : q <= r)
        BY DEF Behind
    <2>3. QED
        BY <1>1, <2>1, <2>2
<1>2. CASE Behind(list, p) = {}
    BY <1>2 DEF After, Behind
<1>3. QED
    BY <1>1, <1>2

\* Going on from p, or round the end, finds a preset of the playlist.
LEMMA AfterInList ==
    ASSUME NEW list, list \subseteq Presets, list # {}, NEW p
    PROVE  After(list, p) \in list
<1>1. list \subseteq Nat
    BY ConstantsAssumption DEF Presets
<1>2. CASE Behind(list, p) # {}
    <2> DEFINE S == Behind(list, p)
    <2>1. S \subseteq Nat /\ S # {} /\ S \subseteq list
        BY <1>1, <1>2 DEF Behind
    <2>2. PICK m \in S : \A r \in S : m <= r
        BY <2>1, SmallestExists
    <2>3. After(list, p) = m
        BY <1>2, <2>1, <2>2, AfterChosen, SmallestChosen
    <2>4. QED
        BY <2>1, <2>2, <2>3
<1>3. CASE Behind(list, p) = {}
    <2>1. PICK m \in list : \A r \in list : m <= r
        BY <1>1, SmallestExists
    <2>2. After(list, p) = m
        BY <1>1, <1>3, <2>1, AfterChosen, SmallestChosen
    <2>3. QED
        BY <2>2
<1>4. QED
    BY <1>2, <1>3

\* Every preset of a playlist comes after one of them, so going back works too.
LEMMA BeforeInList ==
    ASSUME NEW list, list \subseteq Presets, NEW p \in list
    PROVE  Before(list, p) \in list
<1>1. list \subseteq Nat /\ p \in Nat
    BY ConstantsAssumption DEF Presets
<1>2. SUFFICES \E q \in list : After(list, q) = p
    BY DEF Before
<1> DEFINE S == {q \in list : q < p}
<1>3. CASE S # {}
    <2>1. PICK m \in S : \A r \in S : r <= m
        BY <1>3, LargestExists
    <2>2. p \in Behind(list, m) /\ Behind(list, m) \subseteq Nat
        BY <1>1, <2>1 DEF Behind
    <2>3. ASSUME NEW r \in Behind(list, m) PROVE p <= r
        <3>1. r \in list /\ r \in Nat /\ m \in Nat /\ r > m
            BY <1>1, <2>1 DEF Behind
        <3>2. r < p => r \in S
            BY <3>1
        <3>3. QED
            BY <1>1, <2>1, <3>1, <3>2
    <2>4. After(list, m) = p
        BY <2>2, <2>3, AfterChosen, SmallestChosen
    <2>5. QED
        BY <2>1, <2>4
<1>4. CASE S = {}
    <2>1. PICK m \in list : \A r \in list : r <= m
        BY LargestExists
    <2>2. Behind(list, m) = {}
        <3>1. ASSUME NEW r \in list PROVE ~ (r > m)
            <4>1. r \in Nat /\ m \in Nat /\ r <= m
                BY <1>1, <2>1
            <4>2. QED
                BY <4>1
        <3>2. QED
            BY <3>1 DEF Behind
    <2>3. \A r \in list : p <= r
        BY <1>1, <1>4
    <2>4. After(list, m) = p
        BY <1>1, <2>2, <2>3, AfterChosen, SmallestChosen
    <2>5. QED
        BY <2>4
<1>5. QED
    BY <1>3, <1>4

\* The parts of the type invariant, by who owns them.
PageOK ==
    /\ mode \in BOOLEAN /\ locked \in BOOLEAN /\ level \in Levels
    /\ shuffled \in BOOLEAN /\ current \in Presets \cup {No}
    /\ nav \in [size : 0 .. NPresets, index : 0 .. NPresets]
    /\ payload \subseteq Presets /\ early \in BOOLEAN
CmdsOK == cmds \in Seq(Cmd) /\ Len(cmds) <= MaxCmds
EventsOK == events \in Seq(Event) /\ Len(events) <= MaxEvents
StoreOK ==
    /\ favs \subseteq Presets /\ last \in Presets \cup {No} /\ unsaved \in BOOLEAN
    /\ file \in [favs : SUBSET Presets, last : Presets \cup {No}]
    /\ pending \in BOOLEAN /\ mark \in {"marked", "unmarked", "lost"}
RendererOK ==
    /\ syncing \in BOOLEAN
    /\ playlist \in (SUBSET Presets) \cup {NoPlaylist}
    /\ playing \in Presets \cup {No}
    /\ pm \in [locked : BOOLEAN, level : Levels, shuffle : BOOLEAN]

LEMMA TypeParts ==
    /\ TypeOK <=> PageOK /\ CmdsOK /\ EventsOK /\ StoreOK /\ RendererOK
    /\ TypeOK' <=> PageOK' /\ CmdsOK' /\ EventsOK' /\ StoreOK' /\ RendererOK'
BY DEF TypeOK, PageOK, CmdsOK, EventsOK, StoreOK, RendererOK

Loaded == playlist # NoPlaylist
Waiting(c) == \E i \in DOMAIN cmds : cmds[i] = c

\* Commands are only run with a playlist, what is played is in it, and the set
\* sent along with the favorites mode is not empty while the command waits.
PlaylistOK ==
    /\ syncing => Loaded
    /\ Loaded => playing \in playlist
    /\ mode /\ Waiting("SetFavoritesMode") => payload # {}

\* The preset on screen is the one a restart comes back to.
LastFollows == current # No => last = current

\* The page shows the renderer's position, or the latest event on its way says it.
Position == [size |-> Cardinality(playlist), index |-> Index(playlist, playing)]
Says(e) == e.size = Position.size /\ e.index = Position.index
Names(p) ==
    \/ events[Len(events)].preset = p
    \/ /\ events[Len(events)].preset = No
       /\ IF Len(events) = 1 THEN current = p ELSE events[Len(events) - 1].preset = p
Reported ==
    Loaded => \/ events = <<>> /\ current = playing /\ nav = Position
              \/ events # <<>> /\ Says(events[Len(events)]) /\ Names(playing)

\* projectM has been told the sliders and the lock, or a command on its way will.
LevelSent == Loaded => pm.level = level \/ Waiting("SetLevel")

LockCmd(on) == IF on THEN "LockOn" ELSE "LockOff"
IsLock(c) == c \in {"LockOn", "LockOff"}
NoLockWaits == \A i \in DOMAIN cmds : ~IsLock(cmds[i])
LockWaits(on) ==
    \E i \in DOMAIN cmds : /\ cmds[i] = LockCmd(on)
                           /\ \A j \in DOMAIN cmds : j > i => ~IsLock(cmds[j])
LockSent ==
    ~early => IF Loaded THEN (NoLockWaits /\ pm.locked = locked) \/ LockWaits(locked)
              ELSE ~locked

ModeSent ==
    ~early => IF Loaded THEN mode \/ playlist = Presets \/ Waiting("SetFavoritesMode")
              ELSE ~mode

View == TypeOK /\ PlaylistOK /\ LastFollows /\ Reported /\ LevelSent /\ LockSent /\ ModeSent

LEMMA InitView == Init => View
<1> SUFFICES ASSUME Init PROVE View
    OBVIOUS
<1>1. NPresets \in Nat /\ MaxCmds \in Nat /\ MaxEvents \in Nat /\ DefaultLevel \in Levels
    BY ConstantsAssumption
<1>2. cmds = <<>> /\ cmds \in Seq(Cmd) /\ Len(cmds) = 0 /\ events \in Seq(Event) /\ Len(events) = 0
    BY EmptySeq DEF Init
<1>3. ~Loaded /\ current = No /\ ~mode /\ ~locked /\ ~syncing
    BY DEF Init, Loaded
<1>4. TypeOK
    <2>1. CmdsOK /\ EventsOK
        BY <1>1, <1>2 DEF CmdsOK, EventsOK
    <2>2. PageOK
        <3>1. 0 \in 0 .. NPresets
            BY <1>1
        <3>2. nav \in [size : 0 .. NPresets, index : 0 .. NPresets]
            BY <3>1 DEF Init
        <3>3. QED
            BY <1>1, <3>2 DEF Init, PageOK
    <2>3. StoreOK
        BY DEF Init, StoreOK, NoFile
    <2>4. RendererOK
        BY <1>1 DEF Init, RendererOK
    <2>5. QED
        BY <2>1, <2>2, <2>3, <2>4, TypeParts
<1>5. PlaylistOK /\ LastFollows /\ Reported /\ LevelSent /\ LockSent /\ ModeSent
    BY <1>3 DEF PlaylistOK, LastFollows, Reported, LevelSent, LockSent, ModeSent
<1>6. QED
    BY <1>4, <1>5 DEF View

\* What a command at the end of the queue changes.
LEMMA CommandSent ==
    ASSUME CmdsOK, Len(cmds) < MaxCmds, NEW c \in Cmd, cmds' = Append(cmds, c)
    PROVE  /\ CmdsOK'
           /\ \A d : Waiting(d)' <=> Waiting(d) \/ c = d
           /\ ~IsLock(c) => /\ NoLockWaits => NoLockWaits'
                            /\ \A on \in BOOLEAN : LockWaits(on) => LockWaits(on)'
           /\ \A on \in BOOLEAN : c = LockCmd(on) => LockWaits(on)'
<1> DEFINE n == Len(cmds)
<1>1. MaxCmds \in Nat
    BY ConstantsAssumption
<1>2. n \in Nat /\ DOMAIN cmds = 1 .. n
    BY LenProperties DEF CmdsOK
<1>3. /\ cmds' \in Seq(Cmd) /\ Len(cmds') = n + 1
      /\ \A i \in 1 .. n : cmds'[i] = cmds[i]
      /\ cmds'[n + 1] = c
    BY AppendProperties DEF CmdsOK
<1>4. DOMAIN cmds' = 1 .. n + 1
    BY <1>3, LenProperties
<1>5. CmdsOK'
    BY <1>1, <1>2, <1>3 DEF CmdsOK
<1> HIDE DEF n
<1>6. \A i \in 1 .. n + 1 : i \in 1 .. n \/ i = n + 1
    BY <1>2
<1>7. n + 1 \in 1 .. n + 1 /\ \A i \in 1 .. n : i \in 1 .. n + 1
    BY <1>2
<1>8. ASSUME NEW d PROVE Waiting(d)' <=> Waiting(d) \/ c = d
    BY <1>2, <1>3, <1>4, <1>6, <1>7 DEF Waiting
<1>9. ASSUME ~IsLock(c), NoLockWaits PROVE NoLockWaits'
    BY <1>2, <1>3, <1>4, <1>6, <1>9 DEF NoLockWaits
<1>10. ASSUME ~IsLock(c), NEW on \in BOOLEAN, LockWaits(on) PROVE LockWaits(on)'
    <2>1. PICK i \in 1 .. n : cmds[i] = LockCmd(on) /\ \A j \in 1 .. n : j > i => ~IsLock(cmds[j])
        BY <1>2, <1>10 DEF LockWaits
    <2>2. i \in 1 .. n + 1 /\ cmds'[i] = LockCmd(on)
        BY <1>3, <1>7, <2>1
    <2>3. \A j \in 1 .. n + 1 : j > i => ~IsLock(cmds'[j])
        BY <1>3, <1>6, <1>10, <2>1
    <2>4. QED
        BY <1>4, <2>2, <2>3 DEF LockWaits
<1>11. ASSUME NEW on \in BOOLEAN, c = LockCmd(on) PROVE LockWaits(on)'
    <2>1. \A j \in 1 .. n + 1 : ~ (j > n + 1)
        BY <1>2
    <2>2. QED
        BY <1>3, <1>4, <1>7, <1>11, <2>1 DEF LockWaits
<1>12. QED
    BY <1>5, <1>8, <1>9, <1>10, <1>11

\* What taking the command at the head changes.
LEMMA CommandTaken ==
    ASSUME CmdsOK, cmds # <<>>, cmds' = Tail(cmds)
    PROVE  /\ CmdsOK'
           /\ \A d : Waiting(d)' => Waiting(d)
           /\ \A d : Waiting(d) => Waiting(d)' \/ d = Head(cmds)
           /\ Waiting(Head(cmds))
           /\ NoLockWaits => NoLockWaits' /\ ~IsLock(Head(cmds))
           /\ \A on \in BOOLEAN :
                 LockWaits(on) => LockWaits(on)' \/ (NoLockWaits' /\ Head(cmds) = LockCmd(on))
<1> DEFINE n == Len(cmds)
           h == Head(cmds)
<1>1. MaxCmds \in Nat
    BY ConstantsAssumption
<1>2. n \in Nat \ {0} /\ DOMAIN cmds = 1 .. n /\ h = cmds[1]
    BY LenProperties, EmptySeq DEF CmdsOK
<1>3. /\ cmds' \in Seq(Cmd) /\ Len(cmds') = n - 1
      /\ \A i \in 1 .. n - 1 : cmds'[i] = cmds[i + 1]
    BY HeadTailProperties DEF CmdsOK
<1>4. DOMAIN cmds' = 1 .. n - 1
    BY <1>3, LenProperties
<1>5. CmdsOK'
    BY <1>1, <1>2, <1>3 DEF CmdsOK
<1> HIDE DEF n, h
<1>6. \A i \in 1 .. n : i = 1 \/ (i - 1 \in 1 .. n - 1 /\ cmds'[i - 1] = cmds[i])
    BY <1>2, <1>3
<1>7. \A i \in 1 .. n - 1 : i + 1 \in 1 .. n
    BY <1>2
<1>8. ASSUME NEW d, Waiting(d)' PROVE Waiting(d)
    BY <1>2, <1>3, <1>4, <1>7, <1>8 DEF Waiting
<1>9. ASSUME NEW d, Waiting(d) PROVE Waiting(d)' \/ d = h
    BY <1>2, <1>4, <1>6, <1>9 DEF Waiting
<1>10. Waiting(h)
    <2>1. 1 \in 1 .. n
        BY <1>2
    <2>2. QED
        BY <1>2, <2>1 DEF Waiting
<1>11. ASSUME NoLockWaits PROVE NoLockWaits' /\ ~IsLock(h)
    <2>1. 1 \in 1 .. n
        BY <1>2
    <2>2. QED
        BY <1>2, <1>3, <1>4, <1>7, <1>11, <2>1 DEF NoLockWaits
<1>12. ASSUME NEW on \in BOOLEAN, LockWaits(on)
       PROVE  LockWaits(on)' \/ (NoLockWaits' /\ h = LockCmd(on))
    <2>1. PICK i \in 1 .. n : cmds[i] = LockCmd(on) /\ \A j \in 1 .. n : j > i => ~IsLock(cmds[j])
        BY <1>2, <1>12 DEF LockWaits
    <2>2. CASE i = 1
        <3>1. \A j \in 1 .. n - 1 : j + 1 > 1
            BY <1>2
        <3>2. \A j \in 1 .. n - 1 : ~IsLock(cmds[j + 1])
            BY <1>7, <2>1, <2>2, <3>1
        <3>3. NoLockWaits'
            BY <1>3, <1>4, <3>2 DEF NoLockWaits
        <3>4. QED
            BY <1>2, <2>1, <2>2, <3>3
    <2>3. CASE i # 1
        <3>1. i - 1 \in 1 .. n - 1 /\ cmds'[i - 1] = LockCmd(on)
            BY <1>6, <2>1, <2>3
        <3>2. \A j \in 1 .. n - 1 : j > i - 1 => j + 1 > i
            BY <1>2
        <3>3. \A j \in 1 .. n - 1 : j > i - 1 => ~IsLock(cmds'[j])
            BY <1>3, <1>7, <2>1, <3>2
        <3>4. QED
            BY <1>4, <3>1, <3>3 DEF LockWaits
    <2>4. QED
        BY <2>2, <2>3
<1>13. QED
    BY <1>5, <1>8, <1>9, <1>10, <1>11, <1>12 DEF h

\* A report of a preset of a playlist is an event, and says the position.
LEMMA ReportIsEvent ==
    ASSUME NEW list, list \subseteq Presets, NEW p \in Presets \cup {No}, NEW s \in BOOLEAN
    PROVE  /\ Report(list, p, s) \in Event
           /\ Report(list, p, s).preset = p
           /\ Report(list, p, s).size = Cardinality(list)
           /\ Report(list, p, s).index = Index(list, p)
<1>1. Cardinality(list) \in 0 .. NPresets /\ Index(list, p) \in 0 .. NPresets
    BY PresetSets, IndexInRange
<1>2. QED
    BY <1>1 DEF Report, Event

LEMMA NoIsNoPreset == No \notin Presets
BY ConstantsAssumption DEF No, Presets

\* With a playlist, it is a set of presets and what is played one of them.
LEMMA LoadedFacts ==
    ASSUME View, Loaded
    PROVE  playlist \subseteq Presets /\ playing \in playlist /\ playing \in Presets /\ playing # No
BY NoIsNoPreset DEF View, TypeOK, Loaded, PlaylistOK

\* The commands the page sends.
LEMMA SendKeepsView ==
    ASSUME View,
           \/ PlayNext \/ PlayPrev
           \/ \E on \in BOOLEAN : SetLocked(on) \/ Shuffle(on) \/ SetFavoritesMode(on)
           \/ \E v \in Levels : SetLevel(v)
    PROVE  View'
<1> DEFINE Framed == UNCHANGED <<nav, current, events, store, renderer, mark>>
           Sent(c) == /\ Len(cmds) < MaxCmds /\ cmds' = Append(cmds, c)
                      /\ early' = (early \/ playlist = NoPlaylist) /\ Framed
\* Which command goes with which change of the page.
<1>1. \E c \in Cmd :
        /\ Sent(c)
        /\ mode' \in BOOLEAN /\ locked' \in BOOLEAN /\ level' \in Levels
        /\ shuffled' \in BOOLEAN /\ payload' \subseteq Presets
        /\ \/ ~IsLock(c) /\ UNCHANGED locked
           \/ \E on \in BOOLEAN : c = LockCmd(on) /\ locked' = on
        /\ c = "SetLevel" \/ UNCHANGED level
        /\ \/ c # "SetFavoritesMode" /\ UNCHANGED <<mode, payload>>
           \/ c = "SetFavoritesMode" /\ (mode' => payload' # {})
    <2> USE DEF View, TypeOK, Send, Framed, gui, IsLock, LockCmd, Cmd
    <2>1. CASE PlayNext
        BY <2>1 DEF PlayNext
    <2>2. CASE PlayPrev
        BY <2>2 DEF PlayPrev
    <2>3. CASE \E on \in BOOLEAN : SetLocked(on)
        BY <2>3 DEF SetLocked
    <2>4. CASE \E on \in BOOLEAN : Shuffle(on)
        BY <2>4 DEF Shuffle
    <2>5. CASE \E on \in BOOLEAN : SetFavoritesMode(on)
        BY <2>5 DEF SetFavoritesMode
    <2>6. CASE \E v \in Levels : SetLevel(v)
        BY <2>6 DEF SetLevel
    <2>7. QED
        BY <2>1, <2>2, <2>3, <2>4, <2>5, <2>6
<1>2. PICK c \in Cmd :
        /\ Sent(c)
        /\ mode' \in BOOLEAN /\ locked' \in BOOLEAN /\ level' \in Levels
        /\ shuffled' \in BOOLEAN /\ payload' \subseteq Presets
        /\ \/ ~IsLock(c) /\ UNCHANGED locked
           \/ \E on \in BOOLEAN : c = LockCmd(on) /\ locked' = on
        /\ c = "SetLevel" \/ UNCHANGED level
        /\ \/ c # "SetFavoritesMode" /\ UNCHANGED <<mode, payload>>
           \/ c = "SetFavoritesMode" /\ (mode' => payload' # {})
    BY <1>1
<1>3. /\ CmdsOK'
      /\ \A d : Waiting(d)' <=> Waiting(d) \/ c = d
      /\ ~IsLock(c) => /\ NoLockWaits => NoLockWaits'
                       /\ \A on \in BOOLEAN : LockWaits(on) => LockWaits(on)'
      /\ \A on \in BOOLEAN : c = LockCmd(on) => LockWaits(on)'
    BY <1>2, CommandSent, TypeParts DEF View
<1>4. /\ UNCHANGED <<nav, current, events, favs, last, file, unsaved, pending, mark>>
      /\ UNCHANGED <<syncing, playlist, playing, pm>> /\ Loaded' = Loaded
    BY <1>2 DEF Framed, store, renderer, Loaded
<1>5. TypeOK'
    <2>1. PageOK'
        BY <1>2, <1>4 DEF View, TypeOK, PageOK
    <2>2. EventsOK' /\ StoreOK' /\ RendererOK'
        BY <1>4 DEF View, TypeOK, EventsOK, StoreOK, RendererOK
    <2>3. QED
        BY <1>3, <2>1, <2>2, TypeParts
<1>6. PlaylistOK'
    <2>1. ASSUME mode', Waiting("SetFavoritesMode")' PROVE payload' # {}
        <3>1. CASE c = "SetFavoritesMode"
            BY <1>2, <2>1, <3>1
        <3>2. CASE c # "SetFavoritesMode"
            BY <1>2, <1>3, <2>1, <3>2 DEF View, PlaylistOK
        <3>3. QED
            BY <3>1, <3>2
    <2>2. QED
        BY <1>4, <2>1 DEF View, PlaylistOK
<1>7. LastFollows' /\ Reported'
    BY <1>4 DEF View, LastFollows, Reported, Says, Names, Position, Loaded
<1>8. LevelSent'
    BY <1>2, <1>3, <1>4 DEF View, LevelSent
<1>9. ModeSent'
    <2>1. SUFFICES ASSUME ~early' PROVE Loaded /\ (mode' \/ playlist = Presets \/ Waiting("SetFavoritesMode")')
        BY <1>4 DEF ModeSent
    <2>2. Loaded /\ (mode \/ playlist = Presets \/ Waiting("SetFavoritesMode"))
        BY <1>2, <2>1 DEF View, ModeSent, Loaded
    <2>3. CASE c = "SetFavoritesMode"
        BY <1>3, <2>2, <2>3
    <2>4. CASE c # "SetFavoritesMode"
        BY <1>2, <1>3, <2>2, <2>4
    <2>5. QED
        BY <2>3, <2>4
<1>10. LockSent'
    <2>1. SUFFICES ASSUME ~early' PROVE ((NoLockWaits /\ pm.locked = locked) \/ LockWaits(locked))' /\ Loaded
        BY <1>4 DEF LockSent
    <2>2. ~early /\ Loaded
        BY <1>2, <2>1 DEF Loaded
    <2>3. (NoLockWaits /\ pm.locked = locked) \/ LockWaits(locked)
        BY <2>2 DEF View, LockSent
    <2>4. CASE ~IsLock(c) /\ UNCHANGED locked
        <3>1. locked \in BOOLEAN
            BY DEF View, TypeOK
        <3>2. LockWaits(locked)' <=> \E on \in BOOLEAN : on = locked' /\ LockWaits(on)'
            BY <1>2 DEF LockWaits
        <3>3. QED
            BY <1>3, <1>4, <2>2, <2>3, <2>4, <3>1, <3>2
    <2>5. CASE \E on \in BOOLEAN : c = LockCmd(on) /\ locked' = on
        <3>1. LockWaits(locked)' <=> \E on \in BOOLEAN : on = locked' /\ LockWaits(on)'
            BY <1>2 DEF LockWaits
        <3>2. QED
            BY <1>3, <2>2, <2>5, <3>1
    <2>6. QED
        BY <1>2, <2>4, <2>5
<1>11. QED
    BY <1>5, <1>6, <1>7, <1>8, <1>9, <1>10 DEF View

LEMMA SaveTyped ==
    ASSUME NEW S, S \subseteq Presets, NEW p \in Presets \cup {No}, NEW q, Save(S, p, q),
           StoreOK
    PROVE  /\ file' \in [favs : SUBSET Presets, last : Presets \cup {No}]
           /\ unsaved' \in BOOLEAN /\ pending' \in BOOLEAN
<1>1. CASE file' = [favs |-> S, last |-> p] /\ unsaved' = FALSE /\ pending' = FALSE
    BY <1>1
<1>2. CASE unsaved' = TRUE /\ pending' = (pending \/ q = Watched) /\ UNCHANGED file
    BY <1>2 DEF StoreOK
<1>3. QED
    BY <1>1, <1>2 DEF Save

\* Remembering a preset makes it the last one.
LEMMA LastPresetSet ==
    ASSUME StoreOK, UNCHANGED mark, NEW p \in Presets \cup {No}, SetLastPreset(p)
    PROVE  StoreOK' /\ last' = p
<1>1. CASE p = last
    BY <1>1 DEF SetLastPreset, store, StoreOK
<1>2. CASE p # last
    <2>1. last' = p /\ favs' = favs /\ Save(favs, p, No) /\ favs \subseteq Presets
        BY <1>2 DEF SetLastPreset, StoreOK
    <2>2. QED
        BY <2>1, SaveTyped DEF StoreOK
<1>3. QED
    BY <1>1, <1>2

\* A step that leaves the page, both queues and the renderer alone.
LEMMA StoreStepKeepsView ==
    ASSUME View, UNCHANGED <<gui, cmds, payload, events, renderer, early>>,
           StoreOK', LastFollows'
    PROVE  View'
<1>1. TypeOK'
    <2>1. UNCHANGED <<mode, locked, level, shuffled, nav, current, payload, early>>
        BY DEF gui
    <2>2. PageOK' /\ CmdsOK' /\ EventsOK'
        BY <2>1 DEF View, TypeOK, PageOK, CmdsOK, EventsOK
    <2>3. RendererOK'
        BY DEF View, TypeOK, renderer, RendererOK
    <2>4. QED
        BY <2>2, <2>3, TypeParts
<1>2. PlaylistOK' /\ Reported' /\ LevelSent'
    BY DEF View, PlaylistOK, Reported, LevelSent, Loaded, Waiting, Says, Names, Position, gui, renderer
<1>3. LockSent' /\ ModeSent'
    BY DEF View, LockSent, ModeSent, Loaded, Waiting, NoLockWaits, LockWaits, gui, renderer
<1>4. QED
    BY <1>1, <1>2, <1>3 DEF View

LEMMA ToggleKeepsView ==
    ASSUME View, ToggleFavorite
    PROVE  View'
<1>1. /\ current \in Presets
      /\ favs' = IF current \in favs THEN favs \ {current} ELSE favs \cup {current}
      /\ mark' = IF current # Watched THEN mark
                 ELSE IF current \in favs THEN "unmarked" ELSE "marked"
      /\ last' = last /\ Save(favs', last, current)
      /\ UNCHANGED <<gui, cmds, payload, events, renderer, early>>
    BY DEF ToggleFavorite, View, TypeOK
<1>2. StoreOK /\ favs' \subseteq Presets /\ mark' \in {"marked", "unmarked", "lost"} /\ last \in Presets \cup {No}
    BY <1>1, TypeParts DEF View, StoreOK
<1>3. StoreOK'
    BY <1>1, <1>2, SaveTyped DEF StoreOK
<1>4. LastFollows'
    BY <1>1 DEF View, LastFollows, gui
<1>5. QED
    BY <1>1, <1>3, <1>4, StoreStepKeepsView

LEMMA PersistKeepsView ==
    ASSUME View, PersistState
    PROVE  View'
<1>1. /\ current \in Presets /\ SetLastPreset(current) /\ mark' = mark
      /\ UNCHANGED <<gui, cmds, payload, events, renderer, early>>
    BY DEF PersistState, history, View, TypeOK
<1>2. StoreOK
    BY TypeParts DEF View, StoreOK
<1>3. StoreOK' /\ last' = current
    BY <1>1, <1>2, LastPresetSet
<1>4. LastFollows'
    BY <1>1, <1>3 DEF LastFollows, gui
<1>5. QED
    BY <1>1, <1>3, <1>4, StoreStepKeepsView

\* The page takes the event at the head of the queue.
LEMMA FromRendererKeepsView ==
    ASSUME View, FromRenderer
    PROVE  View'
<1> DEFINE e == Head(events)
           n == Len(events)
<1>1. /\ events # <<>> /\ events' = Tail(events)
      /\ nav' = [size |-> e.size, index |-> e.index] /\ shuffled' = e.shuffle
      /\ IF e.preset \in {No, current} THEN UNCHANGED <<current, store>>
         ELSE current' = e.preset /\ SetLastPreset(e.preset)
      /\ UNCHANGED <<mode, locked, level, cmds, payload, renderer, history>>
    BY DEF FromRenderer
<1>2. UNCHANGED <<syncing, playlist, playing, pm, early, mark>> /\ Loaded' = Loaded
    BY <1>1 DEF renderer, history, Loaded
<1>3. events \in Seq(Event) /\ n <= MaxEvents /\ MaxEvents \in Nat
    BY ConstantsAssumption DEF View, TypeOK
<1>4. n \in Nat \ {0} /\ e = events[1] /\ e \in Event
    BY <1>1, <1>3, EmptySeq, HeadTailProperties
<1>5. /\ events' \in Seq(Event) /\ Len(events') = n - 1
      /\ \A i \in 1 .. n - 1 : events'[i] = events[i + 1]
    BY <1>1, <1>3, HeadTailProperties
<1> HIDE DEF e, n
<1>6. /\ e.preset \in Presets \cup {No} /\ e.size \in 0 .. NPresets
      /\ e.index \in 0 .. NPresets /\ e.shuffle \in BOOLEAN
    BY <1>4 DEF Event
<1>7. current' = IF e.preset = No THEN current ELSE e.preset
    BY <1>1
<1>8. StoreOK' /\ LastFollows'
    <2>1. StoreOK
        BY TypeParts DEF View, StoreOK
    <2>2. CASE e.preset \in {No, current}
        BY <1>1, <1>2, <2>1, <2>2 DEF StoreOK, store, View, LastFollows
    <2>3. CASE e.preset \notin {No, current}
        BY <1>1, <1>2, <1>6, <2>1, <2>3, LastPresetSet DEF LastFollows
    <2>4. QED
        BY <2>2, <2>3
<1>9. TypeOK'
    <2>1. PageOK'
        BY <1>1, <1>2, <1>6, <1>7 DEF View, TypeOK, PageOK
    <2>2. CmdsOK' /\ RendererOK'
        BY <1>1, <1>2 DEF View, TypeOK, CmdsOK, RendererOK
    <2>3. EventsOK'
        BY <1>3, <1>4, <1>5 DEF EventsOK
    <2>4. QED
        BY <1>8, <2>1, <2>2, <2>3, TypeParts
<1>10. Reported'
    <2>1. SUFFICES ASSUME Loaded
                   PROVE  \/ events' = <<>> /\ current' = playing /\ nav' = Position
                          \/ events' # <<>> /\ Says(events'[Len(events')]) /\ Names(playing)'
        BY <1>2 DEF Reported, Says, Position
    <2>2. Says(events[n]) /\ Names(playing)
        BY <1>1, <2>1 DEF View, Reported, n
    <2>3. CASE n = 1
        <3>1. events' = <<>>
            BY <1>5, <2>3, EmptySeq
        <3>2. nav' = Position
            BY <1>1, <1>4, <2>2, <2>3 DEF Says, Position
        <3>3. current' = playing
            BY <1>4, <1>7, <2>2, <2>3, LoadedFacts, <2>1 DEF Names, n
        <3>4. QED
            BY <3>1, <3>2, <3>3
    <2>4. CASE n # 1
        <3>1. n - 1 \in 1 .. n - 1 /\ (n - 1) + 1 = n
            BY <1>4, <2>4
        <3>2. events' # <<>> /\ events'[Len(events')] = events[n]
            BY <1>4, <1>5, <2>4, <3>1, EmptySeq
        <3>3. CASE events[n].preset = playing
            BY <1>2, <2>2, <3>2, <3>3 DEF Names
        <3>4. CASE events[n].preset # playing
            <4>1. events[n].preset = No /\ events[n - 1].preset = playing
                BY <2>2, <2>4, <3>4 DEF Names, n
            <4>2. CASE n = 2
                <5>1. e.preset = playing
                    BY <1>4, <4>1, <4>2
                <5>2. current' = playing /\ Len(events') = 1
                    BY <1>5, <1>7, <2>1, <4>2, <5>1, LoadedFacts
                <5>3. Names(playing)'
                    BY <1>2, <3>2, <4>1, <5>2 DEF Names
                <5>4. QED
                    BY <2>2, <3>2, <5>3
            <4>3. CASE n # 2
                <5>1. n - 2 \in 1 .. n - 1 /\ (n - 2) + 1 = n - 1 /\ Len(events') # 1 /\ Len(events') - 1 = n - 2
                    BY <1>4, <1>5, <2>4, <4>3
                <5>2. events'[Len(events') - 1] = events[n - 1]
                    BY <1>5, <5>1
                <5>3. Names(playing)'
                    BY <1>2, <3>2, <4>1, <5>1, <5>2 DEF Names
                <5>4. QED
                    BY <2>2, <3>2, <5>3
            <4>4. QED
                BY <4>2, <4>3
        <3>5. QED
            BY <1>2, <2>2, <3>2, <3>3, <3>4
    <2>5. QED
        BY <2>3, <2>4
<1>11. PlaylistOK' /\ LevelSent'
    BY <1>1, <1>2 DEF View, PlaylistOK, LevelSent, Waiting
<1>12. LockSent' /\ ModeSent'
    BY <1>1, <1>2 DEF View, LockSent, ModeSent, Waiting, NoLockWaits, LockWaits
<1>13. QED
    BY <1>8, <1>9, <1>10, <1>11, <1>12 DEF View

\* An event at the end of the queue that says where the renderer is now.
LEMMA SwitchReported ==
    ASSUME EventsOK, Len(events) < MaxEvents, NEW p \in playlist, playlist \subseteq Presets,
           SwitchTo(p), UNCHANGED <<playlist, pm.shuffle>>, pm.shuffle \in BOOLEAN
    PROVE  EventsOK' /\ Reported' /\ playing' = p
<1> DEFINE e == Report(playlist, p, pm.shuffle)
<1>1. playing' = p /\ events' = Append(events, e) /\ p \in Presets \cup {No}
    BY DEF SwitchTo
<1>2. e \in Event /\ e.preset = p /\ e.size = Cardinality(playlist) /\ e.index = Index(playlist, p)
    BY <1>1, ReportIsEvent
<1> HIDE DEF e
<1>3. MaxEvents \in Nat /\ Len(events) \in Nat
    BY ConstantsAssumption, LenProperties DEF EventsOK
<1>4. /\ events' \in Seq(Event) /\ events' # <<>> /\ Len(events') = Len(events) + 1
      /\ events'[Len(events')] = e
    BY <1>1, <1>2, AppendProperties DEF EventsOK
<1>5. EventsOK'
    BY <1>3, <1>4 DEF EventsOK
<1>6. Reported'
    BY <1>1, <1>2, <1>4 DEF Reported, Says, Names, Position
<1>7. QED
    BY <1>1, <1>5, <1>6

\* What is played next, forwards, backwards or shuffled, is in the playlist.
LEMMA NextInPlaylist ==
    ASSUME View, Loaded
    PROVE  FollowingIn(playlist) \subseteq playlist /\ PrecedingIn(playlist) \subseteq playlist
<1>1. playlist \subseteq Presets /\ playing \in playlist
    BY LoadedFacts
<1>2. After(playlist, playing) \in playlist /\ Before(playlist, playing) \in playlist
    BY <1>1, AfterInList, BeforeInList
<1>3. QED
    BY <1>2 DEF FollowingIn, PrecedingIn

LEMMA AutoSwitchKeepsView ==
    ASSUME View, AutoSwitch
    PROVE  View'
<1>1. PICK p \in FollowingIn(playlist) : SwitchTo(p)
    BY DEF AutoSwitch
<1>2. /\ Len(events) < MaxEvents /\ Loaded
      /\ UNCHANGED <<gui, cmds, payload, store, syncing, playlist, pm, history>>
    BY DEF AutoSwitch, Loaded
<1>3. p \in playlist /\ playlist \subseteq Presets /\ pm.shuffle \in BOOLEAN /\ EventsOK
    BY <1>1, <1>2, LoadedFacts, NextInPlaylist DEF View, TypeOK, EventsOK
<1>4. EventsOK' /\ Reported' /\ playing' = p
    BY <1>1, <1>2, <1>3, SwitchReported
<1>5. UNCHANGED <<mode, locked, level, shuffled, nav, current, favs, last, file, unsaved, pending, early, mark>>
    BY <1>2 DEF gui, store, history
<1>6. TypeOK'
    <2>1. PageOK' /\ CmdsOK' /\ StoreOK'
        BY <1>2, <1>5 DEF View, TypeOK, PageOK, CmdsOK, StoreOK
    <2>2. RendererOK'
        BY <1>2, <1>3, <1>4 DEF View, TypeOK, RendererOK
    <2>3. QED
        BY <1>4, <2>1, <2>2, TypeParts
<1>7. PlaylistOK' /\ LastFollows' /\ LevelSent'
    BY <1>2, <1>3, <1>4, <1>5 DEF View, PlaylistOK, LastFollows, LevelSent, Loaded, Waiting
<1>8. LockSent' /\ ModeSent'
    BY <1>2, <1>5 DEF View, LockSent, ModeSent, Loaded, Waiting, NoLockWaits, LockWaits
<1>9. QED
    BY <1>4, <1>6, <1>7, <1>8 DEF View

\* What every command shares, and what its effect must come to: the queue and the
\* events stay typed, the position is reported, and the command that is taken
\* leaves projectM with what it was sent for.
LEMMA RunKeepsView ==
    ASSUME View, NEW c, Run(c), EventsOK', RendererOK', Reported',
           playlist' \subseteq Presets, playing' \in playlist',
           c = "SetLevel" \/ pm.level = level => pm'.level = level,
           \A on \in BOOLEAN : c = LockCmd(on) => pm'.locked = on,
           ~IsLock(c) => pm'.locked = pm.locked,
           c = "SetFavoritesMode" => mode \/ playlist' = Presets,
           c # "SetFavoritesMode" => UNCHANGED playlist
    PROVE  View'
<1>1. /\ Loaded /\ cmds # <<>> /\ Head(cmds) = c /\ cmds' = Tail(cmds)
      /\ payload' = IF cmds' # <<>> THEN payload ELSE {}
      /\ UNCHANGED <<gui, store, history>>
    BY DEF Run, Loaded
<1>2. UNCHANGED <<mode, locked, level, shuffled, nav, current, favs, last, file, unsaved, pending, early, mark>>
    BY <1>1 DEF gui, store, history
<1>3. /\ CmdsOK'
      /\ \A d : Waiting(d)' => Waiting(d)
      /\ \A d : Waiting(d) => Waiting(d)' \/ d = c
      /\ NoLockWaits => NoLockWaits' /\ ~IsLock(c)
      /\ \A on \in BOOLEAN : LockWaits(on) => LockWaits(on)' \/ (NoLockWaits' /\ c = LockCmd(on))
    BY <1>1, CommandTaken, TypeParts DEF View
<1>4. Loaded /\ Loaded'
    BY <1>1, NoIsNoPreset DEF View, PlaylistOK, Loaded, NoPlaylist
<1>5. TypeOK'
    <2>1. PageOK' /\ StoreOK'
        BY <1>1, <1>2 DEF View, TypeOK, PageOK, StoreOK
    <2>2. QED
        BY <1>3, <2>1, TypeParts
<1>6. PlaylistOK' /\ LastFollows'
    <2>1. Waiting("SetFavoritesMode")' => payload' = payload
        BY <1>1, EmptySeq DEF Waiting
    <2>2. PlaylistOK'
        BY <1>2, <1>3, <1>4, <2>1 DEF View, PlaylistOK
    <2>3. QED
        BY <1>2, <2>2 DEF View, LastFollows
<1>7. LevelSent'
    BY <1>2, <1>3, <1>4 DEF View, LevelSent
<1>8. ModeSent'
    BY <1>2, <1>3, <1>4 DEF View, ModeSent
<1>9. LockSent'
    <2>1. SUFFICES ASSUME ~early PROVE ((NoLockWaits /\ pm.locked = locked) \/ LockWaits(locked))'
        BY <1>2, <1>4 DEF LockSent
    <2>2. (NoLockWaits /\ pm.locked = locked) \/ LockWaits(locked)
        BY <1>4, <2>1 DEF View, LockSent
    <2>3. locked \in BOOLEAN /\ (LockWaits(locked)' <=> \E on \in BOOLEAN : on = locked /\ LockWaits(on)')
        BY <1>2 DEF View, TypeOK, LockWaits
    <2>4. CASE NoLockWaits /\ pm.locked = locked
        BY <1>2, <1>3, <2>4
    <2>5. CASE LockWaits(locked)
        BY <1>2, <1>3, <2>3, <2>5
    <2>6. QED
        BY <2>2, <2>4, <2>5
<1>10. QED
    BY <1>5, <1>6, <1>7, <1>8, <1>9 DEF View

LEMMA RunSwitchKeepsView ==
    ASSUME View, RunNext \/ RunPrev
    PROVE  View'
<1>1. PICK c \in {"Next", "Prev"} :
        /\ Run(c)
        /\ \E p \in FollowingIn(playlist) \cup PrecedingIn(playlist) : SwitchTo(p)
        /\ UNCHANGED <<playlist, pm>>
    BY DEF RunNext, RunPrev
<1>2. PICK p \in FollowingIn(playlist) \cup PrecedingIn(playlist) : SwitchTo(p)
    BY <1>1
<1>3. Loaded /\ Len(events) < MaxEvents /\ syncing' \in BOOLEAN
    BY <1>1 DEF Run, Loaded
<1>4. p \in playlist /\ playlist \subseteq Presets /\ pm.shuffle \in BOOLEAN /\ EventsOK
    BY <1>2, <1>3, LoadedFacts, NextInPlaylist DEF View, TypeOK, EventsOK
<1>5. EventsOK' /\ Reported' /\ playing' = p
    BY <1>1, <1>2, <1>3, <1>4, SwitchReported
<1>6. RendererOK'
    BY <1>1, <1>3, <1>4, <1>5 DEF View, TypeOK, RendererOK
<1>7. ~IsLock(c) /\ c # "SetLevel" /\ c # "SetFavoritesMode" /\ \A on \in BOOLEAN : c # LockCmd(on)
    BY <1>1 DEF IsLock, LockCmd
<1>8. QED
    BY <1>1, <1>4, <1>5, <1>6, <1>7, RunKeepsView

LEMMA RunSettingKeepsView ==
    ASSUME View, RunSetting
    PROVE  View'
<1>1. UNCHANGED <<events, playlist, playing>>
    BY DEF RunSetting
<1>2. PICK c \in Cmd \ {"Next", "Prev", "SetFavoritesMode"} :
        /\ Run(c)
        /\ pm' = CASE c = "ShuffleOn" -> [pm EXCEPT !.shuffle = TRUE]
                   [] c = "ShuffleOff" -> [pm EXCEPT !.shuffle = FALSE]
                   [] c = "LockOn" -> [pm EXCEPT !.locked = TRUE]
                   [] c = "LockOff" -> [pm EXCEPT !.locked = FALSE]
                   [] c = "SetLevel" -> [pm EXCEPT !.level = level]
    <2>1. CASE Run("ShuffleOn") /\ pm' = [pm EXCEPT !.shuffle = TRUE]
        BY <2>1 DEF Cmd
    <2>2. CASE Run("ShuffleOff") /\ pm' = [pm EXCEPT !.shuffle = FALSE]
        BY <2>2 DEF Cmd
    <2>3. CASE Run("LockOn") /\ pm' = [pm EXCEPT !.locked = TRUE]
        BY <2>3 DEF Cmd
    <2>4. CASE Run("LockOff") /\ pm' = [pm EXCEPT !.locked = FALSE]
        BY <2>4 DEF Cmd
    <2>5. CASE Run("SetLevel") /\ pm' = [pm EXCEPT !.level = level]
        BY <2>5 DEF Cmd
    <2>6. QED
        BY <2>1, <2>2, <2>3, <2>4, <2>5 DEF RunSetting
<1>3. pm \in [locked : BOOLEAN, level : Levels, shuffle : BOOLEAN] /\ level \in Levels
    BY DEF View, TypeOK
<1>4. /\ pm' \in [locked : BOOLEAN, level : Levels, shuffle : BOOLEAN]
      /\ c = "SetLevel" \/ pm.level = level => pm'.level = level
      /\ \A on \in BOOLEAN : c = LockCmd(on) => pm'.locked = on
      /\ ~IsLock(c) => pm'.locked = pm.locked
    BY <1>2, <1>3 DEF Cmd, IsLock, LockCmd
<1>5. Loaded /\ UNCHANGED gui /\ syncing' \in BOOLEAN
    BY <1>2 DEF Run, Loaded
<1>6. playlist \subseteq Presets /\ playing \in playlist
    BY <1>5, LoadedFacts
<1>7. EventsOK' /\ RendererOK' /\ Reported'
    BY <1>1, <1>4, <1>5 DEF View, TypeOK, EventsOK, RendererOK, Reported, Loaded, Says, Names,
                            Position, gui
<1>8. c # "SetFavoritesMode"
    BY <1>2
<1>9. QED
    BY <1>1, <1>2, <1>4, <1>6, <1>7, <1>8, RunKeepsView

\* The playlist is filled anew, and the page is told twice where it stands.
LEMMA RunFavoritesModeKeepsView ==
    ASSUME View, RunFavoritesMode
    PROVE  View'
<1> DEFINE n == Len(events)
<1>1. /\ Run("SetFavoritesMode") /\ n + 1 < MaxEvents /\ UNCHANGED pm
      /\ playlist' = IF mode THEN payload ELSE Presets
    BY DEF RunFavoritesMode
<1>2. cmds # <<>> /\ Head(cmds) = "SetFavoritesMode" /\ syncing' \in BOOLEAN
    BY <1>1 DEF Run
<1>3. Waiting("SetFavoritesMode")
    BY <1>2, CommandTaken, LenProperties, EmptySeq, HeadTailProperties DEF View, TypeOK, Waiting
<1>4. playlist' \subseteq Presets /\ playlist' # {}
    <2>1. 1 \in Presets
        BY ConstantsAssumption DEF Presets
    <2>2. CASE mode
        BY <1>1, <1>3, <2>2 DEF View, PlaylistOK, TypeOK
    <2>3. CASE ~mode
        BY <1>1, <2>1, <2>3
    <2>4. QED
        BY <2>2, <2>3
<1>5. PICK p \in IF pm.shuffle THEN playlist' ELSE {After(playlist', No)} :
        /\ playing' = p
        /\ events' = events \o <<Report(playlist', p, pm.shuffle),
                                 [Report(playlist', p, pm.shuffle) EXCEPT !.preset = No]>>
    BY DEF RunFavoritesMode
<1>6. p \in playlist' /\ p \in Presets
    BY <1>4, <1>5, AfterInList
<1> DEFINE a == Report(playlist', p, pm.shuffle)
           b == [a EXCEPT !.preset = No]
<1>7. pm.shuffle \in BOOLEAN /\ n \in Nat /\ events \in Seq(Event) /\ MaxEvents \in Nat
    BY ConstantsAssumption, LenProperties DEF View, TypeOK
<1>8. a \in Event /\ a.preset = p /\ a.size = Cardinality(playlist') /\ a.index = Index(playlist', p)
    BY <1>4, <1>6, <1>7, ReportIsEvent
<1>9. events' = events \o <<a, b>>
    BY <1>5
<1> HIDE DEF a, n
<1>10. b \in Event /\ b.preset = No /\ b.size = a.size /\ b.index = a.index
    BY <1>8 DEF Event
<1> HIDE DEF b
<1>11. <<a, b>> \in Seq(Event) /\ Len(<<a, b>>) = 2 /\ <<a, b>>[1] = a /\ <<a, b>>[2] = b
    BY <1>8, <1>10
<1>12. /\ events' \in Seq(Event) /\ Len(events') = n + 2
       /\ events'[n + 1] = a /\ events'[n + 2] = b
    BY <1>7, <1>9, <1>11, ConcatProperties DEF n
<1>13. EventsOK'
    BY <1>1, <1>7, <1>12 DEF EventsOK
<1>14. Reported'
    <2>1. events' # <<>> /\ Len(events') # 1 /\ Len(events') - 1 = n + 1
        BY <1>7, <1>12, EmptySeq
    <2>2. events'[Len(events')] = b /\ events'[Len(events') - 1] = a
        BY <1>12, <2>1
    <2>3. QED
        BY <1>5, <1>8, <1>10, <2>1, <2>2 DEF Reported, Says, Names, Position
<1>15. RendererOK'
    BY <1>1, <1>2, <1>4, <1>5, <1>6 DEF View, TypeOK, RendererOK
<1>16. QED
    BY <1>1, <1>4, <1>5, <1>6, <1>13, <1>14, <1>15, RunKeepsView DEF IsLock, LockCmd

LEMMA FirstPaintKeepsView ==
    ASSUME View, FirstPaint
    PROVE  View'
<1>1. /\ ~Loaded /\ Len(events) < MaxEvents
      /\ pm' = [locked |-> FALSE, level |-> level, shuffle |-> FALSE]
      /\ playlist' = Presets
      /\ playing' = (IF last \in Presets THEN last ELSE 1)
      /\ events' = Append(events, Report(Presets, playing', FALSE))
      /\ cmds' = <<>> /\ payload' = {}
      /\ UNCHANGED <<mode, locked, level, shuffled, nav, current, favs, last, file, unsaved,
                     syncing, pending, early, mark>>
    BY DEF FirstPaint, EnsureProjectM, LoadPresetsOnce, Loaded, gui, store, history
<1>2. 1 \in Presets /\ MaxCmds \in Nat /\ MaxEvents \in Nat
    BY ConstantsAssumption DEF Presets
<1>3. playing' \in Presets
    BY <1>1, <1>2
<1>4. PICK e : e = Report(Presets, playing', FALSE)
    OBVIOUS
<1>5. e \in Event /\ e.preset = playing' /\ e.size = Cardinality(Presets) /\ e.index = Index(Presets, playing')
    BY <1>3, <1>4, ReportIsEvent
<1>6. events \in Seq(Event) /\ Len(events) \in Nat
    BY LenProperties DEF View, TypeOK
<1>7. /\ events' \in Seq(Event) /\ events' # <<>> /\ Len(events') = Len(events) + 1
      /\ events'[Len(events')] = e
    <2>1. events' = Append(events, e)
        BY <1>1, <1>4
    <2>2. QED
        BY <1>5, <1>6, <2>1, AppendProperties
<1>8. Reported'
    BY <1>1, <1>5, <1>7 DEF Reported, Says, Names, Position
<1>9. cmds' \in Seq(Cmd) /\ Len(cmds') = 0 /\ DOMAIN cmds' = {}
    BY <1>1, EmptySeq
<1>10. TypeOK'
    <2>1. EventsOK' /\ CmdsOK'
        <3>1. Len(events') <= MaxEvents /\ Len(cmds') <= MaxCmds
            BY <1>1, <1>2, <1>6, <1>7, <1>9
        <3>2. QED
            BY <1>7, <1>9, <3>1 DEF EventsOK, CmdsOK
    <2>2. PageOK' /\ StoreOK'
        BY <1>1 DEF View, TypeOK, PageOK, StoreOK
    <2>3. RendererOK'
        BY <1>1, <1>3 DEF View, TypeOK, RendererOK
    <2>4. QED
        BY <2>1, <2>2, <2>3, TypeParts
<1>11. PlaylistOK' /\ LastFollows' /\ LevelSent'
    BY <1>1, <1>3, <1>9 DEF View, PlaylistOK, LastFollows, LevelSent, Waiting
<1>12. NoLockWaits'
    BY <1>9 DEF NoLockWaits
<1>13. LockSent' /\ ModeSent'
    <2>1. ~early => locked = FALSE /\ mode = FALSE
        BY <1>1 DEF View, LockSent, ModeSent, TypeOK
    <2>2. ~early => pm'.locked = locked'
        BY <1>1, <2>1
    <2>3. QED
        BY <1>1, <1>12, <2>1, <2>2 DEF LockSent, ModeSent
<1>14. QED
    BY <1>8, <1>10, <1>11, <1>13 DEF View

LEMMA RestartKeepsView ==
    ASSUME View, Restart
    PROVE  View'
<1>1. /\ mode' = FALSE /\ locked' = FALSE /\ level' = DefaultLevel /\ shuffled' = FALSE
      /\ nav' = [size |-> 0, index |-> 0] /\ current' = No
      /\ cmds' = <<>> /\ payload' = {} /\ events' = <<>>
      /\ syncing' = FALSE /\ ~Loaded' /\ playlist' = NoPlaylist /\ playing' = No
      /\ pm' = [locked |-> FALSE, level |-> DefaultLevel, shuffle |-> FALSE]
      /\ early' = FALSE /\ Load
    BY DEF Restart, Loaded
<1>2. 0 \in 0 .. NPresets /\ MaxCmds \in Nat /\ MaxEvents \in Nat /\ DefaultLevel \in Levels
    BY ConstantsAssumption
<1>3. cmds' \in Seq(Cmd) /\ Len(cmds') = 0 /\ events' \in Seq(Event) /\ Len(events') = 0
    BY <1>1, EmptySeq
<1>4. TypeOK'
    <2>1. EventsOK' /\ CmdsOK'
        BY <1>2, <1>3 DEF EventsOK, CmdsOK
    <2>2. nav' \in [size : 0 .. NPresets, index : 0 .. NPresets]
        BY <1>1, <1>2
    <2>3. PageOK'
        BY <1>1, <1>2, <2>2 DEF PageOK
    <2>4. file.favs \subseteq Presets /\ file.last \in Presets \cup {No}
        BY DEF View, TypeOK
    <2>5. StoreOK'
        BY <1>1, <2>4 DEF Load, View, TypeOK, StoreOK
    <2>6. RendererOK'
        BY <1>1, <1>2 DEF RendererOK
    <2>7. QED
        BY <2>1, <2>3, <2>5, <2>6, TypeParts
<1>5. PlaylistOK' /\ LastFollows' /\ Reported' /\ LevelSent' /\ LockSent' /\ ModeSent'
    BY <1>1 DEF PlaylistOK, LastFollows, Reported, LevelSent, LockSent, ModeSent
<1>6. QED
    BY <1>4, <1>5 DEF View

LEMMA StutterKeepsView ==
    ASSUME View, UNCHANGED vars
    PROVE  View'
<1>1. UNCHANGED <<mode, locked, level, shuffled, nav, current, cmds, payload, events, favs, last,
                  file, unsaved, syncing, playlist, playing, pm, pending, early, mark>>
    BY DEF vars, gui, store, renderer, history
<1>2. TypeOK'
    BY <1>1 DEF View, TypeOK
<1>3. PlaylistOK' /\ LastFollows' /\ Reported' /\ LevelSent'
    BY <1>1 DEF View, PlaylistOK, LastFollows, Reported, LevelSent, Loaded, Waiting, Says, Names,
                Position
<1>4. LockSent' /\ ModeSent'
    BY <1>1 DEF View, LockSent, ModeSent, Loaded, Waiting, NoLockWaits, LockWaits
<1>5. QED
    BY <1>2, <1>3, <1>4 DEF View

LEMMA ViewInvariant == Spec => []View
<1>1. View /\ [Next]_vars => View'
    <2> SUFFICES ASSUME View, [Next]_vars PROVE View'
        OBVIOUS
    <2>1. CASE UNCHANGED vars
        BY <2>1, StutterKeepsView
    <2>2. CASE \/ PlayNext \/ PlayPrev
               \/ \E on \in BOOLEAN : SetLocked(on) \/ Shuffle(on) \/ SetFavoritesMode(on)
               \/ \E v \in Levels : SetLevel(v)
        BY <2>2, SendKeepsView
    <2>3. CASE ToggleFavorite \/ PersistState \/ FromRenderer
        BY <2>3, ToggleKeepsView, PersistKeepsView, FromRendererKeepsView
    <2>4. CASE RunNext \/ RunPrev \/ RunSetting \/ RunFavoritesMode
        BY <2>4, RunSwitchKeepsView, RunSettingKeepsView, RunFavoritesModeKeepsView
    <2>5. CASE FirstPaint \/ AutoSwitch
        BY <2>5, FirstPaintKeepsView, AutoSwitchKeepsView
    <2>6. CASE Restart
        BY <2>6, RestartKeepsView
    <2>7. QED
        BY <2>1, <2>2, <2>3, <2>4, <2>5, <2>6 DEF Next
<1>2. QED
    BY <1>1, InitView, PTL DEF Spec

\* Every variable of the page, the store and the renderer has its type: in
\* particular a playlist is never empty where projectM picks the next preset of it
\* (Visualizer.cpp, the commands of synchronize() and the timed switch).
THEOREM TypesHold == Spec => []TypeOK
<1>1. View => TypeOK
    BY DEF View
<1>2. QED
    BY <1>1, ViewInvariant, PTL

\* Once commands and events have all been taken, the page, projectM and Favorites
\* agree, and so does favorites.json unless the latest save or load failed, whatever
\* the order in which the two threads worked through them.
THEOREM MirrorsComeToAgree == Spec => []MirrorsAgree
<1>1. View /\ FileFollows => MirrorsAgree
    <2> SUFFICES ASSUME View, FileFollows, Quiet PROVE
          /\ current = playing /\ last = playing
          /\ unsaved \/ file.last = playing
          /\ nav = [size |-> Cardinality(playlist), index |-> Index(playlist, playing)]
          /\ pm.level = level
          /\ ~early => /\ pm.locked = locked
                       /\ mode \/ playlist = Presets
                       /\ playing \in playlist
        BY DEF MirrorsAgree
    <2>1. Loaded /\ cmds = <<>> /\ events = <<>>
        BY DEF Quiet, Loaded
    <2>2. playing \in playlist /\ playing # No
        BY <2>1, LoadedFacts
    <2>3. current = playing /\ nav = Position
        BY <2>1 DEF View, Reported
    <2>4. last = playing
        BY <2>2, <2>3 DEF View, LastFollows
    <2>5. DOMAIN cmds = {}
        BY <2>1, EmptySeq
    <2>6. (\A c : ~Waiting(c)) /\ ~LockWaits(locked)
        BY <2>5 DEF Waiting, LockWaits
    <2>7. QED
        BY <2>1, <2>2, <2>3, <2>4, <2>6 DEF View, FileFollows, Position, LevelSent, LockSent, ModeSent
<1>2. IInv => FileFollows
    BY DEF IInv
<1>3. QED
    BY <1>1, <1>2, ViewInvariant, StoreInvariant, PTL
=============================================================================
