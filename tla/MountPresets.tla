---------------------------- MODULE MountPresets ----------------------------
(***************************************************************************)
(* The two stores the module keeps in `kcm_dockerrc`: the mount presets    *)
(* (MountPresetStore) and the command history (CommandHistoryStore).       *)
(*                                                                         *)
(* Every window of the module (System Settings, a stand-alone one) has     *)
(* stores of its own: it reads the file once, when it opens, and saves     *)
(* a whole store on every change.  The file is all the windows share.      *)
(* A window can be closed, or die, between any two steps.                  *)
(*                                                                         *)
(* A save is not one step: it opens the file, and its sync() later reads   *)
(* the file again, changes in it what the window holds otherwise than the  *)
(* file did when it was opened, and may fail, which nobody looks at.  The  *)
(* saves of two windows can overlap.                                       *)
(*                                                                         *)
(* A place stands for the type, the source and the destination of a mount  *)
(* which validateSource() and validateDestination() accept; notes, the     *)
(* read-only flag and the labels are left out.                             *)
(***************************************************************************)
EXTENDS Integers, Sequences, SequencesExt, FiniteSets, SequenceParts

CONSTANTS
    Windows,      \* windows of the module, one process each
    Places,       \* the mounts of new containers
    Tmpfs,        \* those of type tmpfs, which noteUsed() skips
    Commands,     \* commands of containers
    None,         \* no window, no command, no place
    MaxRecent,    \* kMaxRecent
    MaxEntries,   \* kMaxEntries
    MaxPresets,   \* bound: a window with so many presets adds no more by hand
    MaxNow,       \* bound: instants at which something is used
    MaxEdits      \* bound: changes made in all windows

ASSUME LimitsArePositive == {MaxRecent, MaxEntries, MaxPresets, MaxNow, MaxEdits} \subseteq Nat \ {0}
ASSUME TmpfsArePlaces == Tmpfs \subseteq Places
ASSUME NoneIsNothing == None \notin Windows \cup Commands \cup Places

VARIABLES
    isOpen,         \* whether each window is open
    presets,        \* m_presets of each window
    order,          \* m_order of each window: preset ids
    local,          \* m_local of each window: its own commands, the last one first
    external,       \* m_external of each window: commands of existing containers
    presetFile,     \* group MountPresets of the file: the presets and their order
    historyFile,    \* group CommandHistory of the file
    now,            \* the clock
    edits,          \* changes made so far
    inSave,         \* whether each window is in the middle of a save of its presets
    opened,         \* the group MountPresets as that save has read it
    toRecord,       \* the command that is recorded after that save
    presetWriter,   \* ghost: the open window whose presets the first group holds
    historyWriter,  \* ghost: the same of the second group
    torn            \* ghost: a sync() has met a group changed since it was opened

presetVars == <<presets, order, inSave, opened, presetFile, presetWriter, torn>>
historyVars == <<local, historyFile, historyWriter>>
storesVars == <<isOpen, presetVars, toRecord, historyVars, external, now, edits>>

(***************************************************************************)
(* A preset and the lists of them.                                         *)
(***************************************************************************)
Never == 0    \* lastUsedAt of a preset that was never used

NewPreset(id, place, used) == [id |-> id, place |-> place, favorite |-> FALSE, used |-> used]

Ids(seq) == {seq[i].id : i \in DOMAIN seq}
PlacesOf(seq) == {seq[i].place : i \in DOMAIN seq}
Row(seq, id) == SelectInSeq(seq, LAMBDA p : p.id = id)

\* nextId(): preset-1, preset-2, ... from the number of presets on.
NextId(seq) ==
    CHOOSE n \in Len(seq) + 1 .. 2 * Len(seq) + 1 :
        /\ n \notin Ids(seq)
        /\ \A m \in Len(seq) + 1 .. n - 1 : m \in Ids(seq)

Without(ids, gone) == Picked(ids, {i \in DOMAIN ids : ids[i] \notin gone})
Except(seq, gone) == Picked(seq, {i \in DOMAIN seq : seq[i].id \notin gone})

\* presets(): favourites first, the last used first, and the saved order
\* among equals and among those never used.
ShownBefore(ids, p, q) ==
    CASE p.favorite # q.favorite -> p.favorite
      [] p.used # q.used -> p.used > q.used
      [] OTHER -> SelectInSeq(ids, LAMBDA id : id = p.id) < SelectInSeq(ids, LAMBDA id : id = q.id)

Shown(w) == SetToSortSeq(ToSet(presets[w]), LAMBDA p, q : ShownBefore(order[w], p, q))

\* Fault: a favourite that was used can go as well.
EvictableAny(seq) == {i \in DOMAIN seq : seq[i].used # Never}

Evictable(seq) == {i \in DOMAIN seq : ~seq[i].favorite /\ seq[i].used # Never}

\* trimRecents(): the ids of the presets that have to go, the oldest first.
Trimmed(seq) ==
    LET Older(i, j) == \/ seq[i].used < seq[j].used
                       \/ seq[i].used = seq[j].used /\ i < j
    IN {seq[j].id : j \in {j \in Evictable(seq) :
           Cardinality({i \in Evictable(seq) : Older(i, j)}) < Len(seq) - MaxRecent}}

(***************************************************************************)
(* The file.  Times are written with a resolution of one second, which     *)
(* two instants of the clock share.                                        *)
(***************************************************************************)
Seconds(t) == t - (t % 2)

OnDisk(seq) == {[seq[i] EXCEPT !.used = Seconds(@)] : i \in DOMAIN seq}

EmptyFile == [presets |-> {}, order |-> <<>>]

IdsOn(file) == {p.id : p \in file.presets}

\* The group of a preset; a key that is not there reads as its default.
Group(file, id) ==
    IF id \in IdsOn(file)
    THEN CHOOSE p \in file.presets : p.id = id
    ELSE NewPreset(id, None, Never)

\* KConfig::sync() of one key: it is written if its value is not that of the opened file.
Newer(mine, old, onFile) == IF mine = old THEN onFile ELSE mine

\* ... of the keys of one preset: all of a new group, the changed ones of another.
MergedPreset(file, old, p) ==
    IF p.id \notin IdsOn(old)
    THEN p
    ELSE [id |-> p.id,
          place |-> Newer(p.place, Group(old, p.id).place, Group(file, p.id).place),
          favorite |-> Newer(p.favorite, Group(old, p.id).favorite, Group(file, p.id).favorite),
          used |-> Newer(p.used, Group(old, p.id).used, Group(file, p.id).used)]

\* Fault: the groups of removed presets stay in the file.
MergedOverOld(file, old, mine, ids) ==
    [presets |-> mine \cup {p \in file.presets : p.id \notin {q.id : q \in mine}},
     order |-> ids]

\* The groups of `old` that are not among `mine` have been deleted by the save; those that
\* came to the file since it was opened stay.  A group without changes is not written.
MergedFile(file, old, mine, ids) ==
    LET kept == {p \in file.presets : p.id \notin IdsOn(old) \cup {q.id : q \in mine}}
        written == {p \in mine : p \notin old.presets \/ p.id \in IdsOn(file)}
    IN [presets |-> kept \cup {MergedPreset(file, old, p) : p \in written},
        order |-> Newer(ids, old.order, file.order)]

\* save() up to its sync(): the store has changed and the file is read.
Save(w, seq, ids, command) ==
    /\ presets' = [presets EXCEPT ![w] = seq]
    /\ order' = [order EXCEPT ![w] = ids]
    /\ inSave' = [inSave EXCEPT ![w] = TRUE]
    /\ opened' = [opened EXCEPT ![w] = presetFile]
    /\ toRecord' = [toRecord EXCEPT ![w] = command]
    /\ presetWriter' = IF presetWriter = w THEN None ELSE presetWriter
    /\ UNCHANGED <<presetFile, torn>>

\* load() of the history: every command once.
ReadHistory == historyFile

\* save() of the history.  It has one key, so that two overlapping saves do what they do one
\* after the other; its sync() may fail as well.
WriteHistory(w, commands, done) ==
    /\ local' = [local EXCEPT ![w] = commands]
    /\ IF done
       THEN historyFile' = commands /\ historyWriter' = w
       ELSE /\ historyWriter' = IF historyWriter = w THEN None ELSE historyWriter
            /\ UNCHANGED historyFile

\* The order in which KConfig lists the groups of a file is not specified.  A group without
\* a destination is skipped.
OpenWindow(w) ==
    /\ ~isOpen[w]
    /\ isOpen' = [isOpen EXCEPT ![w] = TRUE]
    /\ \E seq \in SetToSeqs({p \in presetFile.presets : p.place # None}) :
        /\ presets' = [presets EXCEPT ![w] = seq]
        /\ order' = [order EXCEPT ![w] =
               presetFile.order \o Without([i \in DOMAIN seq |-> seq[i].id],
                                           ToSet(presetFile.order))]
    /\ local' = [local EXCEPT ![w] = ReadHistory]
    /\ UNCHANGED <<external, inSave, opened, toRecord, presetFile, historyFile, now, edits,
                   presetWriter, historyWriter, torn>>

\* The memory of the window is gone; the file stays.
CloseWindow(w) ==
    /\ isOpen[w]
    /\ isOpen' = [isOpen EXCEPT ![w] = FALSE]
    /\ presets' = [presets EXCEPT ![w] = <<>>]
    /\ order' = [order EXCEPT ![w] = <<>>]
    /\ local' = [local EXCEPT ![w] = <<>>]
    /\ external' = [external EXCEPT ![w] = <<>>]
    /\ inSave' = [inSave EXCEPT ![w] = FALSE]
    /\ opened' = [opened EXCEPT ![w] = EmptyFile]
    /\ toRecord' = [toRecord EXCEPT ![w] = None]
    /\ presetWriter' = IF presetWriter = w THEN None ELSE presetWriter
    /\ historyWriter' = IF historyWriter = w THEN None ELSE historyWriter
    /\ UNCHANGED <<presetFile, historyFile, now, edits, torn>>

(***************************************************************************)
(* What the user does with the presets.                                    *)
(***************************************************************************)
\* The window handles events: it is open and not in the middle of a save.
Idle(w) == isOpen[w] /\ ~inSave[w]

\* A place that has a preset already is not added again.
Add(w, place) ==
    /\ Len(presets[w]) < MaxPresets
    /\ place \notin PlacesOf(presets[w])
    /\ LET id == NextId(presets[w])
       IN Save(w, Append(presets[w], NewPreset(id, place, Never)), Append(order[w], id), None)
    /\ UNCHANGED <<isOpen, historyVars, external, now>>

\* Fault: a removed preset keeps its place in the order.
RemovePresetKeepingOrder(w, id) ==
    /\ Save(w, Except(presets[w], {id}), order[w], None)
    /\ UNCHANGED <<isOpen, historyVars, external, now>>

RemovePreset(w, id) ==
    /\ Save(w, Except(presets[w], {id}), Without(order[w], {id}), None)
    /\ UNCHANGED <<isOpen, historyVars, external, now>>

\* update() keeps the type, and takes any place of it, that of another preset included.
Update(w, id, place) ==
    /\ (place \in Tmpfs) = (presets[w][Row(presets[w], id)].place \in Tmpfs)
    /\ Save(w, [presets[w] EXCEPT ![Row(presets[w], id)].place = place], order[w], None)
    /\ UNCHANGED <<isOpen, historyVars, external, now>>

SetFavorite(w, id) ==
    /\ Save(w, [presets[w] EXCEPT ![Row(presets[w], id)].favorite = ~@], order[w], None)
    /\ UNCHANGED <<isOpen, historyVars, external, now>>

\* moveDown() of the preset at `row` of the order, moveUp() of the one below.
Move(w, row) ==
    /\ row \in 1 .. Len(order[w]) - 1
    /\ LET First(id) == SelectInSeq(order[w], LAMBDA other : other = id)
       IN \E id \in Ids(presets[w]) : First(id) \in {row, row + 1}
    /\ Save(w, presets[w], [order[w] EXCEPT ![row] = order[w][row + 1],
                                            ![row + 1] = order[w][row]], None)
    /\ UNCHANGED <<isOpen, historyVars, external, now>>

(***************************************************************************)
(* The wizard hands in a request: its mounts join the presets and its      *)
(* command the history as soon as the request is accepted.                 *)
(***************************************************************************)
\* One mount of noteUsed(): the first preset of its place, or a new one.
Touch(seq, place) ==
    IF place \in PlacesOf(seq)
    THEN [seq EXCEPT ![SelectInSeq(seq, LAMBDA p : p.place = place)].used = now]
    ELSE Append(seq, NewPreset(NextId(seq), place, now))

\* The loop of noteUsed() over the mounts of a request.
Noted(seq, places) ==
    LET noted[n \in 0 .. Len(places)] ==
            IF n = 0 THEN seq ELSE Touch(noted[n - 1], places[n])
    IN noted[Len(places)]

NoteUsed(w, places, command) ==
    LET all == Noted(presets[w], places)
        added == [i \in 1 .. Len(all) - Len(presets[w]) |-> all[Len(presets[w]) + i].id]
    IN Save(w, Except(all, Trimmed(all)), Without(order[w] \o added, Trimmed(all)), command)

\* record(): the command moves to the front, and the oldest is dropped.
Record(w, command, done) ==
    LET all == <<command>> \o Without(local[w], {command})
    IN IF command = None \/ (local[w] # <<>> /\ Head(local[w]) = command)
       THEN UNCHANGED historyVars
       ELSE WriteHistory(w, SubSeq(all, 1, IF Len(all) > MaxEntries
                                           THEN MaxEntries ELSE Len(all)), done)

\* noteUsed() saves nothing if the request has no mount but tmpfs.
Submit(w, mounts, command) ==
    LET places == Without(mounts, Tmpfs)
    IN /\ now < MaxNow
       /\ now' = now + 1
       /\ \/ /\ places # <<>>
             /\ NoteUsed(w, places, command)
             /\ UNCHANGED historyVars
          \/ /\ places = <<>>
             /\ \E done \in BOOLEAN : Record(w, command, done)
             /\ UNCHANGED <<presetVars, toRecord>>
       /\ UNCHANGED <<isOpen, external>>

\* sync() of a save, and what follows it: the command of a request is recorded.
Synced(w, done) ==
    /\ inSave[w]
    /\ inSave' = [inSave EXCEPT ![w] = FALSE]
    /\ opened' = [opened EXCEPT ![w] = EmptyFile]
    /\ IF done
       THEN /\ presetFile' = MergedFile(presetFile, opened[w], OnDisk(presets[w]), order[w])
            /\ presetWriter' = IF presetFile = opened[w] THEN w ELSE None
            /\ torn' = (torn \/ presetFile # opened[w])
       ELSE UNCHANGED <<presetFile, presetWriter, torn>>
    /\ \E recorded \in BOOLEAN : Record(w, toRecord[w], recorded)
    /\ toRecord' = [toRecord EXCEPT ![w] = None]
    /\ UNCHANGED <<isOpen, presets, order, external, now, edits>>

\* mergeExternal(): candidates that are shown and never written.
MergeExternal(w, command) ==
    /\ command \notin ToSet(local[w]) \cup ToSet(external[w])
    /\ external' = [external EXCEPT ![w] = Append(@, command)]
    /\ UNCHANGED <<isOpen, presetVars, toRecord, historyVars, now>>

\* clearLocal(): the commands of existing containers stay.
ClearLocal(w, done) ==
    /\ local[w] # <<>>
    /\ WriteHistory(w, <<>>, done)
    /\ UNCHANGED <<isOpen, presetVars, toRecord, external, now>>

\* commands(): the window's own commands, then the others.
Candidates(w) == local[w] \o Without(external[w], ToSet(local[w]))

(***************************************************************************)
(* Specification                                                           *)
(***************************************************************************)
\* The mounts of one request have different places.
Requests == {mounts \in SeqOf(Places, 2) : IsInjective(mounts)}

StoresInit ==
    /\ isOpen = [w \in Windows |-> FALSE]
    /\ presets = [w \in Windows |-> <<>>]
    /\ order = [w \in Windows |-> <<>>]
    /\ local = [w \in Windows |-> <<>>]
    /\ external = [w \in Windows |-> <<>>]
    /\ presetFile = EmptyFile
    /\ inSave = [w \in Windows |-> FALSE]
    /\ opened = [w \in Windows |-> EmptyFile]
    /\ toRecord = [w \in Windows |-> None]
    /\ historyFile = <<>>
    /\ now = 2
    /\ edits = 0
    /\ presetWriter = None
    /\ historyWriter = None
    /\ torn = FALSE

EditStores(w) ==
    \/ \E place \in Places : Add(w, place)
    \/ \E id \in Ids(presets[w]) :
          \/ RemovePreset(w, id)
          \/ SetFavorite(w, id)
          \/ \E place \in Places : Update(w, id, place)
    \/ \E row \in DOMAIN order[w] : Move(w, row)
    \/ \E mounts \in Requests, command \in Commands \cup {None} : Submit(w, mounts, command)
    \/ \E command \in Commands : MergeExternal(w, command)
    \/ \E done \in BOOLEAN : ClearLocal(w, done)

StoresNext ==
    \E w \in Windows :
        \/ OpenWindow(w)
        \/ CloseWindow(w)
        \/ \E done \in BOOLEAN : Synced(w, done)
        \/ Idle(w) /\ edits < MaxEdits /\ edits' = edits + 1 /\ EditStores(w)

StoresSpec == StoresInit /\ [][StoresNext]_storesVars

(***************************************************************************)
(* Properties                                                              *)
(***************************************************************************)
\* Whatever was added, trimmed, moved, saved, not saved and read back, by this window or
\* another, the order of a window names every one of its presets, so that presets() never
\* needs its fallback.  As long as no two saves have overlapped it names each of them once and
\* nothing else, and moveUp() and moveDown() never swap a preset with one that does not exist.
OrderListsPresets ==
    \A w \in Windows :
        /\ Ids(presets[w]) \subseteq ToSet(order[w])
        /\ ~torn => /\ IsInjective(order[w])
                    /\ Len(order[w]) = Len(presets[w])
                    /\ ToSet(order[w]) = Ids(presets[w])

\* A save whose sync() succeeds, and which no sync() of another window overtook, leaves in the
\* file what the window holds, until one of them saves again: whatever earlier saves, failed or
\* mixed with those of other windows, have left there, what was removed is gone, and what was
\* added is complete, its times cut to seconds.
FileFollowsWriter ==
    /\ presetWriter # None =>
         /\ presetFile.presets = OnDisk(presets[presetWriter])
         /\ presetFile.order = order[presetWriter]
    /\ historyWriter # None => historyFile = local[historyWriter]

\* A preset that a request pushes out is not a favourite, the store is full
\* then, and what stays and could have gone was not used longer ago: a preset
\* that was never used goes only if the same request uses it, together with
\* everything that stays and could have gone.
OldestIsTrimmed ==
    [][\A w \in Windows : isOpen[w] /\ now' # now =>
         \A i \in DOMAIN presets[w] :
            LET p == presets[w][i]
                lastUse == IF p.used = Never THEN now ELSE p.used
            IN p.id \notin Ids(presets'[w]) =>
                 /\ ~p.favorite
                 /\ Len(presets'[w]) >= MaxRecent
                 /\ \A j \in Evictable(presets'[w]) : presets'[w][j].used >= lastUse]_storesVars

\* mount_preset_store.h says moving a preset reorders it "within the favorite
\* or recent group".  It does not hold: two presets with different times of
\* use are shown in the order of these times, whatever the saved order.
MoveIsShown ==
    [][\A w \in Windows : presets'[w] = presets[w] /\ order'[w] # order[w] => Shown(w)' # Shown(w)]_storesVars

\* save() says that "deleting a preset must not leave garbage in the config".  It does not
\* hold: a save of another window that has read the file before writes the order with the
\* deleted preset back, or keys of it.
NoGarbage ==
    /\ ToSet(presetFile.order) \subseteq IdsOn(presetFile)
    /\ \A p \in presetFile.presets : p.place # None
=============================================================================
