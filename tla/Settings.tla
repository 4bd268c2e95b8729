------------------------------ MODULE Settings ------------------------------
(***************************************************************************)
(* The settings page: SettingsComponent loads and saves, a GenericSetting  *)
(* per entry shows the current value and edits it, lists in a modal that   *)
(* changes them in place.  Objects matter here: a list that is shown, one  *)
(* that is edited and one that is being saved may be the same array, or    *)
(* not any more.  A value is a set of rules; a plain setting has one.      *)
(*                                                                         *)
(* The configuration of the engine is external.  It answers requests       *)
(* concurrently.                                                           *)
(***************************************************************************)
EXTENDS Naturals, Sequences, FiniteSets, SequencesExt

CONSTANTS
  None,         \* undefined, and no modal
  Keys,         \* the settings
  Lists,        \* those of type StringArray
  Rules,        \* what values are made of
  BadRules,     \* rules the engine refuses
  MaxActions    \* bound: changes the user makes

ASSUME KeysAssumption == IsFiniteSet(Keys) /\ Lists \subseteq Keys
ASSUME RulesAssumption == BadRules \subseteq Rules
ASSUME MaxActionsAssumption == MaxActions \in Nat

VARIABLES
  config,    \* the engine's values, None where a setting has its default
  heap,      \* the objects of the page: a sequence of values, by reference
  settings,  \* settings of SettingsComponent, with the _currentValue of their components
             \* and their DefaultValue, by reference
  modal,     \* the list that is edited: of which setting, which object, is its component there
  saves,     \* updates that have not been answered
  loads,     \* queries that have not been completed
  actions,   \* counter: changes the user has made
  reads,     \* counter: queries the engine has answered
  shown,     \* history: the answer that was shown last, as a number of reads
  trouble    \* history: an edit was refused or lost, or answers came out of order

vars == <<config, heap, settings, modal, saves, loads, actions, reads, shown, trouble>>
engineVars == <<config, reads>>
historyVars == <<shown, trouble>>

Value == SUBSET Rules
Default == {}
Refs == DOMAIN heap
Saved(k) == IF config[k] = None THEN Default ELSE config[k]
Orders == {s \in [1..Cardinality(Keys) -> Keys] : IsInjective(s)}

\* The setter of GenericSetting: a value that is missing is the default, and one that is
\* the default, for a list the very same array, is taken for it.
Entry(k, value, default, objects) ==
  LET ref == IF value = None THEN default ELSE value
  IN  [key |-> k, default |-> default, current |-> ref,
       isDefault |-> ref = default \/ (k \notin Lists /\ objects[ref] = objects[default])]

Load(nr) == [nr |-> nr, read |-> None, answer |-> None]

Init ==
  /\ config \in [Keys -> {None, {}}]
  /\ heap = <<>>
  /\ settings = <<>>
  /\ modal = None
  /\ saves = {}
  /\ loads = {Load(0)}
  /\ actions = 0
  /\ reads = 0
  /\ shown = 0
  /\ trouble = FALSE

-----------------------------------------------------------------------------
(* GenericSetting and the modal. *)

FirstOf(entries, k) ==
  CHOOSE i \in DOMAIN entries : entries[i].key = k /\ \A j \in 1..(i - 1) : entries[j].key # k

\* saveSetting of SettingsComponent: a copy of the entry with the value of the event,
\* sent as it is now.
Save(entries, objects, k, ref) ==
  LET idx == FirstOf(entries, k)
  IN  saves' = saves \cup
        {[nr |-> actions + 1, idx |-> idx, key |-> k, ref |-> ref,
          default |-> entries[idx].default, state |-> "sent",
          payload |-> IF ref = None THEN None ELSE objects[ref]]}

Act == actions < MaxActions /\ actions' = actions + 1

\* onToggle and onSelect: the value is replaced.
Select(i) ==
  /\ Act
  /\ settings[i].key \notin Lists
  /\ \E v \in Value :
       /\ Cardinality(v) <= 1
       /\ settings[i].current # None => v # heap[settings[i].current]
       /\ heap' = Append(heap, v)
  /\ settings' = [settings EXCEPT ![i].current = Len(heap) + 1]
  /\ Save(settings', heap', settings[i].key, Len(heap) + 1)
  /\ UNCHANGED <<engineVars, modal, loads, historyVars>>

\* resetToDefault, offered for an entry that is not the default.
ResetToDefault(i) ==
  /\ Act
  /\ ~settings[i].isDefault
  /\ settings' = [settings EXCEPT ![i].current = None, ![i].isDefault = TRUE]
  /\ Save(settings', heap, settings[i].key, None)
  /\ UNCHANGED <<engineVars, heap, modal, loads, historyVars>>

\* onArrayValueClicked: the modal edits the array the component has now.
OpenModal(i) ==
  /\ modal = None
  /\ actions < MaxActions
  /\ settings[i].key \in Lists
  /\ settings[i].current # None
  /\ modal' = [key |-> settings[i].key, ref |-> settings[i].current, alive |-> TRUE]
  /\ UNCHANGED <<engineVars, heap, settings, saves, loads, actions, historyVars>>

\* cancel: the only way out that saves nothing.
Cancel ==
  /\ modal # None
  /\ modal' = None
  /\ UNCHANGED <<engineVars, heap, settings, saves, loads, actions, historyVars>>

\* confirm and deleteAndClose change a rule of the modal's array, the back button closes
\* it as it is; the component, if it is still there, then saves the array it has.
Confirm ==
  /\ Act
  /\ modal # None
  /\ \E v \in Value :
       /\ Cardinality((v \ heap[modal.ref]) \cup (heap[modal.ref] \ v)) <= 1
       /\ heap' = [heap EXCEPT ![modal.ref] = v]
  /\ modal' = None
  /\ IF modal.alive
       THEN LET ref == settings[FirstOf(settings, modal.key)].current
            IN  /\ Save(settings, heap', modal.key, ref)
                /\ trouble' = (trouble \/ ref # modal.ref)
       ELSE UNCHANGED saves /\ trouble' = TRUE
  /\ UNCHANGED <<engineVars, settings, loads, shown>>

\* handleReorder swaps two rules of the array and saves it.
HandleReorder(i) ==
  /\ Act
  /\ settings[i].key \in Lists
  /\ settings[i].current # None /\ Cardinality(heap[settings[i].current]) > 1
  /\ Save(settings, heap, settings[i].key, settings[i].current)
  /\ UNCHANGED <<engineVars, heap, settings, modal, loads, historyVars>>

-----------------------------------------------------------------------------
(* SettingsComponent and ConfigService. *)

\* Wrong: a component whose setting has been overwritten is kept.
KeepMounted(entries) == modal

\* The components of settings that are not listed any more are destroyed.
Mounted(entries) ==
  IF modal = None THEN None
  ELSE [modal EXCEPT !.alive = @ /\ \E i \in DOMAIN entries : entries[i].key = modal.key]

\* Wrong: a list is taken to be shown as it was saved, and only the rest loaded again.
LoadUnlessList(s) ==
  /\ s \in saves /\ s.state = "ok"
  /\ saves' = saves \ {s}
  /\ settings' = [settings EXCEPT ![s.idx] = Entry(s.key, s.ref, s.default, heap)]
  /\ modal' = Mounted(settings')
  /\ loads' = IF s.key \in Lists THEN loads ELSE loads \cup {Load(s.nr)}
  /\ UNCHANGED <<engineVars, heap, actions, historyVars>>

\* The update has succeeded: the copy is written to the index found when it was sent,
\* whatever the list is now, and the settings are loaded.
Accepted(s) ==
  /\ s \in saves /\ s.state = "ok"
  /\ saves' = saves \ {s}
  /\ settings' = [settings EXCEPT ![s.idx] = Entry(s.key, s.ref, s.default, heap)]
  /\ modal' = Mounted(settings')
  /\ loads' = loads \cup {Load(s.nr)}
  /\ UNCHANGED <<engineVars, heap, actions, historyVars>>

\* The update was refused: nothing is done, the entry keeps what it shows.
Rejected(s) ==
  /\ s \in saves /\ s.state = "error"
  /\ saves' = saves \ {s}
  /\ trouble' = TRUE
  /\ UNCHANGED <<engineVars, heap, settings, modal, loads, actions, shown>>

\* Of every entry, its value and its default.
Objects(answer) ==
  FlattenSeq([i \in DOMAIN answer |->
                <<IF answer[i].value = None THEN Default ELSE answer[i].value, Default>>])

\* Wrong: the component keeps a current value it has.
ShowNew(load) ==
  /\ load \in loads /\ load.read # None
  /\ loads' = loads \ {load}
  /\ heap' = heap \o Objects(load.answer)
  /\ settings' = [i \in DOMAIN load.answer |->
       LET value == IF load.answer[i].value = None THEN None ELSE Len(heap) + 2*i - 1
       IN  IF i \in DOMAIN settings /\ settings[i].key = load.answer[i].key
             THEN settings[i]
             ELSE Entry(load.answer[i].key, value, Len(heap) + 2*i, heap')]
  /\ modal' = Mounted(settings')
  /\ trouble' = (trouble \/ load.read < shown)
  /\ shown' = load.read
  /\ UNCHANGED <<engineVars, saves, actions>>

\* A query is complete: every entry is a new object, and its component shows it.
Loaded(load) ==
  /\ load \in loads /\ load.read # None
  /\ loads' = loads \ {load}
  /\ heap' = heap \o Objects(load.answer)
  /\ settings' = [i \in DOMAIN load.answer |->
       LET value == IF load.answer[i].value = None THEN None ELSE Len(heap) + 2*i - 1
       IN  Entry(load.answer[i].key, value, Len(heap) + 2*i, heap')]
  /\ modal' = Mounted(settings')
  /\ trouble' = (trouble \/ load.read < shown)
  /\ shown' = load.read
  /\ UNCHANGED <<engineVars, saves, actions>>

-----------------------------------------------------------------------------
(* The engine. *)

Answer(s) ==
  /\ s \in saves /\ s.state = "sent"
  /\ IF s.payload # None /\ s.payload \cap BadRules # {}
       THEN /\ saves' = (saves \ {s}) \cup {[s EXCEPT !.state = "error"]}
            /\ UNCHANGED config
       ELSE /\ saves' = (saves \ {s}) \cup {[s EXCEPT !.state = "ok"]}
            /\ config' = [config EXCEPT ![s.key] = s.payload]
  /\ UNCHANGED <<heap, settings, modal, loads, actions, reads, historyVars>>

\* The options are kept in a map: each answer has an order of its own.
Read(load) ==
  /\ load \in loads /\ load.read = None
  /\ reads' = reads + 1
  /\ \E order \in Orders :
       loads' = (loads \ {load}) \cup
         {[load EXCEPT !.read = reads + 1,
                       !.answer = [i \in DOMAIN order |->
                                     [key |-> order[i], value |-> config[order[i]]]]]}
  /\ UNCHANGED <<config, heap, settings, modal, saves, actions, historyVars>>

User ==
  \/ \E i \in DOMAIN settings :
       Select(i) \/ ResetToDefault(i) \/ OpenModal(i) \/ HandleReorder(i)
  \/ Confirm \/ Cancel

SaveStep(nr) == \E s \in saves : s.nr = nr /\ (Answer(s) \/ Accepted(s) \/ Rejected(s))
LoadStep(nr) == \E load \in loads : load.nr = nr /\ (Read(load) \/ Loaded(load))

Next ==
  \/ User
  \/ \E nr \in 0..MaxActions : SaveStep(nr) \/ LoadStep(nr)

\* The engine answers and the page handles what it gets; the user need not do anything.
Spec == Init /\ [][Next]_vars
FairSpec == Spec /\ \A nr \in 0..MaxActions : WF_vars(SaveStep(nr)) /\ WF_vars(LoadStep(nr))

-----------------------------------------------------------------------------
(* Properties. *)

TypeOK ==
  /\ config \in [Keys -> Value \cup {None}]
  /\ heap \in Seq(Value)
  /\ \A i \in DOMAIN settings :
       /\ settings[i].key \in Keys
       /\ settings[i].current \in Refs \cup {None}
  /\ modal # None =>
       /\ modal.ref \in Refs
       /\ modal.alive => \E i \in DOMAIN settings : settings[i].key = modal.key
  /\ \A s \in saves : s.idx \in DOMAIN settings /\ s.ref \in Refs \cup {None}
  /\ actions \in 0..MaxActions
  /\ \A load \in loads : load.read \in 1..reads \cup {None}
  /\ trouble \in BOOLEAN

\* A setting that was overwritten at an index of an older list comes back: the page does
\* not go on without one of the settings, or with one of them twice.
Complete == {settings[i].key : i \in DOMAIN settings} = Keys /\ Len(settings) = Cardinality(Keys)
Repaired == ~Complete ~> Complete

\* Once the user has stopped, the page shows what the engine has, unless an edit was
\* refused, an edit was lost to a reload, or a load was overtaken by a later one.
InSync ==
  \A i \in DOMAIN settings :
    settings[i].current # None /\ heap[settings[i].current] = Saved(settings[i].key)
SettlesInSync == []<>(trouble \/ (Complete /\ InSync))
=============================================================================
