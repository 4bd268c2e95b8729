---------------------------- MODULE SettingsGroups ----------------------------
(***************************************************************************)
(* How ConfigSettingsViewComponent groups the settings, by subsystem and   *)
(* category, for the settings page.  A setting has the subsystems in whose *)
(* ConfigKeySpace its key lies; that is all its key is needed for, except  *)
(* that a subsystem has a ToggleOptionKey.                                 *)
(***************************************************************************)
EXTENDS Naturals, Sequences, SequencesExt

CONSTANTS
  None,     \* undefined
  Hidden,   \* keys of settings that are not shown, for now
  Core      \* the subsystem "core"

Developer == 2   \* ExpertiseLevelNumber.developer

\* Of a list of settings, the least expertise that one of them requires.
LeastExpertise(levels) ==
  FoldLeft(LAMBDA least, level : IF level < least THEN level ELSE least, Developer, levels)

NewCategory(name) == [name |-> name, minimumExpertise |-> Developer, settings |-> <<>>]

\* The setting is added to its category, which is made if there is none.
Push(categories, setting) ==
  LET cats == IF \E i \in DOMAIN categories : categories[i].name = setting.category
                THEN categories ELSE Append(categories, NewCategory(setting.category))
  IN  [i \in DOMAIN cats |->
         IF cats[i].name # setting.category THEN cats[i]
         ELSE [cats[i] EXCEPT !.settings = Append(@, setting),
                              !.minimumExpertise = LeastExpertise(<<@, setting.expertise>>)]]

\* The categories of a subsystem, in the order in which they are first met.
Categories(settings, id) ==
  FoldLeft(LAMBDA cats, s : IF id \in s.spaces /\ s.key \notin Hidden THEN Push(cats, s) ELSE cats,
           <<>>, settings)

\* Wrong: the default of the toggle counts, not its value.
OnByDefault(setting) == setting.default

On(setting) == IF setting.value # None THEN setting.value ELSE setting.default

KeepOnly(categories, key) ==
  LET kept == [i \in DOMAIN categories |->
        [categories[i] EXCEPT !.settings = SelectSeq(@, LAMBDA s : s.key = key)]]
  IN  SelectSeq(kept, LAMBDA cat : cat.settings # <<>>)

\* A subsystem whose toggle is off keeps nothing but the toggle.  The expertise of the
\* categories that are left is that of all the settings they had.
Group(subsystem, categories) ==
  LET all == FlattenSeq([i \in DOMAIN categories |-> categories[i].settings])
      disabled == \E i \in DOMAIN all : all[i].key = subsystem.toggle /\ ~On(all[i])
      shown == IF disabled THEN KeepOnly(categories, subsystem.toggle) ELSE categories
  IN  [id |-> subsystem.id, isDisabled |-> disabled, categories |-> shown,
       hasUserDefinedValues |-> \E i \in DOMAIN all : all[i].value # None,
       minimumExpertise |-> LeastExpertise([i \in DOMAIN shown |-> shown[i].minimumExpertise])]

\* Core is forced to the end, if it comes first.
CoreLast(groups) ==
  IF Len(groups) >= 2 /\ groups[1].id = Core THEN Append(Tail(groups), groups[1]) ELSE groups

\* The handler of ngOnInit: subsystems without settings are left out.
Groups(settings, subsystems) ==
  LET used == SelectSeq(subsystems, LAMBDA subsys : Categories(settings, subsys.id) # <<>>)
  IN  CoreLast([i \in DOMAIN used |-> Group(used[i], Categories(settings, used[i].id))])
=============================================================================
