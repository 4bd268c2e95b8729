---------------------------- MODULE MCConversions ----------------------------
(* Up to three settings of two subsystems, one of which has a toggle. *)
EXTENDS Conversions

CONSTANTS a, b, core, spn, toggle, other, hidden

Setting(key, spaces, category, expertise, value, default) ==
  [key |-> key, spaces |-> spaces, category |-> category, expertise |-> expertise,
   value |-> value, default |-> default]
MCToggles == {Setting(toggle, {spn}, "other", 0, v, d) : v \in {None, TRUE, FALSE}, d \in BOOLEAN}
MCOthers ==
  {Setting(k, s, c, e, v, FALSE) :
     k \in {other, hidden}, s \in SUBSET {core, spn}, c \in {"other", "expert"},
     e \in {0, 2}, v \in {None, TRUE}}
MCSettingLists ==
  {<<s>> : s \in MCToggles \cup MCOthers}
    \cup {<<s, t>> : s \in MCOthers, t \in MCToggles}
    \cup {<<t, s>> : s \in MCOthers, t \in MCToggles}

Subsystem(id, key) == [id |-> id, toggle |-> key]
MCSubsystemLists ==
  {<<Subsystem(core, None), Subsystem(spn, toggle)>>,
   <<Subsystem(spn, toggle), Subsystem(core, None)>>, <<Subsystem(spn, toggle)>>}
=============================================================================
