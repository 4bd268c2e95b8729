----------------------------- MODULE Conversions -----------------------------
(***************************************************************************)
(* The pure functions of the UI on bounded inputs: an input of one of them *)
(* is chosen, and a step computes what it returns.                         *)
(***************************************************************************)
EXTENDS Integers, Sequences, FiniteSets, SequencesExt, FiniteSetsExt

CONSTANTS
  None, Throws,     \* undefined, and a function that throws
  Pieces,           \* what texts are made of, between separators
  Names,            \* members of the maps of a profile
  Leaves,           \* their values
  SettingLists,     \* lists of settings, as SettingsGroups has them
  SubsystemLists,   \* lists of subsystems
  Hidden, Core,     \* as in SettingsGroups
  Short, Long, Window,   \* as in Netquery
  Now,              \* when a chart is made
  MaxPoints         \* bound: points in the answer of the engine

VARIABLES input, output   \* output is None before the step

vars == <<input, output>>

Wire    == INSTANCE WireFormat
Profile == INSTANCE ProfileConfig
View    == INSTANCE SettingsGroups
Shield  == INSTANCE SecurityLock
Query   == INSTANCE Netquery

-----------------------------------------------------------------------------
(* Inputs. *)

Piece == [text : Pieces]
Texts == {<<p>> : p \in Piece} \cup {<<p, q>> : p, q \in Piece}

Leaf(value) == [leaf |-> value]
Maps(nodes) == UNION {{[map |-> f] : f \in [keys -> nodes]} : keys \in SUBSET Names}
Trees == Maps({Leaf(v) : v \in Leaves} \cup Maps({Leaf(v) : v \in Leaves}))
Paths == UNION {[1..n -> Names] : n \in 1..3}

Failures == SUBSET {0, 1, 2, 3}

\* One or two connections; the points of the engine, one at a time, by time.
Conns == {{}} \cup {{c, d} : c \in {c \in Query!Connections(Names, {"x"}) : c.id = 1},
                          d \in {d \in Query!Connections(Names, {"x"}) :
                                  d.id = 2 /\ d.verdict \in {"Accept", "Failed"}}}
Times == UNION {kSubset(n, 0..Now) : n \in 0..MaxPoints}

Inputs ==
  [call : {"message"}, msg : Wire!Messages({"1"}, Texts)]
    \cup [call : {"profile"}, tree : Trees, path : Paths,
          value : {None} \cup {Leaf(v) : v \in Leaves}]
    \cup [call : {"settings"}, settings : SettingLists, subsystems : SubsystemLists]
    \cup [call : {"lock"}, status : Shield!CoreStatus, failures : Failures]
    \cup [call : {"stats"}, conns : Conns, known : {Names} \cup {{n} : n \in Names}]
    \cup [call : {"chart"}, times : Times]

Init == input \in Inputs /\ output = None

-----------------------------------------------------------------------------
(* The functions. *)

Compute(call, result) ==
  /\ output = None /\ input.call = call
  /\ output' = result
  /\ UNCHANGED input

Transmit == Compute("message", Wire!deserializeMessage(Wire!serializeMessage(input.msg)))
Store    == Compute("profile", Profile!setAppSetting(input.tree, input.path, input.value))
Show     == Compute("settings", View!Groups(input.settings, input.subsystems))
LockUp   == Compute("lock", Shield!lockLevel(input.status, input.failures))
Count    == Compute("stats", Query!getProfileStats(input.conns, input.known))
Points   == [i \in 1..Cardinality(input.times) |-> Query!Point(SetToSortSeq(input.times, <)[i], i)]
Draw     == Compute("chart", Query!activeConnectionChart(Points, Now))

Next == Transmit \/ Store \/ Show \/ LockUp \/ Count \/ Draw

Spec == Init /\ [][Next]_vars

-----------------------------------------------------------------------------
(* Properties. *)

Done(call) == output # None /\ input.call = call

\* A message arrives as it was sent, whatever separators its data contain, if its key,
\* its query or its message contains none; of those, the first piece arrives anyway,
\* and id and type of every message.
Fields == {"message", "key", "query"}
RepliesParsed ==
  Done("message") =>
    /\ output.id = input.msg.id /\ output.type = input.msg.type
    /\ DOMAIN output = DOMAIN input.msg
    /\ \A field \in Fields \cap DOMAIN output : output[field] = <<input.msg[field][1]>>
    /\ (\A field \in Fields \cap DOMAIN output : Len(input.msg[field]) = 1) => output = input.msg

\* After a setting of a profile has been set it is what the profile has at its path, and
\* all the other settings are what they were, except those of a map that it replaced;
\* after it has been deleted it is not there.  The flat profile has the same settings.
Flat(tree) == Profile!flattenProfileConfig(tree)
ProfileAgrees ==
  Done("profile") /\ output # Throws =>
    /\ Profile!getAppSetting(output, input.path) = input.value
    /\ \A path \in DOMAIN Flat(output) :
         Profile!getAppSetting(output, path) = Leaf(Flat(output)[path])
    /\ \A path \in DOMAIN Flat(input.tree) :
         \/ IsPrefix(input.path, path)
         \/ path \in DOMAIN Flat(output) /\ Flat(output)[path] = Flat(input.tree)[path]

\* Every setting is shown once in each of its subsystems, in its category, unless it is
\* hidden or the subsystem is off; of one that is off the toggle is shown.  Nothing else
\* is shown, and nothing to a user whose expertise is not enough for all of a category.
SettingsShown ==
  Done("settings") =>
    /\ \A i \in DOMAIN output : output[i].id = Core => i = Len(output) \/ i > 1
    /\ \A s \in ToSet(input.settings), subsys \in ToSet(input.subsystems) :
         LET places == {<<i, c, n>> \in (1..9) \X (1..9) \X (1..9) :
               /\ i \in DOMAIN output /\ output[i].id = subsys.id
               /\ c \in DOMAIN output[i].categories
               /\ n \in DOMAIN output[i].categories[c].settings
               /\ output[i].categories[c].settings[n] = s}
             toggles == {t \in ToSet(input.settings) :
               t.key = subsys.toggle /\ subsys.id \in t.spaces /\ t.key \notin Hidden}
             off == \E t \in toggles : t.value = FALSE \/ (t.value = None /\ ~t.default)
         IN  /\ Cardinality(places) =
                  IF /\ subsys.id \in s.spaces /\ s.key \notin Hidden
                     /\ off => s.key = subsys.toggle
                    THEN 1 ELSE 0
             /\ \A p \in places :
                  /\ output[p[1]].categories[p[2]].name = s.category
                  /\ output[p[1]].categories[p[2]].minimumExpertise <= s.expertise
                  /\ output[p[1]].minimumExpertise <= s.expertise

\* The lock never gets calmer when things get worse: neither when a subsystem fails, or
\* fails more severely, nor when a higher level is suggested.
Calm(lock) == CASE lock.displayText = "Secure" -> 2 [] lock.displayText = "Warning" -> 1
                [] lock.displayText = "Insecure" -> 0
LockNeverCalmer ==
  Done("lock") =>
    \A failure \in 0..3, level \in {0, 1, 2, 4} :
      level >= input.status.ThreatMitigationLevel =>
        Calm(Shield!lockLevel([input.status EXCEPT !.ThreatMitigationLevel = level],
                              input.failures \cup {failure})) <= Calm(output)

\* Every profile is listed that has a connection when the second query is answered, and
\* each number is that of the moment of its query: all connections, the ones that have not
\* ended, the ones through an exit node.  There is an error only if a profile has no record.
StatsAddUp ==
  Done("stats") =>
    LET count(id, P(_)) == Cardinality({c \in input.conns : c.profile = id /\ P(c)})
        ids == {c.profile : c \in {d \in input.conns : d.from <= 2}}
        stats == output[1]
    IN  /\ output = <<>> => ids = {}
        /\ output = Throws => \E c \in input.conns : c.profile \notin input.known
        /\ output \notin {<<>>, Throws} =>
             /\ ids \subseteq DOMAIN stats
             /\ \A id \in DOMAIN stats :
                  /\ stats[id].size = count(id, LAMBDA c : c.from = 1)
                  /\ stats[id].countAliveConnections = count(id, LAMBDA c : c.from <= 2 /\ c.until > 2)
                  /\ \A node \in DOMAIN stats[id].identities :
                       stats[id].identities[node] = count(id, LAMBDA c : c.exit_node = node)

\* A chart has all the points of the engine, goes forward in time, has no gap that is
\* longer than the step of the zeros, and ends less than two steps before now.
ChartFilled ==
  Done("chart") =>
    /\ SelectSeq(output, LAMBDA point : point.value # 0) = Points
    /\ \A i \in 2..Len(output) :
         output[i].timestamp - output[i - 1].timestamp \in 0..(IF output[i].value = 0 THEN Long ELSE Short)
    /\ output # <<>> /\ Last(output).timestamp >= Now - Long
=============================================================================
