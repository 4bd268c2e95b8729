------------------------------ MODULE Netquery ------------------------------
(***************************************************************************)
(* What the Netquery service makes of the rows that the engine answers:    *)
(* the statistics of the profiles, from three queries that are answered    *)
(* one after the other, and the chart of the active connections.           *)
(*                                                                         *)
(* The engine's tables are external: connections come, and end, while the  *)
(* queries are under way.                                                  *)
(***************************************************************************)
EXTENDS Integers, Sequences, FiniteSets, SequencesExt, FiniteSetsExt

CONSTANTS
  None,     \* no exit node
  Throws,   \* the observable ends with an error
  Short,    \* 10 seconds, in the unit of the timestamps
  Long,     \* 20 seconds
  Window    \* 10 minutes

\* A connection is there from one of the queries on, and has ended from one of them on.
Connections(profiles, nodes) ==
  {c \in [id : {1, 2}, profile : profiles, verdict : {"Undeterminable", "Accept", "Drop", "Failed"},
          exit_node : nodes \cup {None}, from : 1..3, until : 2..4] : c.from < c.until}

At(conns, query) == {c \in conns : c.from <= query}

-----------------------------------------------------------------------------
(* getProfileStats. *)

\* The rows of the queries: grouped, and counted.
VerdictRows(conns) ==
  {[profile |-> c.profile, verdict |-> c.verdict,
    totalCount |-> Cardinality({d \in conns : d.profile = c.profile /\ d.verdict = c.verdict})]
   : c \in conns}

ConnRows(conns) ==
  {[profile |-> c.profile,
    totalCount |-> Cardinality({d \in conns : d.profile = c.profile}),
    countEnded |-> Cardinality({d \in conns : d.profile = c.profile /\ d.until <= 2})]
   : c \in conns}

IdentityRows(conns) ==
  {[profile |-> c.profile, exit_node |-> c.exit_node,
    totalCount |-> Cardinality({d \in conns : d.profile = c.profile /\ d.exit_node = c.exit_node})]
   : c \in {d \in conns : d.exit_node # None}}

Allowed     == {"Accept", "RerouteToNs", "RerouteToTunnel", "Undeterminable"}
Unpermitted == {"Block", "Drop", "Failed", "Undecided"}

Total(rows) == MapThenSumSet(LAMBDA row : row.totalCount, rows)

\* A profile's part of the rows.  Without a row of its own the numbers are zero.
Stats(id, verdicts, conns, identities) ==
  LET own(rows) == {row \in rows : row.profile = id}
      allowed == Total({row \in own(verdicts) : row.verdict \in Allowed})
      unpermitted == Total({row \in own(verdicts) : row.verdict \in Unpermitted})
  IN  [countAllowed |-> allowed, countUnpermitted |-> unpermitted,
       size |-> allowed + unpermitted, empty |-> allowed + unpermitted = 0,
       countAliveConnections |->
         MapThenSumSet(LAMBDA row : row.totalCount - row.countEnded, own(conns)),
       identities |-> [node \in {row.exit_node : row \in own(identities)} |->
                         Total({row \in own(identities) : row.exit_node = node})]]

\* Wrong: only profiles with a verdict are listed.
StatsOfVerdicts(verdicts, conns, identities) ==
  [id \in {row.profile : row \in verdicts} |-> Stats(id, verdicts, conns, identities)]

StatsMap(verdicts, conns, identities) ==
  [id \in {row.profile : row \in verdicts \cup conns \cup identities} |->
     Stats(id, verdicts, conns, identities)]

\* What is emitted.  The names are asked for together: one profile that cannot be loaded
\* fails them all, and without a profile forkJoin ends and emits nothing.
getProfileStats(conns, known) ==
  LET stats == StatsMap(VerdictRows(At(conns, 1)), ConnRows(At(conns, 2)), IdentityRows(At(conns, 3)))
  IN  IF DOMAIN stats = {} THEN <<>>
      ELSE IF ~(DOMAIN stats \subseteq known) THEN Throws
      ELSE <<stats>>

-----------------------------------------------------------------------------
(* activeConnectionChart. *)

Point(timestamp, value) == [timestamp |-> timestamp, value |-> value]

\* Wrong: the last zero is missing if it does not fall on the end of a step.
ZerosRoundedDown(from, to, step) == [i \in 1..((to - from) \div step) |-> Point(from + (i - 1) * step, 0)]

\* Zeros from one moment, with it, to another one, without it.
Zeros(from, to, step) ==
  [i \in 1..((to - from + step - 1) \div step) |-> Point(from + (i - 1) * step, 0)]

\* Gaps are filled with zeros, from the point before a gap on, though there is one.
activeConnectionChart(points, now) ==
  LET add(acc, point) ==
        [last |-> point.timestamp,
         data |-> (IF acc.last < point.timestamp - Short
                     THEN acc.data \o Zeros(acc.last, point.timestamp, Short) ELSE acc.data)
                  \o <<point>>]
      all == FoldLeft(add, [last |-> now - Window, data |-> <<>>], points)
  IN  IF all.last < now - Long THEN all.data \o Zeros(all.last, now, Long) ELSE all.data
=============================================================================
