---------------------------- MODULE ProfileConfig ----------------------------
(***************************************************************************)
(* The settings of an app profile (src/app/lib/app-profile.types.ts): a    *)
(* tree of maps.  A node is [leaf |-> value] or [map |-> function]; a path *)
(* is a sequence of names.  None is undefined, and null as a result.       *)
(***************************************************************************)
EXTENDS Naturals, Sequences, Functions

CONSTANTS None, Throws

isConfigMap(node) == "map" \in DOMAIN node

\* flattenProfileConfig, with mergeObjects: the leaves by their paths.
RECURSIVE flattenProfileConfig(_)
flattenProfileConfig(node) ==
  LET children == node.map
      below(key) == IF isConfigMap(children[key])
                      THEN LET flat == flattenProfileConfig(children[key])
                           IN  {<<<<key>> \o path, flat[path]>> : path \in DOMAIN flat}
                      ELSE {<<<<key>>, children[key].leaf>>}
      all == UNION {below(key) : key \in DOMAIN children}
  IN  [path \in {entry[1] : entry \in all} |->
         (CHOOSE entry \in all : entry[1] = path)[2]]

\* getAppSetting: the value at the path, be it a leaf or a map.
RECURSIVE getAppSetting(_, _)
getAppSetting(node, path) ==
  IF Head(path) \notin DOMAIN node.map THEN None
  ELSE LET value == node.map[Head(path)]
       IN  IF Len(path) = 1 THEN value
           ELSE IF ~isConfigMap(value) THEN None
           ELSE getAppSetting(value, Tail(path))

Without(map, key) == Restrict(map, DOMAIN map \ {key})
With(map, key, node) == [k \in DOMAIN map \cup {key} |-> IF k = key THEN node ELSE map[k]]
Child(node, key) == IF key \in DOMAIN node.map THEN node.map[key] ELSE [map |-> << >>]

\* Wrong: the maps on the way are always new ones.
RECURSIVE SetInNewMaps(_, _, _)
SetInNewMaps(node, path, value) ==
  IF Len(path) = 1
    THEN [map |-> IF value = None THEN Without(node.map, path[1])
                  ELSE With(node.map, path[1], value)]
  ELSE [map |-> With(node.map, path[1],
          SetInNewMaps([map |-> << >>], Tail(path), value))]

\* setAppSetting: maps on the way are made if they are not there, even to delete.  A
\* leaf on the way cannot be given a member, which throws; there is none to delete.
RECURSIVE setAppSetting(_, _, _)
setAppSetting(node, path, value) ==
  IF ~isConfigMap(node) THEN IF value = None /\ Len(path) = 1 THEN node ELSE Throws
  ELSE IF Len(path) = 1
    THEN [map |-> IF value = None THEN Without(node.map, path[1])
                  ELSE With(node.map, path[1], value)]
  ELSE LET child == setAppSetting(Child(node, path[1]), Tail(path), value)
       IN  IF child = Throws THEN Throws ELSE [map |-> With(node.map, path[1], child)]
=============================================================================
