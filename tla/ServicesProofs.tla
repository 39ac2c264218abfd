--------------------------- MODULE ServicesProofs ---------------------------
(***************************************************************************)
(* The connections of the kafka, rabbitmq and data plugins, for any names  *)
(* and any number of configured connections: no connection is lost from    *)
(* the maps before it is closed, and what the tokens give is open.         *)
(*                                                                         *)
(* The argument: a resource is in the maps from the answer that opened it, *)
(* so that every loop of onStop finds it (MapsInv); a producer or consumer *)
(* that is still connecting is the one that createConnections awaits, or   *)
(* one that somebody injected (ConnectingInv); and a loop that has ended   *)
(* left nothing open but what was injected (LoopsInv).                     *)
(*                                                                         *)
(* Then the logger, for any transports, number of entries and files: what  *)
(* a resolved call wrote, and what the rotation keeps. Between two renames *)
(* there is one gap among the files, where the next rename puts the file   *)
(* below it (GapInv), all but the current file are full (SizeInv), and so  *)
(* an entry is lost only by the first rename, of a full set (OrderInv).    *)
(*                                                                         *)
(* The sockets: which handlers a message runs. Each that the message       *)
(* is for has run, runs or waits, in one of these places (PlacesOk), and   *)
(* the loop over the expressions runs one at a time in their order, so     *)
(* that when nothing runs nothing waits (LoopOk).                          *)
(*                                                                         *)
(* The OpenAPI document, for any metadata: what is referred to has    *)
(* been described, or waits in this round or for the next (ReferencesOk),  *)
(* what was taken up once has been described or waits in this round        *)
(* (TakenUpOk), and a route is described when its turn has been            *)
(* (RoutesOk), so that with nothing left nothing is missing.               *)
(*                                                                         *)
(* Last the decorators, for any classes and hierarchies: each list of the  *)
(* heap belongs to one key and property (StoreOk), what a class pushes to  *)
(* is read as its base had it (Reread), and since a class is loaded after  *)
(* what it extends and before anything that extends it (BasesAreApplied),  *)
(* what is found of a class is what its chain collected, in the order of   *)
(* the chain (LinksInv); a name is in the registry once (RegistryInv).     *)
(*                                                                         *)
(* And the derived queries, for any columns, names and rows. A text that   *)
(* is split at a word is what is joined again, so that what is read prints *)
(* as the name (WhatIsRead); what is joined from segments without the word *)
(* splits into them, a segment of plain columns is read in one way, and no *)
(* OrderBy is in the groups, so that what is printed is read (WhatIsSaid). *)
(* A predicate has the arguments after those of the predicates before it,  *)
(* none missing, so that both engines compare the same values (SameRows).  *)
(***************************************************************************)
EXTENDS Connections, Logger, WebSocket, OpenApi, Declarations, DerivedQueries, SelectionProofs, FiniteSetTheorems, SequenceTheorems, TLAPS

Configs == [name : Names, auto : SUBSET {"producer", "consumer"}]
Phases == {"new", "creating", "registered", "started", "producers", "consumers", "connections", "stopped", "error"}
Links == {"none", "connecting", "open", "failed", "closing", "closed"}
Tokens == {"unbound", "value", "factory", "requested"}

ConnectionsTypeOK ==
    /\ plugin \in {"kafka", "rabbitmq", "data"}
    /\ configs \in Seq(Configs)
    /\ phase \in Phases
    /\ todo \in [DOMAIN configs -> SUBSET Kinds]
    /\ links \in [Resources -> Links]
    /\ maps \in [Kinds -> Seq(Names)]
    /\ tokens \in [Resources -> Tokens]

\* RabbitMQ and the data sources have no producers and consumers, and a loop of their own.
PluginInv ==
    /\ plugin # "kafka" =>
        /\ \A i \in DOMAIN configs : configs[i].auto = {} /\ todo[i] \subseteq {"connection"}
        /\ \A r \in Resources : Kind(r) # "connection" => links[r] = "none"
    /\ phase \in {"producers", "consumers"} => plugin = "kafka"
    /\ phase = "connections" => plugin # "kafka"

\* A name is once in a map, and the maps hold what is open.
Distinct(names) == \A i, j \in DOMAIN names : names[i] = names[j] => i = j
MapsAreDistinct == \A kind \in Kinds : Distinct(maps[kind])
MapsInv ==
    \A r \in Resources :
        /\ links[r] \in {"open", "closing"} => r \in Held
        /\ links[r] \in {"none", "connecting", "failed"} => r \notin Held

\* Until onStop the maps hold nothing else, and createConnections leaves no connection out.
Before == {"new", "creating", "registered", "started"}
CreatingInv ==
    /\ phase \in Before => \A r \in Held : links[r] = "open"
    /\ phase = "creating" =>
        \A i \in DOMAIN configs : "connection" \notin todo[i] => <<"connection", configs[i].name>> \in Held
    /\ phase \in {"new", "creating"} => \A r \in Resources : tokens[r] = "unbound"

\* Who connects is awaited by createConnections, or was injected.
ConnectingInv ==
    \A r \in Resources :
        links[r] = "connecting" => Kind(r) # "connection" /\ (Creating(r) \/ tokens[r] = "requested")

\* What is open when its loop has ended was injected.
LoopsInv ==
    /\ phase \in {"consumers", "stopped"} =>
        \A r \in Resources : Kind(r) = "producer" /\ links[r] = "open" => tokens[r] = "requested"
    /\ phase = "stopped" =>
        \A r \in Resources : Kind(r) # "producer" /\ links[r] = "open" => tokens[r] = "requested"

ConnectionsInv ==
    /\ ConnectionsTypeOK /\ PluginInv
    /\ MapsAreDistinct /\ MapsInv
    /\ CreatingInv /\ ConnectingInv /\ LoopsInv
    /\ TokensAreConnected

-----------------------------------------------------------------------------
(* The maps.                                                               *)

LEMMA KindsAndNames ==
    /\ \A r \in Resources : Kind(r) \in Kinds /\ Name(r) \in Names /\ r = <<Kind(r), Name(r)>>
    /\ \A kind \in Kinds, name \in Names :
        <<kind, name>> \in Resources /\ Kind(<<kind, name>>) = kind /\ Name(<<kind, name>>) = name
BY DEF Resources, Kind, Name

LEMMA HeldIsInTheMap ==
    ASSUME NEW r \in Resources
    PROVE  r \in Held <=> \E i \in DOMAIN maps[Kind(r)] : maps[Kind(r)][i] = Name(r)
BY DEF Held, ToSet

LEMMA PutAdds ==
    ASSUME ConnectionsTypeOK, MapsAreDistinct, NEW r \in Resources, r \notin Held, Put(r)
    PROVE  Held' = Held \cup {r} /\ maps' \in [Kinds -> Seq(Names)] /\ MapsAreDistinct'
<1>1. Kind(r) \in Kinds /\ Name(r) \in Names
  BY KindsAndNames
<1>. DEFINE names == maps[Kind(r)]  new == Append(names, Name(r))
<1>2. /\ names \in Seq(Names) /\ new \in Seq(Names)
      /\ DOMAIN names = 1 .. Len(names) /\ DOMAIN new = 1 .. Len(names) + 1 /\ Len(names) \in Nat
      /\ \A i \in 1 .. Len(names) : new[i] = names[i]
      /\ new[Len(names) + 1] = Name(r)
  BY <1>1 DEF ConnectionsTypeOK
<1>3. maps' = [maps EXCEPT ![Kind(r)] = new]
  BY DEF Put
<1>4. maps' \in [Kinds -> Seq(Names)] /\ maps'[Kind(r)] = new
      /\ \A kind \in Kinds \ {Kind(r)} : maps'[kind] = maps[kind]
  BY <1>1, <1>2, <1>3 DEF ConnectionsTypeOK
<1>5. ToSet(new) = ToSet(names) \cup {Name(r)}
  BY <1>2 DEF ToSet
<1>6. Name(r) \notin ToSet(names)
  BY DEF Held
<1>7. Distinct(new)
  <2>1. \A i \in 1 .. Len(names) : names[i] # Name(r)
    BY <1>2, <1>6 DEF ToSet
  <2>2. Distinct(names)
    BY <1>1 DEF MapsAreDistinct
  <2>. QED  BY <1>2, <2>1, <2>2 DEF Distinct
<1>. HIDE DEF new, names
<1>8. \A s \in Resources : s \in Held' <=> s \in Held \cup {r}
  <2>. SUFFICES ASSUME NEW s \in Resources PROVE s \in Held' <=> s \in Held \cup {r}
    OBVIOUS
  <2>1. CASE Kind(s) = Kind(r)
    BY <1>4, <1>5, <2>1, KindsAndNames DEF Held, names
  <2>2. CASE Kind(s) # Kind(r)
    BY <1>4, <2>2, KindsAndNames DEF Held
  <2>. QED  BY <2>1, <2>2
<1>9. Held \subseteq Resources /\ Held' \subseteq Resources
  BY DEF Held
<1>. QED  BY <1>1, <1>4, <1>7, <1>8, <1>9 DEF MapsAreDistinct

LEMMA SuffixProperties ==
    ASSUME NEW S, NEW s \in Seq(S), NEW p \in 1 .. Len(s)
    PROVE  LET suffix == SubSeq(s, p + 1, Len(s)) IN
           /\ suffix \in Seq(S) /\ Len(suffix) = Len(s) - p
           /\ \A i \in 1 .. Len(s) - p : suffix[i] = s[p + i]
<1>1. PICK n \in Nat : n = Len(s)
  OBVIOUS
<1>2. PICK m \in 1 .. n + 1 : m = p + 1
  BY <1>1
<1>3. PICK suffix : suffix = SubSeq(s, m, n)
  OBVIOUS
<1>4. \A i \in m .. n : s[i] \in S
  BY <1>1, <1>2
<1>5. /\ suffix \in Seq(S)
      /\ Len(suffix) = IF m <= n THEN n - m + 1 ELSE 0
      /\ \A i \in 1 .. n - m + 1 : suffix[i] = s[m + i - 1]
  <2>1. m \in Int /\ n \in Int
    BY <1>1, <1>2
  <2>. QED  BY <1>3, <1>4, <2>1, SubSeqProperties
<1>6. Len(suffix) = n - p
  BY <1>1, <1>2, <1>5
<1>7. \A i \in 1 .. n - p : suffix[i] = s[p + i]
  BY <1>1, <1>2, <1>5
<1>. QED  BY <1>1, <1>2, <1>3, <1>5, <1>6, <1>7

LEMMA WithoutRemoves ==
    ASSUME NEW names \in Seq(Names), Distinct(names), NEW name \in ToSet(names)
    PROVE  /\ Without(names, name) \in Seq(Names)
           /\ Distinct(Without(names, name))
           /\ ToSet(Without(names, name)) = ToSet(names) \ {name}
<1>. DEFINE p == CHOOSE i \in DOMAIN names : names[i] = name
            n == Len(names)
            left == SubSeq(names, 1, p - 1)
            right == SubSeq(names, p + 1, n)
<1>1. p \in 1 .. n /\ names[p] = name /\ n \in Nat /\ DOMAIN names = 1 .. n
  BY DEF ToSet
<1>2. Without(names, name) = left \o right
  BY DEF Without, RemoveAt
<1>. HIDE DEF p
<1>3. left \in Seq(Names) /\ Len(left) = p - 1 /\ \A i \in 1 .. p - 1 : left[i] = names[i]
  BY <1>1
<1>4. right \in Seq(Names) /\ Len(right) = n - p /\ \A i \in 1 .. n - p : right[i] = names[p + i]
  BY <1>1, SuffixProperties
<1>. HIDE DEF n, left, right
<1>. DEFINE rest == left \o right
<1>5. rest \in Seq(Names) /\ DOMAIN rest = 1 .. n - 1
  BY <1>1, <1>3, <1>4, ConcatProperties
<1>6. \A i \in 1 .. n - 1 : rest[i] = IF i < p THEN names[i] ELSE names[i + 1]
  <2>1. ASSUME NEW i \in 1 .. p - 1 PROVE rest[i] = names[i]
    BY <1>1, <1>3, <1>4, ConcatProperties
  <2>2. ASSUME NEW i \in p .. n - 1 PROVE rest[i] = names[i + 1]
    <3>1. i - (p - 1) \in 1 .. n - p /\ p + (i - (p - 1)) = i + 1
      BY <1>1
    <3>2. rest[i] = right[i - (p - 1)]
      BY <1>1, <1>3, <1>4, <3>1, ConcatProperties
    <3>3. right[i - (p - 1)] = names[p + (i - (p - 1))]
      BY <1>4, <3>1
    <3>. QED  BY <3>1, <3>2, <3>3
  <2>. HIDE DEF rest
  <2>3. \A i \in 1 .. n - 1 : i \in 1 .. p - 1 <=> i < p
    BY <1>1
  <2>4. \A i \in 1 .. n - 1 : i \in p .. n - 1 <=> ~(i < p)
    BY <1>1
  <2>. QED  BY <2>1, <2>2, <2>3, <2>4
<1>. HIDE DEF rest
<1>7. Distinct(rest)
  <2>. SUFFICES ASSUME NEW i \in 1 .. n - 1, NEW j \in 1 .. n - 1, rest[i] = rest[j] PROVE i = j
    BY <1>5 DEF Distinct
  <2>1. \A k, l \in 1 .. n : names[k] = names[l] => k = l
    BY <1>1 DEF Distinct
  <2>2. i \in 1 .. n /\ j \in 1 .. n /\ i + 1 \in 1 .. n /\ j + 1 \in 1 .. n
    BY <1>1
  <2>. QED  BY <1>1, <1>6, <2>1, <2>2
<1>8. ASSUME NEW i \in 1 .. n, i # p PROVE names[i] \in ToSet(rest)
  <2>. DEFINE j == IF i < p THEN i ELSE i - 1
  <2>1. j \in 1 .. n - 1 /\ (IF j < p THEN j ELSE j + 1) = i
    BY <1>1, <1>8
  <2>. QED  BY <1>5, <1>6, <2>1 DEF ToSet
<1>9. \A i \in 1 .. n : names[i] = name => i = p
  BY <1>1 DEF Distinct
<1>10. \A i \in 1 .. n - 1 : rest[i] \in ToSet(names) \ {name}
  <2>. SUFFICES ASSUME NEW i \in 1 .. n - 1 PROVE rest[i] \in ToSet(names) \ {name}
    OBVIOUS
  <2>. DEFINE j == IF i < p THEN i ELSE i + 1
  <2>1. j \in 1 .. n /\ j # p
    BY <1>1
  <2>. QED  BY <1>1, <1>6, <1>9, <2>1 DEF ToSet
<1>11. ToSet(rest) = ToSet(names) \ {name}
  BY <1>1, <1>5, <1>8, <1>10 DEF ToSet
<1>. QED  BY <1>2, <1>5, <1>7, <1>11 DEF rest

LEMMA RemovedIsGone ==
    ASSUME ConnectionsTypeOK, MapsAreDistinct, plugin # "kafka",
           NEW r \in Held, maps' = RemovedWhenClosed(r)
    PROVE  Held' = Held \ {r} /\ maps' \in [Kinds -> Seq(Names)] /\ MapsAreDistinct'
<1>1. r \in Resources /\ Kind(r) \in Kinds /\ Name(r) \in Names /\ Name(r) \in ToSet(maps[Kind(r)])
  BY KindsAndNames DEF Held
<1>. DEFINE names == maps[Kind(r)]  new == Without(names, Name(r))
<1>2. names \in Seq(Names) /\ Distinct(names)
  BY <1>1 DEF ConnectionsTypeOK, MapsAreDistinct
<1>3. new \in Seq(Names) /\ Distinct(new) /\ ToSet(new) = ToSet(names) \ {Name(r)}
  BY <1>1, <1>2, WithoutRemoves
<1>4. maps' = [maps EXCEPT ![Kind(r)] = new]
  BY DEF RemovedWhenClosed
<1>. HIDE DEF new
<1>5. maps' \in [Kinds -> Seq(Names)] /\ maps'[Kind(r)] = new
      /\ \A kind \in Kinds \ {Kind(r)} : maps'[kind] = maps[kind]
  BY <1>1, <1>3, <1>4 DEF ConnectionsTypeOK
<1>6. \A s \in Resources : s \in Held' <=> s \in Held \ {r}
  <2>. SUFFICES ASSUME NEW s \in Resources PROVE s \in Held' <=> s \in Held \ {r}
    OBVIOUS
  <2>1. CASE Kind(s) = Kind(r)
    BY <1>1, <1>3, <1>5, <2>1, KindsAndNames DEF Held
  <2>2. CASE Kind(s) # Kind(r)
    BY <1>5, <2>2, KindsAndNames DEF Held
  <2>. QED  BY <2>1, <2>2
<1>7. Held \subseteq Resources /\ Held' \subseteq Resources
  BY DEF Held
<1>. QED  BY <1>3, <1>5, <1>6, <1>7 DEF MapsAreDistinct

LEMMA ClearedIsGone ==
    ASSUME ConnectionsTypeOK, MapsAreDistinct, NEW kinds, maps' = Cleared(kinds)
    PROVE  Held' = {r \in Held : Kind(r) \notin kinds} /\ maps' \in [Kinds -> Seq(Names)] /\ MapsAreDistinct'
<1>1. ToSet(<<>>) = {} /\ <<>> \in Seq(Names) /\ Distinct(<<>>)
  BY DEF ToSet, Distinct
<1>2. \A kind \in Kinds : maps'[kind] = IF kind \in kinds THEN <<>> ELSE maps[kind]
  BY DEF Cleared
<1>3. maps' \in [Kinds -> Seq(Names)]
  BY <1>1, <1>2 DEF Cleared, ConnectionsTypeOK
<1>4. MapsAreDistinct'
  BY <1>1, <1>2 DEF MapsAreDistinct
<1>5. \A r \in Resources : r \in Held' <=> r \in Held /\ Kind(r) \notin kinds
  BY <1>1, <1>2, KindsAndNames DEF Held
<1>6. Held \subseteq Resources /\ Held' \subseteq Resources
  BY DEF Held
<1>. QED  BY <1>3, <1>4, <1>5, <1>6

LEMMA SameMaps ==
    ASSUME maps' = maps PROVE Held' = Held /\ (MapsAreDistinct => MapsAreDistinct')
BY DEF Held, MapsAreDistinct

\* A loop that ends has visited all that is open.
LEMMA EndedLoopLeavesNothingOpen ==
    ASSUME ConnectionsTypeOK, MapsInv, NEW loop \in Loops, LoopEnds(loop),
           NEW r \in Resources, Kind(r) = KindOf(loop)
    PROVE  links[r] # "open"
<1>. SUFFICES ASSUME links[r] = "open" PROVE FALSE
  OBVIOUS
<1>1. PICK i \in DOMAIN maps[Kind(r)] : maps[Kind(r)][i] = Name(r)
  BY HeldIsInTheMap DEF MapsInv
<1>2. i \in Unvisited(Kind(r))
  BY <1>1, KindsAndNames DEF Unvisited
<1>. QED  BY <1>2 DEF LoopEnds

-----------------------------------------------------------------------------
(* createConnections awaits one resource at a time.                        *)

LEMMA OneIsCreated ==
    ASSUME ConnectionsTypeOK, NEW r \in Resources, NEW s \in Resources, Creating(r), Creating(s)
    PROVE  r = s
<1>1. PICK i \in DOMAIN configs : IsNext(i, r)
  BY DEF Creating
<1>2. PICK j \in DOMAIN configs : IsNext(j, s)
  BY DEF Creating
<1>3. i \in Nat /\ j \in Nat /\ 1 <= i /\ 1 <= j
  BY DEF ConnectionsTypeOK
<1>4. ~(i < j) /\ ~(j < i)
  BY <1>1, <1>2, <1>3 DEF IsNext
<1>. QED  BY <1>1, <1>2, <1>3, <1>4 DEF IsNext

LEMMA LoopTakesOne ==
    ASSUME ConnectionsTypeOK, NEW r \in Resources, LoopGoesOn(r)
    PROVE  /\ todo' \in [DOMAIN configs -> SUBSET Kinds]
           /\ \A i \in DOMAIN configs : todo'[i] \subseteq todo[i]
           /\ \A i \in DOMAIN configs : "connection" \in todo[i] \ todo'[i] =>
                r = <<"connection", configs[i].name>>
           /\ ~Creating(r) => todo' = todo
<1>1. \A i \in DOMAIN configs :
        /\ IsNext(i, r) /\ "connection" \in todo[i] => r = <<"connection", configs[i].name>>
        /\ todo'[i] = IF Creating(r) /\ IsNext(i, r) THEN todo[i] \ {Kind(r)} ELSE todo[i]
  BY DEF LoopGoesOn, IsNext, First
<1>. QED  BY <1>1 DEF LoopGoesOn, ConnectionsTypeOK

LEMMA CreatingIsKept ==
    ASSUME NEW r \in Resources, UNCHANGED <<phase, todo, configs>>, Creating(r)
    PROVE  Creating(r)'
BY DEF Creating, IsNext

LEMMA NothingIsCreated ==
    ASSUME NEW r \in Resources, AllCreated
    PROVE  ~Creating(r)
BY DEF AllCreated, Creating, IsNext

-----------------------------------------------------------------------------
(* onRegister.                                                             *)

LEMMA OnRegisterKeeps ==
    ASSUME ConnectionsInv, OnRegister
    PROVE  ConnectionsInv'
<1>1. Held' = Held /\ MapsAreDistinct' /\ \A r \in Resources : ~Creating(r)
  BY SameMaps DEF OnRegister, ConnectionsInv, Creating
<1>2. \A i \in DOMAIN configs : configs[i] \in Configs
  BY DEF ConnectionsInv, ConnectionsTypeOK
<1>3. ConnectionsTypeOK'
  BY <1>2 DEF OnRegister, ConnectionsInv, ConnectionsTypeOK, Configs, Kinds, Phases
<1>4. PluginInv'
  BY DEF OnRegister, ConnectionsInv, PluginInv, ConnectionsTypeOK
<1>5. MapsInv' /\ CreatingInv'
  BY <1>1 DEF OnRegister, ConnectionsInv, MapsInv, CreatingInv, Before
<1>6. ConnectingInv' /\ LoopsInv' /\ TokensAreConnected'
  BY <1>1 DEF OnRegister, ConnectionsInv, ConnectingInv, LoopsInv, TokensAreConnected
<1>. QED  BY <1>1, <1>3, <1>4, <1>5, <1>6 DEF ConnectionsInv

LEMMA DuplicateNameKeeps ==
    ASSUME ConnectionsInv, NEW r \in Resources, DuplicateName(r)
    PROVE  ConnectionsInv'
<1>1. Held' = Held /\ MapsAreDistinct'
  BY SameMaps DEF DuplicateName, ConnectionsInv
<1>2. ConnectionsTypeOK' /\ PluginInv'
  BY DEF DuplicateName, ConnectionsInv, PluginInv, ConnectionsTypeOK, Phases
<1>3. MapsInv' /\ CreatingInv' /\ LoopsInv' /\ TokensAreConnected'
  BY <1>1 DEF DuplicateName, ConnectionsInv, MapsInv, CreatingInv, Before, LoopsInv, TokensAreConnected
<1>4. \A s \in Resources : links[s] = "connecting" => tokens[s] = "requested"
  BY OneIsCreated DEF DuplicateName, ConnectionsInv, ConnectingInv
<1>5. ConnectingInv'
  BY <1>4 DEF DuplicateName, ConnectionsInv, ConnectingInv
<1>. QED  BY <1>1, <1>2, <1>3, <1>5 DEF ConnectionsInv

\* What ClientCreated, DataSourceInitialized and Connected have in common.
Opens(r) ==
    /\ links' = [links EXCEPT ![r] = "open"]
    /\ Put(r) /\ LoopGoesOn(r)
    /\ UNCHANGED <<plugin, configs, phase, tokens>>

LEMMA OpeningKeeps ==
    ASSUME ConnectionsInv, NEW r \in Resources, r \notin Held, Opens(r),
           \/ Creating(r) /\ links[r] # "connecting"
           \/ links[r] = "connecting",
           plugin # "kafka" => Kind(r) = "connection"
    PROVE  ConnectionsInv'
<1>1. Held' = Held \cup {r} /\ maps' \in [Kinds -> Seq(Names)] /\ MapsAreDistinct'
  BY PutAdds DEF Opens, ConnectionsInv
<1>2. /\ todo' \in [DOMAIN configs -> SUBSET Kinds]
      /\ \A i \in DOMAIN configs : todo'[i] \subseteq todo[i]
      /\ \A i \in DOMAIN configs : "connection" \in todo[i] \ todo'[i] => r = <<"connection", configs[i].name>>
      /\ ~Creating(r) => todo' = todo
  BY LoopTakesOne DEF Opens, ConnectionsInv
<1>3. ConnectionsTypeOK'
  BY <1>1, <1>2 DEF Opens, ConnectionsInv, ConnectionsTypeOK, Links
<1>4. PluginInv'
  BY <1>2 DEF Opens, ConnectionsInv, PluginInv, ConnectionsTypeOK
<1>5. MapsInv' /\ CreatingInv'
  BY <1>1, <1>2, KindsAndNames DEF Opens, ConnectionsInv, ConnectionsTypeOK, MapsInv, CreatingInv, Before
<1>6. ConnectingInv'
  <2>. SUFFICES ASSUME NEW s \in Resources, links[s] = "connecting", s # r
                PROVE  Kind(s) # "connection" /\ (Creating(s)' \/ tokens[s] = "requested")
    BY DEF Opens, ConnectingInv, ConnectionsInv, ConnectionsTypeOK
  <2>1. Kind(s) # "connection" /\ (Creating(s) \/ tokens[s] = "requested")
    BY DEF ConnectionsInv, ConnectingInv
  <2>2. ASSUME Creating(s) PROVE Creating(s)'
    BY <1>2, <2>2, OneIsCreated, CreatingIsKept DEF Opens, ConnectionsInv
  <2>. QED  BY <2>1, <2>2
<1>7. LoopsInv' /\ TokensAreConnected'
  BY DEF Opens, ConnectionsInv, ConnectionsTypeOK, ConnectingInv, LoopsInv, TokensAreConnected, Creating
<1>. QED  BY <1>1, <1>3, <1>4, <1>5, <1>6, <1>7 DEF ConnectionsInv

\* Without producers and consumers the loop creates connections only.
LEMMA CreatedIsConnection ==
    ASSUME ConnectionsTypeOK, PluginInv, plugin # "kafka", NEW r \in Resources, Creating(r)
    PROVE  Kind(r) = "connection"
BY KindsAndNames DEF PluginInv, Creating, IsNext, First, ConnectionsTypeOK, Kind

LEMMA ClientCreatedKeeps ==
    ASSUME ConnectionsInv, NEW r \in Resources, ClientCreated(r)
    PROVE  ConnectionsInv'
<1>. Opens(r) /\ r \notin Held /\ Creating(r) /\ Kind(r) = "connection"
  BY DEF ClientCreated, Opens
<1>. links[r] # "connecting"
  BY DEF ConnectionsInv, ConnectingInv
<1>. QED  BY OpeningKeeps

LEMMA DataSourceInitializedKeeps ==
    ASSUME ConnectionsInv, NEW r \in Resources, DataSourceInitialized(r)
    PROVE  ConnectionsInv'
<1>. Opens(r) /\ r \notin Held /\ Creating(r) /\ Kind(r) = "connection"
  BY CreatedIsConnection DEF DataSourceInitialized, Opens, ConnectionsInv
<1>. links[r] # "connecting"
  BY DEF ConnectionsInv, ConnectingInv
<1>. QED  BY OpeningKeeps

LEMMA DataSourceFailsKeeps ==
    ASSUME ConnectionsInv, NEW r \in Resources, DataSourceFails(r)
    PROVE  ConnectionsInv'
<1>1. Held' = Held /\ MapsAreDistinct'
  BY SameMaps DEF DataSourceFails, ConnectionsInv
<1>2. Kind(r) = "connection"
  BY CreatedIsConnection DEF DataSourceFails, ConnectionsInv
<1>3. ConnectionsTypeOK' /\ PluginInv'
  BY <1>2 DEF DataSourceFails, ConnectionsInv, PluginInv, ConnectionsTypeOK, Phases, Links
<1>4. MapsInv' /\ CreatingInv' /\ LoopsInv' /\ TokensAreConnected'
  BY <1>1 DEF DataSourceFails, ConnectionsInv, ConnectionsTypeOK, MapsInv, CreatingInv, Before, LoopsInv,
              TokensAreConnected
<1>5. ConnectingInv'
  BY DEF DataSourceFails, ConnectionsInv, ConnectionsTypeOK, ConnectingInv, PluginInv
<1>. QED  BY <1>1, <1>3, <1>4, <1>5 DEF ConnectionsInv

LEMMA AutoConnectKeeps ==
    ASSUME ConnectionsInv, NEW r \in Resources, AutoConnect(r)
    PROVE  ConnectionsInv'
<1>1. Held' = Held /\ MapsAreDistinct' /\ \A s \in Resources : Creating(s) => Creating(s)'
  BY SameMaps, CreatingIsKept DEF AutoConnect, ConnectionsInv
<1>2. ConnectionsTypeOK' /\ PluginInv'
  BY DEF AutoConnect, CanConnect, ConnectionsInv, PluginInv, ConnectionsTypeOK, Links
<1>3. MapsInv' /\ CreatingInv' /\ LoopsInv' /\ TokensAreConnected'
  BY <1>1 DEF AutoConnect, Creating, ConnectionsInv, ConnectionsTypeOK, MapsInv, CreatingInv, Before, LoopsInv,
              TokensAreConnected
<1>4. ConnectingInv'
  BY <1>1 DEF AutoConnect, CanConnect, ConnectionsInv, ConnectionsTypeOK, ConnectingInv
<1>. QED  BY <1>1, <1>2, <1>3, <1>4 DEF ConnectionsInv

LEMMA ConnectedKeeps ==
    ASSUME ConnectionsInv, NEW r \in Resources, Connected(r)
    PROVE  ConnectionsInv'
<1>. Opens(r) /\ links[r] = "connecting" /\ r \notin Held /\ plugin = "kafka"
  BY DEF Connected, Opens, ConnectionsInv, MapsInv, PluginInv, ConnectingInv
<1>. QED  BY OpeningKeeps

LEMMA ConnectFailsKeeps ==
    ASSUME ConnectionsInv, NEW r \in Resources, ConnectFails(r)
    PROVE  ConnectionsInv'
<1>1. Held' = Held /\ MapsAreDistinct' /\ Kind(r) # "connection" /\ plugin = "kafka"
  BY SameMaps DEF ConnectFails, ConnectionsInv, PluginInv, ConnectingInv
<1>2. /\ todo' \in [DOMAIN configs -> SUBSET Kinds]
      /\ \A i \in DOMAIN configs : "connection" \in todo[i] \ todo'[i] => r = <<"connection", configs[i].name>>
      /\ ~Creating(r) => todo' = todo
  BY LoopTakesOne DEF ConnectFails, ConnectionsInv
<1>3. ConnectionsTypeOK' /\ PluginInv'
  BY <1>1, <1>2 DEF ConnectFails, ConnectionsInv, PluginInv, ConnectionsTypeOK, Links
<1>4. MapsInv' /\ LoopsInv' /\ TokensAreConnected'
  BY <1>1 DEF ConnectFails, ConnectionsInv, ConnectionsTypeOK, MapsInv, LoopsInv, TokensAreConnected
<1>5. CreatingInv'
  BY <1>1, <1>2 DEF ConnectFails, ConnectionsInv, ConnectionsTypeOK, MapsInv, CreatingInv, Before, Kind
<1>6. ConnectingInv'
  <2>. SUFFICES ASSUME NEW s \in Resources, links[s] = "connecting", s # r
                PROVE  Kind(s) # "connection" /\ (Creating(s)' \/ tokens[s] = "requested")
    BY DEF ConnectFails, ConnectingInv, ConnectionsInv, ConnectionsTypeOK
  <2>1. Kind(s) # "connection" /\ (Creating(s) \/ tokens[s] = "requested")
    BY DEF ConnectionsInv, ConnectingInv
  <2>2. ASSUME Creating(s) PROVE Creating(s)'
    BY <1>2, <2>2, OneIsCreated, CreatingIsKept DEF ConnectFails, ConnectionsInv
  <2>. QED  BY <2>1, <2>2
<1>. QED  BY <1>1, <1>3, <1>4, <1>5, <1>6 DEF ConnectionsInv

\* What is bound is held, hence open, and each configuration has its connection.
LEMMA BindKeeps ==
    ASSUME ConnectionsInv, Bind
    PROVE  ConnectionsInv'
<1>1. Held' = Held /\ MapsAreDistinct' /\ \A r \in Resources : ~Creating(r)
  BY SameMaps, NothingIsCreated DEF Bind, ConnectionsInv
<1>2. phase = "creating" /\ \A i \in DOMAIN configs : <<"connection", configs[i].name>> \in Held
  BY DEF Bind, AllCreated, ConnectionsInv, CreatingInv
<1>3. tokens' \in [Resources -> Tokens] /\ \A r \in Resources :
        /\ tokens'[r] = "value" => r \in Held
        /\ tokens'[r] = "unbound" => (r \notin Held /\ plugin # "kafka") \/ <<"connection", Name(r)>> \notin Held
  BY <1>1 DEF Bind, KafkaTokens, RabbitMQTokens, DataTokens, Tokens
<1>4. \A i \in DOMAIN configs :
        tokens'[<<"connection", configs[i].name>>] = "value"
  <2>. SUFFICES ASSUME NEW i \in DOMAIN configs
                PROVE  tokens'[<<"connection", configs[i].name>>] = "value"
    OBVIOUS
  <2>. DEFINE r == <<"connection", configs[i].name>>
  <2>1. r \in Resources /\ r \in Held /\ <<"connection", Name(r)>> \in Held
    BY <1>2, KindsAndNames DEF Held, Name
  <2>. HIDE DEF r
  <2>2. tokens'[r] = "value"
    BY <2>1 DEF Bind, KafkaTokens, RabbitMQTokens, DataTokens
  <2>. QED  BY <2>2 DEF r
<1>5. \A i \in DOMAIN configs : \A kind \in configs[i].auto :
        plugin = "kafka" => tokens'[<<kind, configs[i].name>>] # "unbound"
  <2>. SUFFICES ASSUME NEW i \in DOMAIN configs, NEW kind \in configs[i].auto, plugin = "kafka"
                PROVE  tokens'[<<kind, configs[i].name>>] # "unbound"
    OBVIOUS
  <2>1. kind \in Kinds /\ configs[i].name \in Names
    <3>1. configs[i] \in Configs
      BY DEF ConnectionsInv, ConnectionsTypeOK
    <3>. QED  BY <3>1 DEF Configs, Kinds
  <2>2. PICK r \in Resources : r = <<kind, configs[i].name>> /\ Name(r) = configs[i].name
    BY <2>1, KindsAndNames
  <2>3. tokens'[r] # "unbound"
    BY <1>2, <1>3, <2>2
  <2>. QED  BY <2>2, <2>3
<1>6. ConnectionsTypeOK' /\ PluginInv'
  BY <1>3 DEF Bind, ConnectionsInv, PluginInv, ConnectionsTypeOK, Phases
<1>7. MapsInv' /\ CreatingInv' /\ LoopsInv'
  BY <1>1, <1>2 DEF Bind, ConnectionsInv, MapsInv, CreatingInv, Before, LoopsInv
<1>8. ConnectingInv'
  BY <1>1, <1>2 DEF Bind, ConnectionsInv, ConnectingInv, CreatingInv
<1>9. TokensAreConnected'
  <2>1. \A r \in Resources : tokens'[r] = "value" => links[r] = "open"
    BY <1>2, <1>3 DEF ConnectionsInv, CreatingInv, Before
  <2>. QED  BY <1>4, <1>5, <2>1 DEF Bind, TokensAreConnected
<1>. QED  BY <1>1, <1>6, <1>7, <1>8, <1>9 DEF ConnectionsInv

LEMMA RepositoriesFailKeeps ==
    ASSUME ConnectionsInv, RepositoriesFail
    PROVE  ConnectionsInv'
<1>1. Held' = Held /\ MapsAreDistinct' /\ \A r \in Resources : ~Creating(r)
  BY SameMaps, NothingIsCreated DEF RepositoriesFail, ConnectionsInv
<1>2. \A r \in Resources : links[r] # "connecting"
  BY <1>1 DEF RepositoriesFail, AllCreated, ConnectionsInv, ConnectingInv, CreatingInv
<1>3. ConnectionsTypeOK' /\ PluginInv'
  BY DEF RepositoriesFail, DataTokens, ConnectionsInv, PluginInv, ConnectionsTypeOK, Phases, Tokens
<1>4. MapsInv' /\ CreatingInv' /\ LoopsInv' /\ ConnectingInv' /\ TokensAreConnected'
  BY <1>1, <1>2 DEF RepositoriesFail, ConnectionsInv, MapsInv, CreatingInv, Before, LoopsInv, ConnectingInv,
                    TokensAreConnected
<1>. QED  BY <1>1, <1>3, <1>4 DEF ConnectionsInv

-----------------------------------------------------------------------------
(* The running application and onStop.                                     *)

LEMMA OnStartKeeps ==
    ASSUME ConnectionsInv, OnStart
    PROVE  ConnectionsInv'
<1>1. Held' = Held /\ MapsAreDistinct' /\ \A r \in Resources : ~Creating(r)
  BY SameMaps DEF OnStart, ConnectionsInv, Creating
<1>2. ConnectionsTypeOK' /\ PluginInv'
  BY DEF OnStart, ConnectionsInv, PluginInv, ConnectionsTypeOK, Phases
<1>3. MapsInv' /\ CreatingInv' /\ LoopsInv' /\ ConnectingInv' /\ TokensAreConnected'
  BY <1>1 DEF OnStart, ConnectionsInv, MapsInv, CreatingInv, Before, LoopsInv, ConnectingInv, TokensAreConnected
<1>. QED  BY <1>1, <1>2, <1>3 DEF ConnectionsInv

LEMMA InjectKeeps ==
    ASSUME ConnectionsInv, NEW r \in Resources, Inject(r)
    PROVE  ConnectionsInv'
<1>1. Held' = Held /\ MapsAreDistinct' /\ \A s \in Resources : ~Creating(s)
  BY SameMaps DEF Inject, Loops, ConnectionsInv, Creating
<1>2. ConnectionsTypeOK' /\ PluginInv'
  BY DEF Inject, CanConnect, ConnectionsInv, PluginInv, ConnectionsTypeOK, Links, Tokens
<1>3. MapsInv' /\ CreatingInv' /\ LoopsInv'
  BY <1>1 DEF Inject, Loops, CanConnect, ConnectionsInv, ConnectionsTypeOK, MapsInv, CreatingInv, Before, LoopsInv
<1>4. ConnectingInv'
  BY <1>1 DEF Inject, CanConnect, ConnectionsInv, ConnectionsTypeOK, ConnectingInv
<1>5. TokensAreConnected'
  <2>1. r # <<"connection", Name(r)>> /\ \A i \in DOMAIN configs : r # <<"connection", configs[i].name>>
    BY DEF Inject, CanConnect, Kind
  <2>. QED  BY <2>1 DEF Inject, ConnectionsInv, ConnectionsTypeOK, TokensAreConnected
<1>. QED  BY <1>1, <1>2, <1>3, <1>4, <1>5 DEF ConnectionsInv

LEMMA OnStopKeeps ==
    ASSUME ConnectionsInv, OnStop
    PROVE  ConnectionsInv'
<1>1. Held' = Held /\ MapsAreDistinct' /\ \A r \in Resources : ~Creating(r)
  BY SameMaps DEF OnStop, ConnectionsInv, Creating
<1>2. ConnectionsTypeOK' /\ PluginInv'
  BY DEF OnStop, ConnectionsInv, PluginInv, ConnectionsTypeOK, Phases
<1>3. MapsInv' /\ CreatingInv' /\ LoopsInv' /\ ConnectingInv' /\ TokensAreConnected'
  BY <1>1 DEF OnStop, ConnectionsInv, MapsInv, CreatingInv, Before, LoopsInv, ConnectingInv, TokensAreConnected
<1>. QED  BY <1>1, <1>2, <1>3 DEF ConnectionsInv

LEMMA CloseKeeps ==
    ASSUME ConnectionsInv, NEW r \in Resources, Close(r)
    PROVE  ConnectionsInv'
<1>1. Held' = Held /\ MapsAreDistinct' /\ phase \in Loops
  BY SameMaps DEF Close, Visits, ConnectionsInv
<1>2. links[r] = "open"
  <2>1. PICK i \in Unvisited(KindOf(phase)) : r = <<KindOf(phase), maps[KindOf(phase)][i]>>
    BY DEF Close, Visits
  <2>. QED  BY <2>1 DEF Unvisited
<1>3. ConnectionsTypeOK' /\ PluginInv'
  BY <1>2 DEF Close, ConnectionsInv, PluginInv, ConnectionsTypeOK, Links
<1>4. MapsInv' /\ CreatingInv' /\ LoopsInv' /\ ConnectingInv' /\ TokensAreConnected'
  BY <1>1, <1>2 DEF Close, Loops, Creating, ConnectionsInv, ConnectionsTypeOK, MapsInv, CreatingInv, Before,
                    LoopsInv, ConnectingInv, TokensAreConnected
<1>. QED  BY <1>1, <1>3, <1>4 DEF ConnectionsInv

\* Before onStop nothing is closing.
LEMMA ClosingIsLate ==
    ASSUME ConnectionsInv, NEW r \in Resources, links[r] = "closing"
    PROVE  r \in Held /\ phase \notin Before
BY DEF ConnectionsInv, MapsInv, CreatingInv

LEMMA ClosedKeeps ==
    ASSUME ConnectionsInv, NEW r \in Resources, Closed(r)
    PROVE  ConnectionsInv'
<1>1. r \in Held /\ phase \notin Before
  BY ClosingIsLate DEF Closed
<1>2. maps' \in [Kinds -> Seq(Names)] /\ MapsAreDistinct' /\ Held \ {r} \subseteq Held' /\ Held' \subseteq Held
  <2>1. CASE plugin = "kafka"
    BY <2>1, SameMaps DEF Closed, RemovedWhenClosed, ConnectionsInv, ConnectionsTypeOK
  <2>2. CASE plugin # "kafka"
    BY <1>1, <2>2, RemovedIsGone DEF Closed, ConnectionsInv
  <2>. QED  BY <2>1, <2>2
<1>3. ConnectionsTypeOK' /\ PluginInv'
  BY <1>2 DEF Closed, ConnectionsInv, PluginInv, ConnectionsTypeOK, Links
<1>4. MapsInv' /\ CreatingInv' /\ LoopsInv' /\ ConnectingInv' /\ TokensAreConnected'
  BY <1>1, <1>2 DEF Closed, Creating, ConnectionsInv, ConnectionsTypeOK, MapsInv, CreatingInv, Before,
                    LoopsInv, ConnectingInv, TokensAreConnected
<1>. QED  BY <1>2, <1>3, <1>4 DEF ConnectionsInv

LEMMA CloseFailsKeeps ==
    ASSUME ConnectionsInv, NEW r \in Resources, CloseFails(r)
    PROVE  ConnectionsInv'
<1>1. Held' = Held /\ MapsAreDistinct' /\ r \in Held /\ phase \notin Before
  BY SameMaps, ClosingIsLate DEF CloseFails, ConnectionsInv
<1>2. ConnectionsTypeOK' /\ PluginInv'
  BY DEF CloseFails, ConnectionsInv, PluginInv, ConnectionsTypeOK, Links, Phases
<1>3. MapsInv' /\ CreatingInv' /\ LoopsInv' /\ ConnectingInv' /\ TokensAreConnected'
  BY <1>1 DEF CloseFails, Creating, ConnectionsInv, ConnectionsTypeOK, MapsInv, CreatingInv, Before,
              LoopsInv, ConnectingInv, TokensAreConnected
<1>. QED  BY <1>1, <1>2, <1>3 DEF ConnectionsInv

LEMMA ProducersDoneKeeps ==
    ASSUME ConnectionsInv, ProducersDone
    PROVE  ConnectionsInv'
<1>1. Held' = {r \in Held : Kind(r) # "producer"} /\ maps' \in [Kinds -> Seq(Names)] /\ MapsAreDistinct'
  <2>1. Held' = {r \in Held : Kind(r) \notin {"producer"}} /\ maps' \in [Kinds -> Seq(Names)] /\ MapsAreDistinct'
    BY ClearedIsGone DEF ProducersDone, ConnectionsInv
  <2>. QED  BY <2>1
<1>2. phase = "producers" /\ \A r \in Resources : Kind(r) = "producer" => links[r] \notin {"open", "closing"}
  BY EndedLoopLeavesNothingOpen DEF ProducersDone, LoopEnds, NoneIsClosing, KindOf, Loops, ConnectionsInv
<1>3. ConnectionsTypeOK' /\ PluginInv'
  BY <1>1 DEF ProducersDone, LoopEnds, ConnectionsInv, PluginInv, ConnectionsTypeOK, Phases
<1>4. MapsInv' /\ CreatingInv' /\ LoopsInv' /\ ConnectingInv' /\ TokensAreConnected'
  BY <1>1, <1>2 DEF ProducersDone, Creating, ConnectionsInv, MapsInv, CreatingInv, Before,
                    LoopsInv, ConnectingInv, TokensAreConnected
<1>. QED  BY <1>1, <1>3, <1>4 DEF ConnectionsInv

LEMMA ConsumersDoneKeeps ==
    ASSUME ConnectionsInv, ConsumersDone
    PROVE  ConnectionsInv'
<1>1. /\ Held' = {r \in Held : Kind(r) \notin {"consumer", "connection"}}
      /\ maps' \in [Kinds -> Seq(Names)] /\ MapsAreDistinct'
  BY ClearedIsGone DEF ConsumersDone, ConnectionsInv
<1>2. phase = "consumers" /\ \A r \in Resources : Kind(r) = "consumer" => links[r] \notin {"open", "closing"}
  BY EndedLoopLeavesNothingOpen DEF ConsumersDone, LoopEnds, NoneIsClosing, KindOf, Loops, ConnectionsInv
<1>3. links' \in [Resources -> Links] /\ \A r \in Resources :
        links'[r] = IF r \in Held /\ Kind(r) = "connection" THEN "closed" ELSE links[r]
  BY DEF ConsumersDone, ConnectionsInv, ConnectionsTypeOK, Links
<1>4. \A r \in Resources : Kind(r) = "connection" => links'[r] \notin {"open", "closing"}
  BY <1>3 DEF ConnectionsInv, MapsInv
<1>5. ConnectionsTypeOK' /\ PluginInv'
  BY <1>1, <1>2, <1>3 DEF ConsumersDone, ConnectionsInv, PluginInv, ConnectionsTypeOK, Phases
<1>6. MapsInv'
  <2>1. \A r \in Resources : Kind(r) \in {"connection", "producer", "consumer"}
    BY KindsAndNames DEF Kinds
  <2>. QED  BY <1>1, <1>2, <1>3, <1>4, <2>1 DEF ConnectionsInv, MapsInv
<1>7. LoopsInv'
  <2>1. \A r \in Resources : Kind(r) \in {"connection", "producer", "consumer"}
    BY KindsAndNames DEF Kinds
  <2>. QED  BY <1>2, <1>3, <1>4, <2>1 DEF ConsumersDone, ConnectionsInv, LoopsInv
<1>8. CreatingInv' /\ ConnectingInv' /\ TokensAreConnected'
  BY <1>2, <1>3 DEF ConsumersDone, Creating, ConnectionsInv, CreatingInv, Before, ConnectingInv, TokensAreConnected
<1>. QED  BY <1>1, <1>5, <1>6, <1>7, <1>8 DEF ConnectionsInv

LEMMA ConnectionsDoneKeeps ==
    ASSUME ConnectionsInv, ConnectionsDone
    PROVE  ConnectionsInv'
<1>1. Held' = Held /\ MapsAreDistinct' /\ phase = "connections" /\ plugin # "kafka"
  BY SameMaps DEF ConnectionsDone, LoopEnds, ConnectionsInv, PluginInv
<1>2. \A r \in Resources : links[r] # "open"
  <2>1. \A r \in Resources : Kind(r) = "connection" => links[r] # "open"
    BY EndedLoopLeavesNothingOpen DEF ConnectionsDone, KindOf, Loops, ConnectionsInv
  <2>. QED  BY <1>1, <2>1 DEF ConnectionsInv, PluginInv
<1>3. ConnectionsTypeOK' /\ PluginInv'
  BY DEF ConnectionsDone, ConnectionsInv, PluginInv, ConnectionsTypeOK, Phases
<1>4. MapsInv' /\ CreatingInv' /\ LoopsInv' /\ ConnectingInv' /\ TokensAreConnected'
  BY <1>1, <1>2 DEF ConnectionsDone, Creating, ConnectionsInv, MapsInv, CreatingInv, Before,
                    LoopsInv, ConnectingInv, TokensAreConnected
<1>. QED  BY <1>1, <1>3, <1>4 DEF ConnectionsInv

-----------------------------------------------------------------------------
\* ConnectionsInv holds of every reachable state, however many connections fail
\* or are injected while the plugin starts and stops.
THEOREM ConnectionsCorrect == Spec => []ConnectionsInv
<1>1. Init => ConnectionsInv
  <2>. SUFFICES ASSUME Init PROVE ConnectionsInv
    OBVIOUS
  <2>1. configs \in Seq(Configs)
    <3>1. PICK n \in 1 .. MaxConnections : configs \in [1 .. n -> [name : Names, auto : AutoInitialize]]
      BY DEF Init
    <3>2. [name : Names, auto : AutoInitialize] \subseteq Configs
      BY DEF AutoInitialize, Configs
    <3>3. n \in Nat /\ configs \in [1 .. n -> Configs]
      BY <3>1, <3>2
    <3>. QED  BY <3>3
  <2>2. Held = {} /\ MapsAreDistinct
    BY KindsAndNames DEF Init, Held, ToSet, MapsAreDistinct, Distinct
  <2>3. ConnectionsTypeOK /\ PluginInv
    BY <2>1 DEF Init, ConnectionsTypeOK, PluginInv, Phases, Links, Tokens
  <2>4. MapsInv /\ CreatingInv /\ ConnectingInv /\ LoopsInv /\ TokensAreConnected
    BY <2>2 DEF Init, MapsInv, CreatingInv, Before, ConnectingInv, LoopsInv, TokensAreConnected
  <2>. QED  BY <2>2, <2>3, <2>4 DEF ConnectionsInv
<1>2. ConnectionsInv /\ [Next]_vars => ConnectionsInv'
  <2>. SUFFICES ASSUME ConnectionsInv, [Next]_vars PROVE ConnectionsInv'
    OBVIOUS
  <2>1. CASE OnRegister       BY <2>1, OnRegisterKeeps
  <2>2. CASE Bind             BY <2>2, BindKeeps
  <2>3. CASE RepositoriesFail BY <2>3, RepositoriesFailKeeps
  <2>4. CASE OnStart          BY <2>4, OnStartKeeps
  <2>5. CASE OnStop           BY <2>5, OnStopKeeps
  <2>6. CASE ProducersDone    BY <2>6, ProducersDoneKeeps
  <2>7. CASE ConsumersDone    BY <2>7, ConsumersDoneKeeps
  <2>8. CASE ConnectionsDone  BY <2>8, ConnectionsDoneKeeps
  <2>9. ASSUME NEW r \in Resources,
               \/ DuplicateName(r) \/ ClientCreated(r) \/ AutoConnect(r)
               \/ DataSourceInitialized(r) \/ DataSourceFails(r)
        PROVE  ConnectionsInv'
    BY <2>9, DuplicateNameKeeps, ClientCreatedKeeps, AutoConnectKeeps, DataSourceInitializedKeeps,
       DataSourceFailsKeeps
  <2>10. ASSUME NEW r \in Resources, Answers(r) \/ Inject(r) \/ Close(r)
         PROVE  ConnectionsInv'
    BY <2>10, ConnectedKeeps, ConnectFailsKeeps, ClosedKeeps, CloseFailsKeeps, InjectKeeps, CloseKeeps DEF Answers
  <2>11. CASE UNCHANGED vars
    <3>1. Held' = Held /\ MapsAreDistinct' /\ \A r \in Resources : Creating(r) => Creating(r)'
      BY <2>11, SameMaps, CreatingIsKept DEF vars, ConnectionsInv
    <3>. QED
      BY <2>11, <3>1 DEF vars, ConnectionsInv, ConnectionsTypeOK, PluginInv, MapsInv, CreatingInv,
                         ConnectingInv, LoopsInv, TokensAreConnected
  <2>. QED
    BY <2>1, <2>2, <2>3, <2>4, <2>5, <2>6, <2>7, <2>8, <2>9, <2>10, <2>11 DEF Next, Register, Destroy
<1>. QED  BY <1>1, <1>2, PTL DEF Spec

\* The managers never lose sight of a connection they opened, and an onStop that
\* resolved has closed all that was not injected (destroyConnections).
THEOREM NothingLeaksCorrect == Spec => []NothingLeaks
<1>1. ConnectionsInv => NothingLeaks
  <2>. SUFFICES ASSUME ConnectionsInv PROVE NothingLeaks
    OBVIOUS
  <2>1. OpenIsHeld
    BY DEF ConnectionsInv, MapsInv, OpenIsHeld
  <2>2. StoppedIsClosed
    BY DEF ConnectionsInv, LoopsInv, ConnectingInv, Creating, StoppedIsClosed
  <2>. QED  BY <2>1, <2>2 DEF NothingLeaks
<1>. QED  BY <1>1, ConnectionsCorrect, PTL

\* Until onStop a token that is bound to a value gives a connection that is open,
\* and every configured connection has its token (startConnectionManager).
THEOREM TokensAreConnectedCorrect == Spec => []TokensAreConnected
<1>1. ConnectionsInv => TokensAreConnected
  BY DEF ConnectionsInv
<1>. QED  BY <1>1, ConnectionsCorrect, PTL

-----------------------------------------------------------------------------
(* Files: what they hold, as a function from their numbers.                *)

\* An entry is in one place only.
Once(c) ==
    \A m, n \in 0 .. MaxFiles : \A x \in 1 .. Len(c[m]), y \in 1 .. Len(c[n]) :
        c[m][x] = c[n][y] => m = n /\ x = y

\* From the oldest file to the current one the entries are in their order.
InOrder(c) ==
    \A m, n \in 0 .. MaxFiles : \A x \in 1 .. Len(c[m]), y \in 1 .. Len(c[n]) :
        m > n \/ (m = n /\ x < y) => c[m][x] < c[n][y]

Entries(c) == {i \in Nat : \E n \in 0 .. MaxFiles : \E x \in 1 .. Len(c[n]) : c[n][x] = i}

\* The file n becomes n + 1, if there is one.
Shifted(c, d, n) ==
    \/ c[n] = <<>> /\ d = c
    \/ /\ c[n] # <<>> /\ d[n] = <<>> /\ d[n + 1] = c[n]
       /\ \A m \in (0 .. MaxFiles) \ {n, n + 1} : d[m] = c[m]

AppendedTo(c, d, i) ==
    /\ d[0] = Append(c[0], i)
    /\ \A m \in 1 .. MaxFiles : d[m] = c[m]

-----------------------------------------------------------------------------
(* Logger: the invariant.                                                  *)

contents == [n \in 0 .. MaxFiles |-> Contents(n)]
Steps == ({"begun", "append", "done", "failed"} \X {0}) \cup ({"rename"} \X (0 .. MaxFiles - 1))

LoggerTypeOK ==
    /\ overlap \in Nat
    /\ calls \in Seq([level : Nat, state : {"pending", "resolved", "rejected"}])
    /\ writes \in Seq([Transports -> Steps])
    /\ Len(writes) = Len(calls)
    /\ files \in [0 .. MaxFiles -> (Seq(Nat) \ {<<>>}) \cup {Missing}]
    /\ others \in [Transports \ {Rotating} -> Seq(Nat)]

\* Whoever is done has received the entry, once, if the level asks for it.
ReceivedInv ==
    \A k \in Transports \ {Rotating} :
        /\ \A x \in DOMAIN others[k] : others[k][x] \in DOMAIN calls /\ IsAt(others[k][x], k, "done")
        /\ \A x, y \in DOMAIN others[k] : others[k][x] = others[k][y] => x = y
        /\ \A i \in DOMAIN calls :
                IsLogged(calls[i].level, k) /\ IsAt(i, k, "done") => \E x \in DOMAIN others[k] : others[k][x] = i

\* A call that resolved is done everywhere, and only what is logged is to do.
ResolvedInv ==
    \A i \in DOMAIN calls, k \in Transports :
        /\ calls[i].state = "resolved" => IsAt(i, k, "done")
        /\ IsLogged(calls[i].level, k) \/ IsAt(i, k, "done")

PlacesInv == Once(contents) /\ Entries(contents) \subseteq InFile

\* What the last call does to the files; the ones before it are resolved.
LastIsAt(step) == calls # <<>> /\ Rotating \in Transports /\ writes[Len(calls)][Rotating] = step
IsHole(n) == LastIsAt(<<"rename", n - 1>>) \/ (n = 0 /\ LastIsAt(<<"append", 0>>))

AwaitedInv ==
    /\ \A i \in DOMAIN calls :
            calls[i].state # "rejected" /\ (i # Len(calls) => calls[i].state = "resolved")
    /\ \A i \in DOMAIN calls, k \in Transports : ~IsAt(i, k, "failed")

\* There is no gap between the files, but for the one a rename leaves behind.
GapInv ==
    /\ \A j, k \in 0 .. MaxFiles : j < k /\ contents[j] = <<>> /\ contents[k] # <<>> => IsHole(j)
    /\ \A n \in 0 .. MaxFiles - 1 :
            LastIsAt(<<"rename", n>>) /\ n + 1 # MaxFiles => contents[n + 1] = <<>>

\* Only the current file is not full.
SizeInv ==
    /\ \A n \in 1 .. MaxFiles : contents[n] # <<>> => Len(contents[n]) = MaxSize
    /\ Len(contents[0]) <= MaxSize
    /\ \A n \in 0 .. MaxFiles - 1 : LastIsAt(<<"rename", n>>) => Len(contents[0]) = MaxSize
    /\ LastIsAt(<<"append", 0>>) => Len(contents[0]) < MaxSize

\* What was lost is the oldest, and there were enough to fill the files.
OrderInv ==
    /\ InOrder(contents)
    /\ \A i \in InFile, j \in Entries(contents) : i > j => i \in Entries(contents)
    /\ Entries(contents) # InFile => Cardinality(InFile) > MaxSize * MaxFiles

LoggerInv ==
    /\ LoggerTypeOK /\ ReceivedInv /\ ResolvedInv /\ PlacesInv
    /\ IsAwaited => AwaitedInv /\ GapInv /\ SizeInv /\ OrderInv

-----------------------------------------------------------------------------
(* Files: what a rename and a write do to them.                            *)

FileContents == [0 .. MaxFiles -> Seq(Nat)]

LEMMA FileIsSeq ==
    ASSUME NEW c \in FileContents, NEW m \in 0 .. MaxFiles
    PROVE  /\ c[m] \in Seq(Nat) /\ Len(c[m]) \in Nat
           /\ \A x \in 1 .. Len(c[m]) : c[m] # <<>> /\ c[m][x] \in Nat
<1>1. c[m] \in Seq(Nat)
  BY DEF FileContents
<1>. QED  BY <1>1

\* A place after a shift is that place, or the one below it, before.
LEMMA ShiftedPlace ==
    ASSUME LoggerAssumptions, NEW c \in FileContents, NEW d \in FileContents, NEW n \in 0 .. MaxFiles - 1,
           Shifted(c, d, n), c[n] # <<>>, NEW m \in 0 .. MaxFiles, d[m] # <<>>
    PROVE  /\ m = n + 1 => d[m] = c[n]
           /\ m # n + 1 => d[m] = c[m] /\ m # n
<1>. MaxFiles \in Nat /\ n \in Nat /\ n + 1 \in 0 .. MaxFiles
  BY DEF LoggerAssumptions
<1>. QED  BY DEF Shifted

LEMMA ShiftKeepsOnce ==
    ASSUME LoggerAssumptions, NEW c \in FileContents, NEW d \in FileContents, NEW n \in 0 .. MaxFiles - 1,
           Shifted(c, d, n), Once(c)
    PROVE  Once(d)
<1>1. CASE d = c
  BY <1>1
<1>2. CASE c[n] # <<>>
  <2>. SUFFICES ASSUME NEW m \in 0 .. MaxFiles, NEW k \in 0 .. MaxFiles,
                       NEW x \in 1 .. Len(d[m]), NEW y \in 1 .. Len(d[k]), d[m][x] = d[k][y]
                PROVE  m = k /\ x = y
    BY DEF Once
  <2>. DEFINE a == IF m = n + 1 THEN n ELSE m
              b == IF k = n + 1 THEN n ELSE k
  <2>0. MaxFiles \in Nat /\ n \in 0 .. MaxFiles
    BY DEF LoggerAssumptions
  <2>1. d[m] # <<>> /\ d[k] # <<>>
    BY FileIsSeq
  <2>2. a \in 0 .. MaxFiles /\ b \in 0 .. MaxFiles /\ d[m] = c[a] /\ d[k] = c[b] /\ m # n /\ k # n
    BY <1>2, <2>0, <2>1, ShiftedPlace
  <2>3. a = b /\ x = y
    <3>. HIDE DEF a, b
    <3>1. c[a] = d[m] /\ c[b] = d[k]
      BY <2>2
    <3>2. x \in 1 .. Len(c[a])
      BY <3>1, Zenon
    <3>3. y \in 1 .. Len(c[b])
      BY <3>1, Zenon
    <3>4. c[a][x] = c[b][y]
      BY <3>1, Zenon
    <3>5. a \in 0 .. MaxFiles /\ b \in 0 .. MaxFiles
      BY <2>2
    <3>6. \A u \in 1 .. Len(c[a]), v \in 1 .. Len(c[b]) : c[a][u] = c[b][v] => a = b /\ u = v
      BY <3>5, Zenon DEF Once
    <3>. QED  BY <3>2, <3>3, <3>4, <3>6, Zenon
  <2>. QED  BY <2>0, <2>2, <2>3
<1>. QED  BY <1>1, <1>2 DEF Shifted

LEMMA ShiftKeepsOrder ==
    ASSUME LoggerAssumptions, NEW c \in FileContents, NEW d \in FileContents, NEW n \in 0 .. MaxFiles - 1,
           Shifted(c, d, n), InOrder(c)
    PROVE  InOrder(d)
<1>1. CASE d = c
  BY <1>1
<1>2. CASE c[n] # <<>>
  <2>. SUFFICES ASSUME NEW m \in 0 .. MaxFiles, NEW k \in 0 .. MaxFiles,
                       NEW x \in 1 .. Len(d[m]), NEW y \in 1 .. Len(d[k]), m > k \/ (m = k /\ x < y)
                PROVE  d[m][x] < d[k][y]
    BY DEF InOrder
  <2>. DEFINE a == IF m = n + 1 THEN n ELSE m
              b == IF k = n + 1 THEN n ELSE k
  <2>0. MaxFiles \in Nat /\ n \in 0 .. MaxFiles
    BY DEF LoggerAssumptions
  <2>1. d[m] # <<>> /\ d[k] # <<>>
    BY FileIsSeq
  <2>2. a \in 0 .. MaxFiles /\ b \in 0 .. MaxFiles /\ d[m] = c[a] /\ d[k] = c[b] /\ m # n /\ k # n
    BY <1>2, <2>0, <2>1, ShiftedPlace
  <2>3. a > b \/ (a = b /\ x < y)
    BY <2>0, <2>2
  <2>. QED  BY <2>2, <2>3 DEF InOrder
<1>. QED  BY <1>1, <1>2 DEF Shifted

\* A shift writes nothing, and loses what was at its target.
LEMMA ShiftEntries ==
    ASSUME LoggerAssumptions, NEW c \in FileContents, NEW d \in FileContents, NEW n \in 0 .. MaxFiles - 1,
           Shifted(c, d, n)
    PROVE  /\ Entries(d) \subseteq Entries(c)
           /\ \A m \in (0 .. MaxFiles) \ {n + 1} : \A x \in 1 .. Len(c[m]) : c[m][x] \in Entries(d)
           /\ c[n] = <<>> \/ c[n + 1] = <<>> => Entries(d) = Entries(c)
<1>0. MaxFiles \in Nat /\ n \in 0 .. MaxFiles /\ n + 1 \in 0 .. MaxFiles
  BY DEF LoggerAssumptions
<1>1. ASSUME NEW m \in 0 .. MaxFiles, NEW x \in 1 .. Len(d[m])
      PROVE  d[m][x] \in Entries(c)
  <2>1. d[m] # <<>> /\ d[m][x] \in Nat
    BY FileIsSeq
  <2>2. CASE d = c
    BY <2>1, <2>2 DEF Entries
  <2>3. CASE c[n] # <<>>
    <3>1. \E k \in 0 .. MaxFiles : d[m] = c[k]
      BY <1>0, <2>1, <2>3, ShiftedPlace
    <3>. QED  BY <2>1, <3>1 DEF Entries
  <2>. QED  BY <2>2, <2>3 DEF Shifted
<1>2. ASSUME NEW m \in (0 .. MaxFiles) \ {n + 1}, NEW x \in 1 .. Len(c[m])
      PROVE  c[m][x] \in Entries(d)
  <2>1. c[m] # <<>> /\ c[m][x] \in Nat
    BY FileIsSeq
  <2>2. \E k \in 0 .. MaxFiles : d[k] = c[m]
    BY <1>0 DEF Shifted
  <2>. QED  BY <2>1, <2>2 DEF Entries
<1>3. ASSUME c[n] = <<>> \/ c[n + 1] = <<>> PROVE Entries(c) \subseteq Entries(d)
  <2>. SUFFICES ASSUME NEW m \in 0 .. MaxFiles, NEW x \in 1 .. Len(c[m])
                PROVE  c[m][x] \in Entries(d)
    BY DEF Entries
  <2>1. c[m] # <<>> /\ c[m][x] \in Nat
    BY FileIsSeq
  <2>2. CASE m = n + 1
    <3>1. d = c
      BY <1>3, <2>1, <2>2 DEF Shifted
    <3>. QED  BY <2>1, <3>1 DEF Entries
  <2>. QED  BY <1>2, <2>2
<1>4. Entries(d) \subseteq Entries(c)
  BY <1>1 DEF Entries
<1>. QED  BY <1>2, <1>3, <1>4

\* A write adds its entry.
LEMMA AppendEntries ==
    ASSUME LoggerAssumptions, NEW c \in FileContents, NEW d \in FileContents, NEW i \in Nat, AppendedTo(c, d, i)
    PROVE  Entries(d) = Entries(c) \cup {i}
<1>0. MaxFiles \in Nat /\ 0 \in 0 .. MaxFiles /\ c[0] \in Seq(Nat)
  BY DEF LoggerAssumptions, FileContents
<1>1. PICK l \in Nat : l = Len(c[0])
  BY <1>0
<1>2. /\ Len(d[0]) = l + 1 /\ d[0][l + 1] = i
      /\ \A x \in 1 .. l : d[0][x] = c[0][x]
  BY <1>0, <1>1 DEF AppendedTo
<1>3. ASSUME NEW m \in 0 .. MaxFiles, NEW x \in 1 .. Len(d[m])
      PROVE  d[m][x] \in Entries(c) \cup {i}
  <2>1. CASE m = 0 /\ x = l + 1
    BY <1>2, <2>1
  <2>2. CASE m = 0 /\ x \in 1 .. l
    <3>1. d[m][x] = c[0][x] /\ c[0][x] \in Nat
      BY <1>0, <1>1, <1>2, <2>2
    <3>. QED  BY <1>0, <1>1, <2>2, <3>1 DEF Entries
  <2>3. CASE m # 0
    <3>1. d[m] = c[m] /\ c[m] \in Seq(Nat)
      BY <2>3, FileIsSeq DEF AppendedTo
    <3>. QED  BY <3>1 DEF Entries
  <2>. QED  BY <1>1, <1>2, <2>1, <2>2, <2>3
<1>4. ASSUME NEW m \in 0 .. MaxFiles, NEW x \in 1 .. Len(c[m])
      PROVE  c[m][x] \in Entries(d)
  <2>1. c[m][x] \in Nat
    BY FileIsSeq
  <2>2. x \in 1 .. Len(d[m]) /\ d[m][x] = c[m][x]
    <3>1. CASE m = 0
      BY <1>1, <1>2, <3>1
    <3>2. CASE m # 0
      BY <3>2 DEF AppendedTo
    <3>. QED  BY <3>1, <3>2
  <2>. QED  BY <2>1, <2>2 DEF Entries
<1>5. i \in Entries(d)
  BY <1>0, <1>1, <1>2 DEF Entries
<1>6. Entries(d) \subseteq Entries(c) \cup {i}
  BY <1>3 DEF Entries
<1>7. Entries(c) \subseteq Entries(d)
  BY <1>4 DEF Entries
<1>. QED  BY <1>5, <1>6, <1>7

LEMMA AppendKeepsOnce ==
    ASSUME LoggerAssumptions, NEW c \in FileContents, NEW d \in FileContents, NEW i \in Nat, AppendedTo(c, d, i),
           Once(c), i \notin Entries(c)
    PROVE  Once(d)
<1>0. MaxFiles \in Nat /\ 0 \in 0 .. MaxFiles /\ c[0] \in Seq(Nat)
  BY DEF LoggerAssumptions, FileContents
<1>1. PICK l \in Nat : l = Len(c[0])
  BY <1>0
<1>2. /\ Len(d[0]) = l + 1 /\ d[0][l + 1] = i
      /\ \A x \in 1 .. l : d[0][x] = c[0][x]
  BY <1>0, <1>1 DEF AppendedTo
<1>3. ASSUME NEW m \in 0 .. MaxFiles, NEW x \in 1 .. Len(d[m]), m # 0 \/ x # l + 1
      PROVE  x \in 1 .. Len(c[m]) /\ d[m][x] = c[m][x] /\ d[m][x] # i
  <2>1. x \in 1 .. Len(c[m]) /\ d[m][x] = c[m][x]
    <3>1. CASE m = 0
      BY <1>1, <1>2, <1>3, <3>1
    <3>2. CASE m # 0
      BY <3>2 DEF AppendedTo
    <3>. QED  BY <3>1, <3>2
  <2>2. c[m][x] \in Nat
    BY <2>1, FileIsSeq
  <2>. QED  BY <2>1, <2>2 DEF Entries
<1>. SUFFICES ASSUME NEW m \in 0 .. MaxFiles, NEW k \in 0 .. MaxFiles,
                     NEW x \in 1 .. Len(d[m]), NEW y \in 1 .. Len(d[k]), d[m][x] = d[k][y]
              PROVE  m = k /\ x = y
  BY DEF Once
<1>4. CASE m = 0 /\ x = l + 1
  BY <1>2, <1>3, <1>4
<1>5. CASE k = 0 /\ y = l + 1
  BY <1>2, <1>3, <1>5
<1>6. CASE (m # 0 \/ x # l + 1) /\ (k # 0 \/ y # l + 1)
  BY <1>3, <1>6 DEF Once
<1>. QED  BY <1>4, <1>5, <1>6

LEMMA AppendKeepsOrder ==
    ASSUME LoggerAssumptions, NEW c \in FileContents, NEW d \in FileContents, NEW i \in Nat, AppendedTo(c, d, i),
           InOrder(c), \A j \in Entries(c) : j < i
    PROVE  InOrder(d)
<1>0. MaxFiles \in Nat /\ 0 \in 0 .. MaxFiles /\ c[0] \in Seq(Nat)
  BY DEF LoggerAssumptions, FileContents
<1>1. PICK l \in Nat : l = Len(c[0])
  BY <1>0
<1>2. /\ Len(d[0]) = l + 1 /\ d[0][l + 1] = i
      /\ \A x \in 1 .. l : d[0][x] = c[0][x]
  BY <1>0, <1>1 DEF AppendedTo
<1>3. ASSUME NEW m \in 0 .. MaxFiles, NEW x \in 1 .. Len(d[m]), m # 0 \/ x # l + 1
      PROVE  x \in 1 .. Len(c[m]) /\ d[m][x] = c[m][x] /\ d[m][x] < i
  <2>1. x \in 1 .. Len(c[m]) /\ d[m][x] = c[m][x]
    <3>1. CASE m = 0
      BY <1>1, <1>2, <1>3, <3>1
    <3>2. CASE m # 0
      BY <3>2 DEF AppendedTo
    <3>. QED  BY <3>1, <3>2
  <2>2. c[m][x] \in Nat
    BY <2>1, FileIsSeq
  <2>. QED  BY <2>1, <2>2 DEF Entries
<1>. SUFFICES ASSUME NEW m \in 0 .. MaxFiles, NEW k \in 0 .. MaxFiles,
                     NEW x \in 1 .. Len(d[m]), NEW y \in 1 .. Len(d[k]), m > k \/ (m = k /\ x < y)
              PROVE  d[m][x] < d[k][y]
  BY DEF InOrder
<1>4. m # 0 \/ x # l + 1
  BY <1>0, <1>1, <1>2
<1>5. CASE k = 0 /\ y = l + 1
  BY <1>2, <1>3, <1>4, <1>5
<1>6. CASE k # 0 \/ y # l + 1
  BY <1>3, <1>4, <1>6 DEF InOrder
<1>. QED  BY <1>5, <1>6

\* The entries of full files are as many as fit into them.
LEMMA FullFiles ==
    ASSUME LoggerAssumptions, NEW c \in FileContents, Once(c), \A n \in 0 .. MaxFiles : Len(c[n]) = MaxSize
    PROVE  IsFiniteSet(Entries(c)) /\ Cardinality(Entries(c)) > MaxSize * MaxFiles
<1>. DEFINE Below(m) == {i \in Nat : \E n \in 0 .. MaxFiles : n < m /\ \E x \in 1 .. Len(c[n]) : c[n][x] = i}
            File(m) == {i \in Nat : \E x \in 1 .. MaxSize : c[m][x] = i}
            Counted(m) == IsFiniteSet(Below(m)) /\ Cardinality(Below(m)) = m * MaxSize
            T == {m \in Nat : m <= MaxFiles + 1 => Counted(m)}
<1>0. MaxFiles \in Nat /\ MaxSize \in Nat /\ MaxSize > 0
  BY DEF LoggerAssumptions
<1>1. ASSUME NEW m \in 0 .. MaxFiles
      PROVE  IsFiniteSet(File(m)) /\ Cardinality(File(m)) = MaxSize
  <2>1. c[m] \in Seq(Nat) /\ Len(c[m]) = MaxSize
    BY FileIsSeq
  <2>. DEFINE f == [x \in 1 .. MaxSize |-> c[m][x]]
  <2>2. \A x \in 1 .. MaxSize : f[x] \in File(m)
    BY <2>1
  <2>3. \A x, y \in 1 .. MaxSize : f[x] = f[y] => x = y
    BY <2>1 DEF Once
  <2>4. \A i \in File(m) : \E x \in 1 .. MaxSize : f[x] = i
    OBVIOUS
  <2>5. f \in Bijection(1 .. MaxSize, File(m))
    BY <2>2, <2>3, <2>4 DEF Bijection, Injection, Surjection, IsInjective
  <2>6. ExistsBijection(1 .. MaxSize, File(m))
    BY <2>5 DEF ExistsBijection
  <2>. QED  BY <1>0, <2>6, FS_NatBijection, FS_CountingElements
<1>2. 0 \in T
  <2>0. \A n \in 0 .. MaxFiles : ~(n < 0)
    BY <1>0
  <2>1. Below(0) = {}
    BY <2>0, Zenon
  <2>2. IsFiniteSet(Below(0)) /\ Cardinality(Below(0)) = 0
    BY <2>1, FS_EmptySet
  <2>3. 0 * MaxSize = 0
    BY <1>0
  <2>4. Counted(0)
    BY <2>2, <2>3
  <2>. HIDE DEF Counted
  <2>. QED  BY <2>4
<1>3. ASSUME NEW m \in T PROVE m + 1 \in T
  <2>0. m \in Nat /\ (m <= MaxFiles + 1 => Counted(m))
    <3>. HIDE DEF Counted
    <3>. QED  OBVIOUS
  <2>. SUFFICES ASSUME m <= MaxFiles PROVE Counted(m + 1)
    <3>. HIDE DEF Counted
    <3>. QED  BY <1>0, <2>0
  <2>1. m \in Nat /\ m \in 0 .. MaxFiles
    BY <1>0, <2>0
  <2>2. IsFiniteSet(Below(m)) /\ Cardinality(Below(m)) = m * MaxSize
    <3>1. Counted(m)
      <4>. HIDE DEF Counted
      <4>. QED  BY <1>0, <2>0, <2>1
    <3>. QED  BY <3>1
  <2>3. Below(m + 1) = Below(m) \cup File(m)
    <3>1. \A n \in 0 .. MaxFiles : n < m + 1 <=> n < m \/ n = m
      BY <1>0, <2>1
    <3>2. Len(c[m]) = MaxSize
      BY <2>1
    <3>. QED  BY <2>1, <3>1, <3>2
  <2>4. Below(m) \cap File(m) = {}
    <3>1. \A n \in 0 .. MaxFiles : n < m => n # m
      BY <1>0, <2>1
    <3>2. Len(c[m]) = MaxSize
      BY <2>1
    <3>. QED  BY <2>1, <3>1, <3>2 DEF Once
  <2>5. IsFiniteSet(File(m)) /\ Cardinality(File(m)) = MaxSize
    BY <1>1, <2>1
  <2>. HIDE DEF Below, File, T
  <2>6. /\ IsFiniteSet(Below(m) \cup File(m))
        /\ Cardinality(Below(m) \cup File(m)) = Cardinality(Below(m)) + Cardinality(File(m)) - Cardinality(Below(m) \cap File(m))
    BY <2>2, <2>5, FS_Union
  <2>7. Cardinality(Below(m) \cap File(m)) = 0
    BY <2>4, FS_EmptySet
  <2>8. m * MaxSize \in Nat /\ m * MaxSize + MaxSize = (m + 1) * MaxSize
    BY <1>0, <2>1
  <2>9. Cardinality(Below(m) \cup File(m)) = m * MaxSize + MaxSize
    BY <1>0, <2>2, <2>5, <2>6, <2>7, <2>8
  <2>. QED  BY <2>3, <2>6, <2>8, <2>9
<1>4. MaxFiles + 1 \in T
  <2>. HIDE DEF Counted
  <2>1. T \in SUBSET Nat
    OBVIOUS
  <2>. HIDE DEF T
  <2>. QED  BY <1>0, <1>2, <1>3, <2>1, NumberInduction
<1>5. Below(MaxFiles + 1) = Entries(c)
  BY <1>0 DEF Entries
<1>6. IsFiniteSet(Entries(c)) /\ Cardinality(Entries(c)) = (MaxFiles + 1) * MaxSize
  <2>1. IsFiniteSet(Below(MaxFiles + 1)) /\ Cardinality(Below(MaxFiles + 1)) = (MaxFiles + 1) * MaxSize
    <3>1. Counted(MaxFiles + 1)
      <4>. HIDE DEF Counted
      <4>. QED  BY <1>0, <1>4
    <3>. QED  BY <3>1
  <2>. HIDE DEF Below
  <2>. QED  BY <1>5, <2>1
<1>7. (MaxFiles + 1) * MaxSize > MaxSize * MaxFiles
  <2>1. (MaxFiles + 1) * MaxSize = MaxSize * MaxFiles + MaxSize /\ MaxSize * MaxFiles \in Nat
    BY <1>0
  <2>. QED  BY <1>0, <2>1
<1>. QED  BY <1>6, <1>7

-----------------------------------------------------------------------------
(* Logger: facts.                                                          *)

LEMMA ContentsType ==
    ASSUME LoggerAssumptions, LoggerTypeOK
    PROVE  contents \in FileContents /\ \A n \in 0 .. MaxFiles : contents[n] = Contents(n) /\ (files[n] = Missing <=> contents[n] = <<>>)
<1>1. ASSUME NEW n \in 0 .. MaxFiles PROVE Contents(n) \in Seq(Nat) /\ (files[n] = Missing <=> Contents(n) = <<>>)
  <2>1. files[n] \in (Seq(Nat) \ {<<>>}) \cup {Missing}
    BY DEF LoggerTypeOK
  <2>2. <<>> \in Seq(Nat)
    BY EmptySeq
  <2>. QED  BY <2>1, <2>2 DEF Contents
<1>. QED  BY <1>1 DEF contents, FileContents

\* One write of a call goes on, and no other one moves.
LEMMA WriteMoves ==
    ASSUME LoggerTypeOK, NEW i \in DOMAIN calls, NEW k \in Transports, NEW s \in Steps,
           writes' = [writes EXCEPT ![i][k] = s], transports' = transports, calls' = calls
    PROVE  /\ Transports' = Transports /\ writes' \in Seq([Transports -> Steps]) /\ Len(writes') = Len(calls)
           /\ writes'[i][k] = s
           /\ \A j \in DOMAIN calls, m \in Transports : j # i \/ m # k => writes'[j][m] = writes[j][m]
<1>1. DOMAIN calls = 1 .. Len(calls) /\ DOMAIN writes = 1 .. Len(calls)
  BY DEF LoggerTypeOK
<1>2. writes[i] \in [Transports -> Steps]
  BY <1>1 DEF LoggerTypeOK
<1>3. writes' = [writes EXCEPT ![i] = [writes[i] EXCEPT ![k] = s]]
  BY <1>1
<1>4. [writes[i] EXCEPT ![k] = s] \in [Transports -> Steps]
  BY <1>2
<1>5. writes' \in Seq([Transports -> Steps]) /\ Len(writes') = Len(calls)
  BY <1>1, <1>3, <1>4 DEF LoggerTypeOK
<1>6. writes'[i] = [writes[i] EXCEPT ![k] = s] /\ \A j \in DOMAIN calls : j # i => writes'[j] = writes[j]
  BY <1>1, <1>3
<1>7. \A m \in Transports : m # k => writes'[i][m] = writes[i][m]
  BY <1>2, <1>6
<1>. QED  BY <1>2, <1>5, <1>6, <1>7 DEF Transports

\* Nothing that was done is undone, and a file of its own is of no concern to the others.
LEMMA MoveKeepsReceived ==
    ASSUME LoggerTypeOK, ReceivedInv, ResolvedInv,
           NEW i \in DOMAIN calls, NEW k \in Transports, NEW s \in Steps, ~IsAt(i, k, "done"),
           writes' = [writes EXCEPT ![i][k] = s], UNCHANGED <<transports, calls, others>>,
           k = Rotating \/ s[1] # "done"
    PROVE  ReceivedInv' /\ ResolvedInv'
<1>0. Transports' = Transports /\ transports' = transports /\ calls' = calls /\ others' = others
  BY DEF Transports
<1>1. \A j \in DOMAIN calls, m \in Transports :
        /\ IsAt(j, m, "done") => IsAt(j, m, "done")'
        /\ m # Rotating /\ IsAt(j, m, "done")' => IsAt(j, m, "done")
  BY WriteMoves DEF IsAt
<1>2. \A l, m : IsLogged(l, m)' <=> IsLogged(l, m)
  BY <1>0 DEF IsLogged
<1>3. ResolvedInv'
  BY <1>0, <1>1, <1>2 DEF ResolvedInv
<1>4. ReceivedInv'
  BY <1>0, <1>1, <1>2 DEF ReceivedInv
<1>. QED  BY <1>3, <1>4

LEMMA SameFiles ==
    ASSUME UNCHANGED files
    PROVE  contents' = contents /\ \A n : Contents(n)' = Contents(n)
BY DEF contents, Contents

\* While the files and what the last call does to them stay, so does what is in order.
LEMMA FilesStay ==
    ASSUME UNCHANGED overlap, contents' = contents, InFile' = InFile,
           \A n \in 0 .. MaxFiles - 1 : LastIsAt(<<"rename", n>>)' <=> LastIsAt(<<"rename", n>>),
           LastIsAt(<<"append", 0>>)' <=> LastIsAt(<<"append", 0>>),
           \A n \in 0 .. MaxFiles : IsHole(n) => IsHole(n)',
           GapInv, SizeInv, OrderInv
    PROVE  GapInv' /\ SizeInv' /\ OrderInv'
<1>1. GapInv'
  BY DEF GapInv
<1>2. SizeInv'
  BY DEF SizeInv
<1>3. OrderInv'
  BY DEF OrderInv
<1>. QED  BY <1>1, <1>2, <1>3

-----------------------------------------------------------------------------
(* Logger: the steps.                                                      *)

\* No transport has written anything.
LEMMA LoggerInitially == LoggerAssumptions /\ LogInit => LoggerInv
<1>. SUFFICES ASSUME LoggerAssumptions, LogInit PROVE LoggerInv
  OBVIOUS
<1>0. MaxFiles \in Nat /\ MaxSize \in Nat /\ calls = <<>> /\ DOMAIN calls = {} /\ Len(calls) = 0
  BY DEF LoggerAssumptions, LogInit
<1>1. LoggerTypeOK
  <2>1. overlap \in Nat
    BY DEF LogInit
  <2>2. <<>> \in Seq([level : Nat, state : {"pending", "resolved", "rejected"}])
    BY EmptySeq
  <2>3. <<>> \in Seq([Transports -> Steps])
    BY EmptySeq
  <2>4. <<>> \in Seq(Nat)
    BY EmptySeq
  <2>. QED  BY <1>0, <2>1, <2>2, <2>3, <2>4 DEF LoggerTypeOK, LogInit
<1>2. \A k \in Transports \ {Rotating} : others[k] = <<>> /\ DOMAIN others[k] = {}
  BY DEF LogInit
<1>3. ReceivedInv /\ ResolvedInv
  BY <1>0, <1>2 DEF ReceivedInv, ResolvedInv
<1>4. contents \in FileContents /\ \A n \in 0 .. MaxFiles : contents[n] = <<>>
  BY <1>1, ContentsType DEF LogInit
<1>5. Entries(contents) = {} /\ Once(contents) /\ InOrder(contents)
  BY <1>4 DEF Entries, Once, InOrder
<1>6. PlacesInv
  BY <1>5 DEF PlacesInv
<1>7. InFile = {}
  BY <1>0 DEF InFile
<1>8. AwaitedInv
  BY <1>0 DEF AwaitedInv
<1>9. \A s : ~LastIsAt(s)
  BY <1>0 DEF LastIsAt
<1>10. GapInv
  BY <1>4, <1>9 DEF GapInv
<1>11. SizeInv
  BY <1>0, <1>4, <1>9 DEF SizeInv
<1>12. OrderInv
  BY <1>5, <1>7 DEF OrderInv
<1>. QED  BY <1>1, <1>3, <1>6, <1>8, <1>10, <1>11, <1>12 DEF LoggerInv

\* A transport that is not the rotating one has the entry, or fails.
LEMMA OtherKeepsLogger ==
    ASSUME LoggerAssumptions, LoggerInv, NEW i \in DOMAIN calls, NEW k \in Transports \ {Rotating},
           Receive(i, k) \/ (FetchFails(i, k) /\ ~IsAwaited)
    PROVE  LoggerInv'
<1>1. IsAt(i, k, "begun") /\ UNCHANGED <<transports, overlap, calls, files>>
  BY DEF Receive, FetchFails
<1>2. PICK s \in Steps :
        /\ writes' = [writes EXCEPT ![i][k] = s]
        /\ Receive(i, k) => s = <<"done", 0>> /\ others' = [others EXCEPT ![k] = Append(others[k], i)]
        /\ ~Receive(i, k) => s = <<"failed", 0>> /\ UNCHANGED others
  <2>1. <<"done", 0>> \in Steps /\ <<"failed", 0>> \in Steps
    BY DEF Steps
  <2>2. CASE Receive(i, k)
    BY <2>1, <2>2 DEF Receive, GoTo
  <2>3. CASE ~Receive(i, k)
    BY <2>1, <2>3 DEF FetchFails, GoTo
  <2>. QED  BY <2>2, <2>3
<1>2a. LoggerTypeOK /\ ~IsAt(i, k, "done")
  BY <1>1 DEF LoggerInv, IsAt
<1>3. /\ Transports' = Transports /\ writes' \in Seq([Transports -> Steps]) /\ Len(writes') = Len(calls)
      /\ writes'[i][k] = s
      /\ \A j \in DOMAIN calls, m \in Transports : j # i \/ m # k => writes'[j][m] = writes[j][m]
  <2>1. k \in Transports /\ transports' = transports /\ calls' = calls
    BY <1>1
  <2>2. writes' = [writes EXCEPT ![i][k] = s]
    BY <1>2
  <2>3. writes'[i][k] = s
    <3>1. i \in DOMAIN writes /\ k \in DOMAIN writes[i]
      BY <1>2a DEF LoggerTypeOK
    <3>. QED  BY <2>2, <3>1
  <2>4. Transports' = Transports /\ writes' \in Seq([Transports -> Steps]) /\ Len(writes') = Len(calls)
    BY <1>2a, <2>1, <2>2, WriteMoves
  <2>5. \A j \in DOMAIN calls, m \in Transports : j # i \/ m # k => writes'[j][m] = writes[j][m]
    BY <1>2a, <2>1, <2>2, WriteMoves
  <2>. QED  BY <2>3, <2>4, <2>5
<1>4. Receive(i, k) => s = <<"done", 0>> /\ others' = [others EXCEPT ![k] = Append(others[k], i)]
  BY <1>2
<1>5. others' \in [Transports \ {Rotating} -> Seq(Nat)]
  <2>1. CASE Receive(i, k)
    <3>1. others[k] \in Seq(Nat) /\ i \in Nat
      BY <1>2a DEF LoggerTypeOK
    <3>2. Append(others[k], i) \in Seq(Nat)
      BY <3>1
    <3>3. others \in [Transports \ {Rotating} -> Seq(Nat)]
      BY <1>2a DEF LoggerTypeOK
    <3>. QED  BY <1>4, <2>1, <3>2, <3>3
  <2>2. CASE FetchFails(i, k)
    BY <1>2a, <2>2 DEF FetchFails, LoggerTypeOK
  <2>. QED  BY <2>1, <2>2
<1>6. LoggerTypeOK'
  BY <1>1, <1>2a, <1>3, <1>5 DEF LoggerTypeOK
<1>7. \A l, m : IsLogged(l, m)' <=> IsLogged(l, m)
  BY <1>1 DEF IsLogged
<1>8. ReceivedInv' /\ ResolvedInv'
  <2>1. CASE ~Receive(i, k)
    <3>1. s = <<"failed", 0>> /\ UNCHANGED others
      BY <1>2, <2>1
    <3>. QED  BY <1>1, <1>2, <1>2a, <3>1, MoveKeepsReceived DEF LoggerInv
  <2>2. CASE Receive(i, k)
    <3>1. \A j \in DOMAIN calls, m \in Transports : IsAt(j, m, "done")' <=> IsAt(j, m, "done") \/ (j = i /\ m = k)
      BY <1>3, <1>4, <2>2 DEF IsAt
    <3>2. ResolvedInv'
      BY <1>1, <1>3, <1>7, <3>1 DEF ResolvedInv, LoggerInv
    <3>3. others[k] \in Seq(Nat)
      BY <1>2a DEF LoggerTypeOK
    <3>4. PICK n \in Nat : n = Len(others[k])
      BY <3>3
    <3>5. /\ DOMAIN others[k] = 1 .. n /\ DOMAIN others'[k] = 1 .. n + 1 /\ others'[k][n + 1] = i
          /\ \A x \in 1 .. n : others'[k][x] = others[k][x] /\ others[k][x] # i
      <4>1. others'[k] = Append(others[k], i)
        BY <1>2a, <1>4, <2>2 DEF LoggerTypeOK
      <4>2. \A x \in DOMAIN others[k] : others[k][x] # i
        BY <1>2a DEF LoggerInv, ReceivedInv
      <4>. QED  BY <3>3, <3>4, <4>1, <4>2
    <3>6. \A m \in Transports \ {Rotating} : m # k => others'[m] = others[m]
      BY <1>2a, <1>4, <2>2 DEF LoggerTypeOK
    <3>7. ReceivedInv'
      <4>. SUFFICES ASSUME NEW m \in Transports \ {Rotating}
                    PROVE  /\ \A x \in DOMAIN others'[m] : others'[m][x] \in DOMAIN calls /\ writes'[others'[m][x]][m][1] = "done"
                           /\ \A x, y \in DOMAIN others'[m] : others'[m][x] = others'[m][y] => x = y
                           /\ \A j \in DOMAIN calls :
                                IsLogged(calls[j].level, m) /\ IsAt(j, m, "done")' => \E x \in DOMAIN others'[m] : others'[m][x] = j
        BY <1>1, <1>3, <1>7 DEF ReceivedInv, IsAt, Transports
      <4>1. CASE m # k
        <5>1. /\ \A x \in DOMAIN others[m] : others[m][x] \in DOMAIN calls /\ IsAt(others[m][x], m, "done")
              /\ \A x, y \in DOMAIN others[m] : others[m][x] = others[m][y] => x = y
              /\ \A j \in DOMAIN calls :
                    IsLogged(calls[j].level, m) /\ IsAt(j, m, "done") => \E x \in DOMAIN others[m] : others[m][x] = j
          BY DEF LoggerInv, ReceivedInv
        <5>2. others'[m] = others[m] /\ \A j \in DOMAIN calls : IsAt(j, m, "done")' <=> IsAt(j, m, "done")
          BY <3>1, <3>6, <4>1
        <5>. QED  BY <5>1, <5>2 DEF IsAt
      <4>2. CASE m = k
        <5>1. \A x \in 1 .. n : others[k][x] \in DOMAIN calls /\ IsAt(others[k][x], k, "done")
          BY <3>5 DEF LoggerInv, ReceivedInv
        <5>2. \A x, y \in 1 .. n : others[k][x] = others[k][y] => x = y
          BY <3>5 DEF LoggerInv, ReceivedInv
        <5>3. \A j \in DOMAIN calls : IsLogged(calls[j].level, k) /\ IsAt(j, k, "done") => \E x \in 1 .. n : others[k][x] = j
          BY <3>5 DEF LoggerInv, ReceivedInv
        <5>4. \A x \in 1 .. n + 1 : x \in 1 .. n \/ x = n + 1
          BY <3>4
        <5>5. \A x \in DOMAIN others'[k] : others'[k][x] \in DOMAIN calls /\ writes'[others'[k][x]][k][1] = "done"
          BY <3>1, <3>5, <5>1, <5>4 DEF IsAt
        <5>6. \A x, y \in DOMAIN others'[k] : others'[k][x] = others'[k][y] => x = y
          BY <3>5, <5>2, <5>4
        <5>7. ASSUME NEW j \in DOMAIN calls, IsLogged(calls[j].level, k), IsAt(j, k, "done")'
              PROVE  \E x \in DOMAIN others'[k] : others'[k][x] = j
          <6>1. CASE j = i
            BY <3>4, <3>5, <6>1
          <6>2. CASE j # i
            BY <3>1, <3>4, <3>5, <5>3, <5>7, <6>2
          <6>. QED  BY <6>1, <6>2
        <5>. QED  BY <4>2, <5>5, <5>6, <5>7
      <4>. QED  BY <4>1, <4>2
    <3>. QED  BY <3>2, <3>7
  <2>. QED  BY <2>1, <2>2
<1>9. contents' = contents
  BY <1>1, SameFiles
<1>10. \A j \in DOMAIN calls : Rotating \in Transports => writes'[j][Rotating] = writes[j][Rotating]
  BY <1>3
<1>11. InFile' = InFile
  BY <1>1, <1>3, <1>7, <1>10 DEF InFile, IsAt
<1>12. \A t : LastIsAt(t)' <=> LastIsAt(t)
  <2>1. calls # <<>> => Len(calls) \in DOMAIN calls
    BY <1>2a DEF LoggerTypeOK
  <2>. QED  BY <1>1, <1>3, <1>10, <2>1 DEF LastIsAt
<1>13. PlacesInv'
  BY <1>9, <1>11 DEF LoggerInv, PlacesInv
<1>14. ASSUME IsAwaited'
       PROVE  AwaitedInv' /\ GapInv' /\ SizeInv' /\ OrderInv'
  <2>1. IsAwaited /\ AwaitedInv /\ GapInv /\ SizeInv /\ OrderInv
    BY <1>1, <1>3, <1>14 DEF IsAwaited, LoggerInv
  <2>2. s = <<"done", 0>>
    BY <1>4, <2>1
  <2>3. AwaitedInv'
    BY <1>1, <1>3, <2>1, <2>2 DEF AwaitedInv, IsAt
  <2>4. \A n : IsHole(n)' <=> IsHole(n)
    BY <1>12 DEF IsHole
  <2>. QED  BY <1>1, <1>9, <1>11, <1>12, <2>1, <2>3, <2>4, FilesStay
<1>. QED  BY <1>6, <1>8, <1>13, <1>14 DEF LoggerInv

\* What a step of the rotating transport does besides the files.
LEMMA RotatingMoves ==
    ASSUME LoggerAssumptions, LoggerInv, Rotating \in Transports, NEW i \in DOMAIN calls, NEW s \in Steps,
           ~IsAt(i, Rotating, "done"), s[1] # "failed",
           writes' = [writes EXCEPT ![i][Rotating] = s],
           transports' = transports, overlap' = overlap, calls' = calls, others' = others
    PROVE  /\ writes' \in Seq([Transports' -> Steps]) /\ Len(writes') = Len(calls') /\ Transports' = Transports
           /\ ReceivedInv' /\ ResolvedInv'
           /\ s[1] # "done" => InFile' = InFile
           /\ s[1] = "done" => InFile' = InFile \cup {i} /\ i \notin InFile
           /\ IsAwaited' <=> IsAwaited
           /\ IsAwaited =>
                /\ AwaitedInv' /\ i = Len(calls)
                /\ \A t : LastIsAt(t) <=> writes[i][Rotating] = t
                /\ \A t : LastIsAt(t)' <=> s = t
<1>0. LoggerTypeOK /\ ReceivedInv /\ ResolvedInv
  BY DEF LoggerInv
<1>1. writes'[i][Rotating] = s
  <2>1. i \in DOMAIN writes /\ Rotating \in DOMAIN writes[i]
    BY <1>0 DEF LoggerTypeOK
  <2>. QED  BY <2>1
<1>2. Transports' = Transports /\ writes' \in Seq([Transports -> Steps]) /\ Len(writes') = Len(calls)
  BY <1>0, WriteMoves
<1>3. \A j \in DOMAIN calls, m \in Transports : j # i \/ m # Rotating => writes'[j][m] = writes[j][m]
  BY <1>0, WriteMoves
<1>4. ReceivedInv' /\ ResolvedInv'
  BY <1>0, MoveKeepsReceived
<1>5. IsLogged(calls[i].level, Rotating) /\ \A l, m : IsLogged(l, m)' <=> IsLogged(l, m)
  BY <1>0 DEF ResolvedInv, IsLogged
<1>6. \A j \in DOMAIN calls : j # i => writes'[j][Rotating] = writes[j][Rotating]
  BY <1>3
<1>7. s[1] # "done" => InFile' = InFile
  BY <1>1, <1>2, <1>5, <1>6 DEF InFile, IsAt
<1>8. i \notin InFile /\ (s[1] = "done" => InFile' = InFile \cup {i})
  BY <1>1, <1>2, <1>5, <1>6 DEF InFile, IsAt
<1>9. IsAwaited' <=> IsAwaited
  BY <1>2 DEF IsAwaited
<1>10. ASSUME IsAwaited
       PROVE  /\ AwaitedInv' /\ i = Len(calls)
              /\ \A t : LastIsAt(t) <=> writes[i][Rotating] = t
              /\ \A t : LastIsAt(t)' <=> s = t
  <2>1. AwaitedInv
    BY <1>10 DEF LoggerInv
  <2>2. i = Len(calls)
    BY <1>0, <2>1 DEF AwaitedInv, ResolvedInv
  <2>3. calls # <<>>
    BY <1>0, <2>2 DEF LoggerTypeOK
  <2>4. AwaitedInv'
    BY <1>1, <1>2, <1>3, <2>1 DEF AwaitedInv, IsAt
  <2>. QED  BY <1>1, <1>2, <2>2, <2>3, <2>4 DEF LastIsAt
<1>. QED  BY <1>2, <1>4, <1>7, <1>8, <1>9, <1>10

\* The size decides between the renames and the write.
LEMMA StatKeepsLogger ==
    ASSUME LoggerAssumptions, LoggerInv, NEW i \in DOMAIN calls, Stat(i)
    PROVE  LoggerInv'
<1>. DEFINE s == IF IsFull(files[0]) THEN <<"rename", FirstRenamed>> ELSE <<"append", 0>>
<1>0. MaxFiles \in Nat /\ MaxFiles >= 1 /\ MaxSize \in Nat /\ MaxSize >= 1 /\ LoggerTypeOK
  BY DEF LoggerAssumptions, LoggerInv
<1>1. /\ Rotating \in Transports /\ ~IsAt(i, Rotating, "done") /\ writes[i][Rotating][1] = "begun"
      /\ s \in Steps /\ s[1] # "failed" /\ s[1] # "done"
      /\ writes' = [writes EXCEPT ![i][Rotating] = s]
      /\ transports' = transports /\ overlap' = overlap /\ calls' = calls /\ others' = others /\ files' = files
  <2>1. FirstRenamed \in 0 .. MaxFiles - 1
    BY <1>0 DEF FirstRenamed
  <2>. QED  BY <2>1 DEF Stat, IsAt, Steps
<1>. HIDE DEF s
<1>2. /\ writes' \in Seq([Transports' -> Steps]) /\ Len(writes') = Len(calls') /\ Transports' = Transports
      /\ ReceivedInv' /\ ResolvedInv' /\ InFile' = InFile
      /\ IsAwaited' <=> IsAwaited
      /\ IsAwaited =>
            /\ AwaitedInv' /\ i = Len(calls)
            /\ \A t : LastIsAt(t) <=> writes[i][Rotating] = t
            /\ \A t : LastIsAt(t)' <=> s = t
  BY <1>1, RotatingMoves
<1>3. LoggerTypeOK'
  BY <1>0, <1>1, <1>2 DEF LoggerTypeOK
<1>4. contents' = contents
  BY <1>1, SameFiles
<1>5. PlacesInv'
  BY <1>2, <1>4 DEF LoggerInv, PlacesInv
<1>6. ASSUME IsAwaited PROVE GapInv' /\ SizeInv' /\ OrderInv'
  <2>0. GapInv /\ SizeInv /\ OrderInv
    BY <1>6 DEF LoggerInv
  <2>1. \A n : ~IsHole(n)
    BY <1>1, <1>2, <1>6 DEF IsHole
  <2>2. contents \in FileContents /\ contents[0] = Contents(0) /\ 0 \in 0 .. MaxFiles
    BY <1>0, ContentsType
  <2>3. IF IsFull(files[0]) THEN s = <<"rename", MaxFiles - 1>> /\ Len(contents[0]) >= MaxSize
                            ELSE s = <<"append", 0>> /\ Len(contents[0]) < MaxSize
    BY <1>0, <2>2 DEF s, FirstRenamed, IsFull, Size, Contents, LoggerTypeOK
  <2>4. \A n \in 0 .. MaxFiles - 1 : LastIsAt(<<"rename", n>>)' => n = MaxFiles - 1 /\ Len(contents[0]) >= MaxSize
    BY <1>2, <1>6, <2>3
  <2>5. LastIsAt(<<"append", 0>>)' => Len(contents[0]) < MaxSize
    BY <1>2, <1>6, <2>3
  <2>6. GapInv'
    BY <1>0, <1>4, <2>0, <2>1, <2>4 DEF GapInv
  <2>7. Len(contents[0]) \in Nat
    BY <2>2, FileIsSeq
  <2>8. SizeInv'
    BY <1>0, <1>4, <2>0, <2>4, <2>5, <2>7 DEF SizeInv
  <2>9. OrderInv'
    BY <1>2, <1>4, <2>0 DEF OrderInv
  <2>. QED  BY <2>6, <2>8, <2>9
<1>. QED  BY <1>2, <1>3, <1>5, <1>6 DEF LoggerInv

\* A rename moves one file, if there is one.
LEMMA RenameShifts ==
    ASSUME LoggerAssumptions, LoggerTypeOK, NEW n \in 0 .. MaxFiles - 1, Rename(n)
    PROVE  /\ files' \in [0 .. MaxFiles -> (Seq(Nat) \ {<<>>}) \cup {Missing}]
           /\ contents' \in FileContents
           /\ Shifted(contents, contents', n)
<1>0. /\ MaxFiles \in Nat /\ n \in 0 .. MaxFiles /\ n + 1 \in 0 .. MaxFiles /\ n # n + 1
      /\ files \in [0 .. MaxFiles -> (Seq(Nat) \ {<<>>}) \cup {Missing}]
      /\ contents \in FileContents
      /\ \A m \in 0 .. MaxFiles : contents[m] = Contents(m) /\ (files[m] = Missing <=> contents[m] = <<>>)
  BY ContentsType DEF LoggerAssumptions, LoggerTypeOK
<1>1. CASE files[n] = Missing
  <2>1. files' = files
    BY <1>1 DEF Rename
  <2>2. contents' = contents
    BY <2>1, SameFiles
  <2>. QED  BY <1>0, <1>1, <2>1, <2>2 DEF Shifted
<1>2. CASE files[n] # Missing
  <2>1. files' = [files EXCEPT ![n] = Missing, ![n + 1] = files[n]]
    BY <1>2 DEF Rename
  <2>2. /\ files'[n] = Missing /\ files'[n + 1] = files[n]
        /\ \A m \in (0 .. MaxFiles) \ {n, n + 1} : files'[m] = files[m]
    BY <1>0, <2>1
  <2>3. files' \in [0 .. MaxFiles -> (Seq(Nat) \ {<<>>}) \cup {Missing}]
    BY <1>0, <2>1
  <2>4. \A m \in 0 .. MaxFiles : contents'[m] = IF files'[m] = Missing THEN <<>> ELSE files'[m]
    BY DEF contents, Contents
  <2>5. \A m \in 0 .. MaxFiles : contents[m] = IF files[m] = Missing THEN <<>> ELSE files[m]
    BY DEF contents, Contents
  <2>6. Shifted(contents, contents', n)
    BY <1>0, <1>2, <2>2, <2>4, <2>5 DEF Shifted
  <2>7. contents' \in FileContents
    <3>1. \A m \in 0 .. MaxFiles : contents'[m] \in Seq(Nat)
      <4>1. <<>> \in Seq(Nat)
        BY EmptySeq
      <4>. QED  BY <2>3, <2>4, <4>1
    <3>. QED  BY <3>1 DEF FileContents, contents
  <2>. QED  BY <2>3, <2>6, <2>7
<1>. QED  BY <1>1, <1>2

\* Under way to its place a rename leaves one gap, which the next one fills.
LEMMA ShiftKeepsGaps ==
    ASSUME LoggerAssumptions, NEW c \in FileContents, NEW d \in FileContents, NEW n \in 0 .. MaxFiles - 1,
           Shifted(c, d, n),
           \A j, k \in 0 .. MaxFiles : j < k /\ c[j] = <<>> /\ c[k] # <<>> => j = n + 1
    PROVE  /\ \A j, k \in 0 .. MaxFiles : j < k /\ d[j] = <<>> /\ d[k] # <<>> => j = n
           /\ d[n] = <<>>
<1>0. MaxFiles \in Nat /\ n \in 0 .. MaxFiles /\ n + 1 \in 0 .. MaxFiles /\ n < n + 1
  BY DEF LoggerAssumptions
<1>1. CASE c[n] = <<>>
  <2>1. d = c
    BY <1>1 DEF Shifted
  <2>. SUFFICES ASSUME NEW j \in 0 .. MaxFiles, NEW k \in 0 .. MaxFiles, j < k, c[j] = <<>>, c[k] # <<>>
                PROVE  FALSE
    BY <1>1, <2>1
  <2>2. j = n + 1
    OBVIOUS
  <2>3. n < k
    BY <1>0, <2>2
  <2>. QED  BY <1>0, <1>1, <2>3
<1>2. CASE c[n] # <<>>
  <2>1. d[n] = <<>> /\ d[n + 1] = c[n] /\ \A m \in (0 .. MaxFiles) \ {n, n + 1} : d[m] = c[m]
    BY <1>2 DEF Shifted
  <2>. SUFFICES ASSUME NEW j \in 0 .. MaxFiles, NEW k \in 0 .. MaxFiles, j < k, d[j] = <<>>, d[k] # <<>>, j # n
                PROVE  FALSE
    BY <2>1
  <2>2. j # n + 1 /\ k # n /\ c[j] = <<>>
    BY <1>0, <1>2, <2>1
  <2>3. CASE k = n + 1
    <3>1. j < n
      BY <1>0, <2>2, <2>3
    <3>. QED  BY <1>0, <1>2, <2>2, <3>1
  <2>4. CASE k # n + 1
    BY <2>1, <2>2, <2>4
  <2>. QED  BY <2>3, <2>4
<1>. QED  BY <1>1, <1>2 DEF Shifted

\* What the last rename of a full set of files loses is the oldest.
LEMMA ShiftKeepsNewest ==
    ASSUME LoggerAssumptions, NEW c \in FileContents, NEW d \in FileContents, NEW n \in 0 .. MaxFiles - 1,
           Shifted(c, d, n), InOrder(c), n + 1 = MaxFiles,
           NEW i \in Entries(c), NEW j \in Entries(d), i > j
    PROVE  i \in Entries(d)
<1>0. MaxFiles \in Nat /\ n \in 0 .. MaxFiles /\ n + 1 \in 0 .. MaxFiles
  BY DEF LoggerAssumptions
<1>1. CASE d = c
  BY <1>1
<1>2. CASE c[n] # <<>>
  <2>1. PICK m \in 0 .. MaxFiles : \E x \in 1 .. Len(c[m]) : c[m][x] = i
    BY DEF Entries
  <2>2. PICK x \in 1 .. Len(c[m]) : c[m][x] = i
    BY <2>1
  <2>3. CASE m # n + 1
    BY <2>2, <2>3, ShiftEntries
  <2>4. CASE m = n + 1
    <3>1. PICK k \in 0 .. MaxFiles : \E y \in 1 .. Len(d[k]) : d[k][y] = j
      BY DEF Entries
    <3>2. PICK y \in 1 .. Len(d[k]) : d[k][y] = j
      BY <3>1
    <3>3. d[k] # <<>>
      BY <3>2, FileIsSeq
    <3>. DEFINE b == IF k = n + 1 THEN n ELSE k
    <3>4. b \in 0 .. MaxFiles /\ d[k] = c[b] /\ m > b
      BY <1>0, <1>2, <2>4, <3>3, ShiftedPlace
    <3>. HIDE DEF b
    <3>5. y \in 1 .. Len(c[b]) /\ c[b][y] = j
      BY <3>2, <3>4
    <3>6. i < j
      BY <2>2, <3>4, <3>5 DEF InOrder
    <3>. QED  BY <3>6 DEF Entries
  <2>. QED  BY <2>3, <2>4
<1>. QED  BY <1>1, <1>2 DEF Shifted

\* One rename of the rotation.
LEMMA RotateKeepsLogger ==
    ASSUME LoggerAssumptions, LoggerInv, NEW i \in DOMAIN calls, NEW n \in 0 .. MaxFiles - 1, Rotate(i, n)
    PROVE  LoggerInv'
<1>. DEFINE s == AfterRename(n)
<1>0. /\ MaxFiles \in Nat /\ MaxFiles >= 1 /\ MaxSize \in Nat /\ MaxSize >= 1 /\ LoggerTypeOK
      /\ n \in 0 .. MaxFiles /\ n + 1 \in 0 .. MaxFiles /\ 0 \in 0 .. MaxFiles
  BY DEF LoggerAssumptions, LoggerInv
<1>1. /\ Rotating \in Transports /\ writes[i][Rotating] = <<"rename", n>> /\ ~IsAt(i, Rotating, "done")
      /\ s \in Steps /\ s[1] # "failed" /\ s[1] # "done"
      /\ IF n = 0 THEN s = <<"append", 0>> ELSE s = <<"rename", n - 1>>
      /\ writes' = [writes EXCEPT ![i][Rotating] = s]
      /\ transports' = transports /\ overlap' = overlap /\ calls' = calls /\ others' = others
      /\ Rename(n)
  <2>1. n # 0 => n - 1 \in 0 .. MaxFiles - 1
    BY <1>0
  <2>. QED  BY <2>1 DEF Rotate, AfterRename, IsAt, Steps
<1>. HIDE DEF s
<1>2. /\ writes' \in Seq([Transports' -> Steps]) /\ Len(writes') = Len(calls') /\ Transports' = Transports
      /\ ReceivedInv' /\ ResolvedInv' /\ InFile' = InFile
      /\ IsAwaited' <=> IsAwaited
      /\ IsAwaited =>
            /\ AwaitedInv' /\ i = Len(calls)
            /\ \A t : LastIsAt(t) <=> writes[i][Rotating] = t
            /\ \A t : LastIsAt(t)' <=> s = t
  BY <1>1, RotatingMoves
<1>3. /\ files' \in [0 .. MaxFiles -> (Seq(Nat) \ {<<>>}) \cup {Missing}]
      /\ contents \in FileContents /\ contents' \in FileContents
      /\ Shifted(contents, contents', n)
  BY <1>0, <1>1, RenameShifts, ContentsType
<1>4. LoggerTypeOK'
  BY <1>0, <1>1, <1>2, <1>3 DEF LoggerTypeOK
<1>5. PlacesInv'
  <2>1. Once(contents) /\ Entries(contents) \subseteq InFile
    BY DEF LoggerInv, PlacesInv
  <2>2. Once(contents')
    BY <1>3, <2>1, ShiftKeepsOnce
  <2>3. Entries(contents') \subseteq Entries(contents)
    BY <1>3, ShiftEntries
  <2>. QED  BY <1>2, <2>1, <2>2, <2>3 DEF PlacesInv, Entries, Once
<1>6. ASSUME IsAwaited PROVE GapInv' /\ SizeInv' /\ OrderInv'
  <2>0. GapInv /\ SizeInv /\ OrderInv /\ PlacesInv
    BY <1>6 DEF LoggerInv
  <2>1. \A t : (LastIsAt(t) <=> <<"rename", n>> = t) /\ (LastIsAt(t)' <=> s = t)
    BY <1>1, <1>2, <1>6
  <2>2. \A j \in 0 .. MaxFiles : IsHole(j) => j = n + 1
    BY <1>0, <2>1 DEF IsHole
  <2>3. \A j, k \in 0 .. MaxFiles : j < k /\ contents[j] = <<>> /\ contents[k] # <<>> => j = n + 1
    BY <2>0, <2>2 DEF GapInv
  <2>4. /\ \A j, k \in 0 .. MaxFiles : j < k /\ contents'[j] = <<>> /\ contents'[k] # <<>> => j = n
        /\ contents'[n] = <<>>
    BY <1>3, <2>3, ShiftKeepsGaps
  <2>5. /\ \A m \in 0 .. MaxFiles - 1 : LastIsAt(<<"rename", m>>)' => n # 0 /\ m + 1 = n
        /\ LastIsAt(<<"append", 0>>)' => n = 0
    BY <1>0, <1>1, <2>1
  <2>6. IsHole(n)'
    BY <1>0, <1>1, <2>1 DEF IsHole
  <2>7. GapInv'
    BY <2>4, <2>5, <2>6 DEF GapInv
  <2>8. \A m \in 0 .. MaxFiles : contents[m] \in Seq(Nat) /\ Len(contents[m]) \in Nat
    BY <1>3, FileIsSeq
  <2>9. Len(contents[0]) = MaxSize /\ contents[0] # <<>>
    BY <1>0, <2>0, <2>1, <2>8 DEF SizeInv
  <2>10. SizeInv'
    <3>1. \A m \in 1 .. MaxFiles : contents[m] # <<>> => Len(contents[m]) = MaxSize
      BY <2>0 DEF SizeInv
    <3>2. contents[n] # <<>> => Len(contents[n]) = MaxSize
      BY <1>0, <2>9, <3>1
    <3>3. \A m \in 1 .. MaxFiles : contents'[m] # <<>> => Len(contents'[m]) = MaxSize
      <4>. TAKE m \in 1 .. MaxFiles
      <4>. HAVE contents'[m] # <<>>
      <4>1. CASE contents[n] = <<>>
        BY <1>3, <3>1, <4>1 DEF Shifted
      <4>2. CASE contents[n] # <<>>
        <5>1. contents'[m] = contents[n] \/ contents'[m] = contents[m]
          BY <1>0, <1>3, <4>2, ShiftedPlace
        <5>. QED  BY <3>1, <3>2, <4>2, <5>1
      <4>. QED  BY <4>1, <4>2
    <3>4. n # 0 => contents'[0] = contents[0]
      BY <1>0, <1>3 DEF Shifted
    <3>5. n = 0 => Len(contents'[0]) = 0
      BY <2>4
    <3>. QED  BY <1>0, <2>5, <2>9, <3>3, <3>4, <3>5 DEF SizeInv
  <2>11. InOrder(contents) /\ InOrder(contents')
    BY <1>3, <2>0, ShiftKeepsOrder DEF OrderInv
  <2>12. /\ \A a \in InFile, b \in Entries(contents) : a > b => a \in Entries(contents)
         /\ Entries(contents) # InFile => Cardinality(InFile) > MaxSize * MaxFiles
    BY <2>0 DEF OrderInv
  <2>13. Entries(contents') \subseteq Entries(contents)
    BY <1>3, ShiftEntries
  <2>14. /\ \A a \in InFile, b \in Entries(contents') : a > b => a \in Entries(contents')
         /\ Entries(contents') # InFile => Cardinality(InFile) > MaxSize * MaxFiles
    <3>1. CASE contents[n] = <<>> \/ contents[n + 1] = <<>>
      <4>1. Entries(contents') = Entries(contents)
        BY <1>3, <3>1, ShiftEntries
      <4>. QED  BY <2>12, <4>1
    <3>2. CASE contents[n] # <<>> /\ contents[n + 1] # <<>>
      <4>1. n + 1 = MaxFiles
        BY <2>0, <2>1, <3>2 DEF GapInv
      <4>2. ASSUME NEW a \in InFile, NEW b \in Entries(contents'), a > b
            PROVE  a \in Entries(contents')
        <5>1. a \in Entries(contents)
          BY <2>12, <2>13, <4>2
        <5>. QED  BY <1>3, <2>11, <4>1, <4>2, <5>1, ShiftKeepsNewest
      <4>3. ASSUME NEW m \in 0 .. MaxFiles PROVE Len(contents[m]) = MaxSize
        <5>1. contents[m] # <<>>
          <6>1. CASE m = n + 1
            BY <3>2, <6>1
          <6>2. CASE m # n + 1
            BY <1>0, <2>3, <3>2, <4>1, <6>2
          <6>. QED  BY <6>1, <6>2
        <5>. QED  BY <1>0, <2>0, <2>9, <5>1 DEF SizeInv
      <4>4. Cardinality(Entries(contents)) > MaxSize * MaxFiles
        BY <1>3, <2>0, <4>3, FullFiles DEF PlacesInv
      <4>5. Cardinality(InFile) > MaxSize * MaxFiles
        <5>1. CASE Entries(contents) = InFile
          BY <4>4, <5>1
        <5>2. CASE Entries(contents) # InFile
          BY <2>12, <5>2
        <5>. QED  BY <5>1, <5>2
      <4>. QED  BY <4>2, <4>5
    <3>. QED  BY <3>1, <3>2
  <2>15. OrderInv'
    BY <1>2, <2>11, <2>14 DEF OrderInv, InOrder, Entries
  <2>. QED  BY <2>7, <2>10, <2>15
<1>. QED  BY <1>2, <1>4, <1>5, <1>6 DEF LoggerInv

LEMMA AppendIsSeq ==
    ASSUME NEW f, f \in Seq(Nat), NEW i \in Nat
    PROVE  /\ Append(f, i) \in Seq(Nat) /\ Append(f, i) # <<>>
           /\ Len(Append(f, i)) = Len(f) + 1 /\ Len(f) \in Nat
OBVIOUS

LEMMA SeqReplaced ==
    ASSUME NEW S, NEW q \in Seq(S), NEW i \in DOMAIN q, NEW v \in S
    PROVE  LET r == [q EXCEPT ![i] = v]
           IN  /\ r \in Seq(S) /\ Len(r) = Len(q) /\ DOMAIN r = DOMAIN q /\ r[i] = v
               /\ \A j \in DOMAIN q : j # i => r[j] = q[j]
OBVIOUS

LEMMA SeqAppended ==
    ASSUME NEW S, NEW q \in Seq(S), NEW v \in S
    PROVE  /\ Append(q, v) \in Seq(S) /\ Append(q, v) # <<>>
           /\ Len(Append(q, v)) = Len(q) + 1 /\ DOMAIN Append(q, v) = 1 .. Len(q) + 1
           /\ Append(q, v)[Len(q) + 1] = v
           /\ \A j \in 1 .. Len(q) : Append(q, v)[j] = q[j]
OBVIOUS

LEMMA SeqElement ==
    ASSUME NEW S, NEW q \in Seq(S)
    PROVE  \A j \in DOMAIN q : q[j] \in S
OBVIOUS

\* So many calls are finite.
LEMMA CallsAreFinite ==
    ASSUME LoggerTypeOK, NEW S, S \subseteq DOMAIN calls
    PROVE  IsFiniteSet(S)
<1>1. DOMAIN calls = 1 .. Len(calls) /\ Len(calls) \in Nat
  BY DEF LoggerTypeOK
<1>2. IsFiniteSet(1 .. Len(calls))
  BY <1>1, FS_Interval
<1>. QED  BY <1>1, <1>2, FS_Subset

\* The write of the rotating transport ends it.
LEMMA AppendKeepsLogger ==
    ASSUME LoggerAssumptions, LoggerInv, NEW i \in DOMAIN calls, AppendFile(i)
    PROVE  LoggerInv'
<1>. DEFINE s == <<"done", 0>>
<1>0. /\ MaxFiles \in Nat /\ MaxFiles >= 1 /\ MaxSize \in Nat /\ MaxSize >= 1 /\ LoggerTypeOK
      /\ 0 \in 0 .. MaxFiles /\ i \in Nat /\ DOMAIN calls = 1 .. Len(calls) /\ Len(calls) \in Nat
  BY DEF LoggerAssumptions, LoggerInv, LoggerTypeOK
<1>1. /\ Rotating \in Transports /\ writes[i][Rotating][1] = "append" /\ ~IsAt(i, Rotating, "done")
      /\ s \in Steps /\ s[1] # "failed" /\ s[1] = "done"
      /\ writes' = [writes EXCEPT ![i][Rotating] = s]
      /\ transports' = transports /\ overlap' = overlap /\ calls' = calls /\ others' = others
      /\ files' = [files EXCEPT ![0] = IF @ = Missing THEN <<i>> ELSE Append(@, i)]
  BY DEF AppendFile, GoTo, IsAt, Steps
<1>2. /\ writes' \in Seq([Transports' -> Steps]) /\ Len(writes') = Len(calls') /\ Transports' = Transports
      /\ ReceivedInv' /\ ResolvedInv' /\ InFile' = InFile \cup {i} /\ i \notin InFile
      /\ IsAwaited' <=> IsAwaited
      /\ IsAwaited =>
            /\ AwaitedInv' /\ i = Len(calls)
            /\ \A t : LastIsAt(t) <=> writes[i][Rotating] = t
            /\ \A t : LastIsAt(t)' <=> s = t
  <2>. HIDE DEF s
  <2>. QED  BY <1>1, RotatingMoves
<1>3. /\ files' \in [0 .. MaxFiles -> (Seq(Nat) \ {<<>>}) \cup {Missing}]
      /\ contents \in FileContents /\ contents' \in FileContents
      /\ AppendedTo(contents, contents', i)
  <2>1. /\ files \in [0 .. MaxFiles -> (Seq(Nat) \ {<<>>}) \cup {Missing}] /\ contents \in FileContents
        /\ contents[0] \in Seq(Nat) /\ contents[0] = Contents(0)
    BY <1>0, ContentsType, FileIsSeq DEF LoggerTypeOK
  <2>2. Append(contents[0], i) \in Seq(Nat) /\ Append(contents[0], i) # <<>>
    BY <1>0, <2>1, AppendIsSeq
  <2>3. IF files[0] = Missing THEN contents[0] = <<>> ELSE contents[0] = files[0]
    BY <2>1 DEF Contents
  <2>4. files'[0] = Append(contents[0], i)
    BY <1>0, <1>1, <2>1, <2>3
  <2>5. files' = [files EXCEPT ![0] = Append(contents[0], i)]
    BY <1>0, <1>1, <2>1, <2>4
  <2>6. files' \in [0 .. MaxFiles -> (Seq(Nat) \ {<<>>}) \cup {Missing}]
    BY <1>0, <2>1, <2>2, <2>5
  <2>7. files'[0] # Missing /\ \A m \in 1 .. MaxFiles : files'[m] = files[m]
    <3>1. files'[0] # Missing
      BY <2>2, <2>4, LoggerAssumptions DEF LoggerAssumptions
    <3>2. \A m \in 1 .. MaxFiles : m # 0 /\ m \in 0 .. MaxFiles
      BY <1>0
    <3>. QED  BY <2>1, <2>5, <3>1, <3>2
  <2>8. AppendedTo(contents, contents', i)
    BY <1>0, <2>4, <2>7 DEF AppendedTo, contents, Contents
  <2>9. \A m \in 0 .. MaxFiles : contents'[m] \in Seq(Nat)
    <3>1. contents'[0] \in Seq(Nat)
      BY <2>2, <2>8 DEF AppendedTo
    <3>2. ASSUME NEW m \in 1 .. MaxFiles PROVE contents'[m] \in Seq(Nat)
      <4>1. contents'[m] = contents[m] /\ m \in 0 .. MaxFiles
        BY <1>0, <2>8 DEF AppendedTo
      <4>2. contents[m] \in Seq(Nat)
        BY <2>1, <4>1, FileIsSeq
      <4>. QED  BY <4>1, <4>2
    <3>. QED  BY <1>0, <3>1, <3>2
  <2>10. contents' \in FileContents
    BY <2>9 DEF FileContents, contents
  <2>. QED  BY <2>1, <2>6, <2>8, <2>10
<1>4. LoggerTypeOK'
  BY <1>0, <1>1, <1>2, <1>3 DEF LoggerTypeOK
<1>5. Once(contents) /\ Entries(contents) \subseteq InFile /\ Entries(contents') = Entries(contents) \cup {i}
  BY <1>0, <1>3, AppendEntries DEF LoggerInv, PlacesInv
<1>6. PlacesInv'
  <2>1. Once(contents')
    BY <1>0, <1>2, <1>3, <1>5, AppendKeepsOnce
  <2>. QED  BY <1>2, <1>5, <2>1 DEF PlacesInv, Entries, Once
<1>7. ASSUME IsAwaited PROVE GapInv' /\ SizeInv' /\ OrderInv'
  <2>0. GapInv /\ SizeInv /\ OrderInv
    BY <1>7 DEF LoggerInv
  <2>1. /\ \A m \in 0 .. MaxFiles - 1 : ~LastIsAt(<<"rename", m>>) /\ ~LastIsAt(<<"rename", m>>)'
        /\ ~LastIsAt(<<"append", 0>>)'
        /\ \A m \in 1 .. MaxFiles : ~IsHole(m)
    BY <1>0, <1>1, <1>2, <1>7 DEF IsHole
  <2>2. LastIsAt(<<"append", 0>>)
    <3>1. writes[i][Rotating] \in Steps
      BY <1>0, <1>1 DEF LoggerTypeOK
    <3>2. writes[i][Rotating] = <<"append", 0>>
      BY <1>1, <3>1 DEF Steps
    <3>. QED  BY <1>2, <1>7, <3>2
  <2>3. contents[0] \in Seq(Nat) /\ Len(contents[0]) < MaxSize
    BY <1>0, <1>3, <2>0, <2>2, FileIsSeq DEF SizeInv
  <2>4. /\ contents'[0] # <<>> /\ Len(contents'[0]) <= MaxSize
        /\ \A m \in 1 .. MaxFiles : contents'[m] = contents[m]
    <3>1. contents'[0] = Append(contents[0], i)
      BY <1>3 DEF AppendedTo
    <3>2. contents'[0] # <<>> /\ Len(contents'[0]) = Len(contents[0]) + 1 /\ Len(contents[0]) \in Nat
      BY <1>0, <2>3, <3>1, AppendIsSeq
    <3>3. \A m \in 1 .. MaxFiles : contents'[m] = contents[m]
      BY <1>3 DEF AppendedTo
    <3>. QED  BY <1>0, <2>3, <3>2, <3>3
  <2>5. GapInv'
    <3>1. \A j, k \in 0 .. MaxFiles : j < k /\ contents'[j] = <<>> /\ contents'[k] # <<>> => FALSE
      <4>. SUFFICES ASSUME NEW j \in 0 .. MaxFiles, NEW k \in 0 .. MaxFiles,
                           j < k, contents'[j] = <<>>, contents'[k] # <<>>
                    PROVE  FALSE
        OBVIOUS
      <4>1. j \in 1 .. MaxFiles /\ k \in 1 .. MaxFiles
        BY <1>0, <2>4
      <4>2. contents[j] = <<>> /\ contents[k] # <<>>
        BY <2>4, <4>1
      <4>. QED  BY <2>0, <2>1, <4>1, <4>2 DEF GapInv
    <3>. QED  BY <2>1, <3>1 DEF GapInv
  <2>6. SizeInv'
    BY <2>0, <2>1, <2>4 DEF SizeInv
  <2>7. \A j \in InFile : j < i
    BY <1>0, <1>2, <1>7 DEF InFile
  <2>8. InOrder(contents')
    BY <1>0, <1>3, <1>5, <2>0, <2>7, AppendKeepsOrder DEF OrderInv
  <2>9. \A a \in InFile', b \in Entries(contents') : a > b => a \in Entries(contents')
    <3>. SUFFICES ASSUME NEW a \in InFile, NEW b \in Entries(contents'), a > b
                  PROVE  a \in Entries(contents')
      BY <1>2, <1>5
    <3>1. b # i
      BY <1>0, <2>7 DEF InFile
    <3>. QED  BY <1>5, <2>0, <3>1 DEF OrderInv
  <2>10. Entries(contents') # InFile' => Cardinality(InFile') > MaxSize * MaxFiles
    <3>. SUFFICES ASSUME Entries(contents) # InFile
                  PROVE  Cardinality(InFile \cup {i}) > MaxSize * MaxFiles
      BY <1>2, <1>5
    <3>1. Cardinality(InFile) > MaxSize * MaxFiles
      BY <2>0 DEF OrderInv
    <3>2. IsFiniteSet(InFile)
      <4>1. InFile \subseteq DOMAIN calls
        BY DEF InFile
      <4>. QED  BY <1>0, <4>1, CallsAreFinite
    <3>3. Cardinality(InFile \cup {i}) = Cardinality(InFile) + 1 /\ Cardinality(InFile) \in Nat
      BY <1>2, <3>2, FS_AddElement, FS_CardinalityType
    <3>4. MaxSize * MaxFiles \in Nat
      BY <1>0
    <3>. QED  BY <3>1, <3>3, <3>4
  <2>11. OrderInv'
    BY <2>8, <2>9, <2>10 DEF OrderInv, InOrder, Entries
  <2>. QED  BY <2>5, <2>6, <2>11
<1>. QED  BY <1>2, <1>4, <1>6, <1>7 DEF LoggerInv

\* The application logs once more; if it awaits its calls, the ones before it are done.
LEMMA LogKeepsLogger ==
    ASSUME LoggerAssumptions, LoggerInv, NEW level \in Nat, Log(level)
    PROVE  LoggerInv'
<1>. DEFINE logged == [level |-> level, state |-> "pending"]
            write == [k \in Transports |-> Begin(level, k)]
<1>0. LoggerTypeOK /\ ReceivedInv /\ ResolvedInv /\ PlacesInv
  BY DEF LoggerInv
<1>1. PICK l \in Nat : l = Len(calls)
  BY <1>0 DEF LoggerTypeOK
<1>2. /\ calls' = Append(calls, logged) /\ writes' = Append(writes, write)
      /\ transports' = transports /\ overlap' = overlap /\ files' = files /\ others' = others
      /\ Transports' = Transports
  BY DEF Log, Transports
<1>3. write \in [Transports -> Steps]
  BY DEF Begin, Steps
<1>4. /\ DOMAIN calls = 1 .. l /\ DOMAIN calls' = 1 .. l + 1 /\ Len(calls') = l + 1 /\ calls' # <<>>
      /\ calls'[l + 1] = logged /\ \A j \in 1 .. l : calls'[j] = calls[j]
      /\ writes'[l + 1] = write /\ \A j \in 1 .. l : writes'[j] = writes[j]
  <2>1. /\ calls \in Seq([level : Nat, state : {"pending", "resolved", "rejected"}])
        /\ writes \in Seq([Transports -> Steps]) /\ Len(writes) = l /\ DOMAIN calls = 1 .. l
    BY <1>0, <1>1 DEF LoggerTypeOK
  <2>2. logged \in [level : Nat, state : {"pending", "resolved", "rejected"}]
    OBVIOUS
  <2>. HIDE DEF logged, write
  <2>3. /\ DOMAIN calls' = 1 .. l + 1 /\ Len(calls') = l + 1 /\ calls' # <<>>
        /\ calls'[l + 1] = logged /\ \A j \in 1 .. l : calls'[j] = calls[j]
    BY <1>1, <1>2, <2>1, <2>2, SeqAppended
  <2>4. writes'[l + 1] = write /\ \A j \in 1 .. l : writes'[j] = writes[j]
    BY <1>2, <1>3, <2>1, SeqAppended
  <2>. QED  BY <2>1, <2>3, <2>4
<1>5. LoggerTypeOK'
  <2>1. calls' \in Seq([level : Nat, state : {"pending", "resolved", "rejected"}])
    BY <1>0, <1>2 DEF LoggerTypeOK
  <2>2. writes' \in Seq([Transports -> Steps]) /\ Len(writes') = Len(calls')
    BY <1>0, <1>1, <1>2, <1>3 DEF LoggerTypeOK
  <2>. QED  BY <1>0, <1>2, <2>1, <2>2 DEF LoggerTypeOK
<1>6. \A m : IsLogged(level, m) <=> Begin(level, m) # <<"done", 0>>
  BY DEF Begin
<1>7. /\ \A j \in 1 .. l : \A t, m : IsAt(j, m, t)' <=> IsAt(j, m, t)
      /\ \A m \in Transports : IsAt(l + 1, m, "done")' <=> ~IsLogged(level, m)
      /\ \A a, m : IsLogged(a, m)' <=> IsLogged(a, m)
      /\ \A m \in Transports : ~IsAt(l + 1, m, "failed")'
  <2>1. \A j \in 1 .. l : \A t, m : IsAt(j, m, t)' <=> IsAt(j, m, t)
    BY <1>4 DEF IsAt
  <2>2. \A a, m : IsLogged(a, m)' <=> IsLogged(a, m)
    BY <1>2 DEF IsLogged
  <2>3. \A m \in Transports : writes'[l + 1][m] = Begin(level, m)
    BY <1>4
  <2>4. \A m \in Transports : (IsAt(l + 1, m, "done")' <=> ~IsLogged(level, m)) /\ ~IsAt(l + 1, m, "failed")'
    BY <2>3 DEF IsAt, Begin
  <2>. QED  BY <2>1, <2>2, <2>4
<1>8. \A j \in 1 .. l + 1 : j \in 1 .. l \/ (j = l + 1 /\ j \notin 1 .. l)
  BY <1>1
<1>9. ReceivedInv'
  <2>. SUFFICES ASSUME NEW m \in Transports \ {Rotating}
                PROVE  /\ \A x \in DOMAIN others[m] : others[m][x] \in 1 .. l + 1 /\ writes'[others[m][x]][m][1] = "done"
                       /\ \A x, y \in DOMAIN others[m] : others[m][x] = others[m][y] => x = y
                       /\ \A j \in 1 .. l + 1 :
                            IsLogged(calls'[j].level, m) /\ IsAt(j, m, "done")' => \E x \in DOMAIN others[m] : others[m][x] = j
    <3>1. others' = others /\ Transports' = Transports /\ DOMAIN calls' = 1 .. l + 1
      BY <1>2, <1>4
    <3>2. \A a, m : IsLogged(a, m)' <=> IsLogged(a, m)
      BY <1>7
    <3>. QED  BY <3>1, <3>2 DEF ReceivedInv, IsAt
  <2>1. /\ \A x \in DOMAIN others[m] : others[m][x] \in 1 .. l /\ IsAt(others[m][x], m, "done")
        /\ \A x, y \in DOMAIN others[m] : others[m][x] = others[m][y] => x = y
        /\ \A j \in 1 .. l :
                IsLogged(calls[j].level, m) /\ IsAt(j, m, "done") => \E x \in DOMAIN others[m] : others[m][x] = j
    BY <1>0, <1>4 DEF ReceivedInv
  <2>2. \A x \in DOMAIN others[m] : others[m][x] \in 1 .. l + 1 /\ writes'[others[m][x]][m][1] = "done"
    BY <1>1, <1>4, <2>1 DEF IsAt
  <2>3. ASSUME NEW j \in 1 .. l + 1, IsLogged(calls'[j].level, m), IsAt(j, m, "done")'
        PROVE  \E x \in DOMAIN others[m] : others[m][x] = j
    <3>1. CASE j \in 1 .. l
      BY <1>4, <1>7, <2>1, <2>3, <3>1
    <3>2. CASE j = l + 1
      BY <1>4, <1>7, <2>3, <3>2
    <3>. QED  BY <1>8, <3>1, <3>2
  <2>. QED  BY <2>1, <2>2, <2>3
<1>10. ResolvedInv'
  <2>. SUFFICES ASSUME NEW j \in 1 .. l + 1, NEW m \in Transports
                PROVE  /\ calls'[j].state = "resolved" => IsAt(j, m, "done")'
                       /\ IsLogged(calls'[j].level, m) \/ IsAt(j, m, "done")'
    BY <1>2, <1>4, <1>7 DEF ResolvedInv
  <2>1. CASE j \in 1 .. l
    BY <1>0, <1>4, <1>7, <2>1 DEF ResolvedInv
  <2>2. CASE j = l + 1
    BY <1>4, <1>7, <2>2
  <2>. QED  BY <1>8, <2>1, <2>2
<1>11. InFile' = InFile
  <2>1. \A j \in 1 .. l : j \in InFile' <=> j \in InFile
    BY <1>1, <1>2, <1>4, <1>7 DEF InFile
  <2>2. l + 1 \notin InFile'
    BY <1>2, <1>4, <1>7 DEF InFile
  <2>3. InFile \subseteq 1 .. l /\ InFile' \subseteq 1 .. l + 1
    BY <1>4 DEF InFile
  <2>. QED  BY <1>8, <2>1, <2>2, <2>3
<1>12. contents' = contents
  BY <1>2, SameFiles
<1>13. PlacesInv'
  BY <1>0, <1>11, <1>12 DEF PlacesInv
<1>14. ASSUME IsAwaited' PROVE AwaitedInv' /\ GapInv' /\ SizeInv' /\ OrderInv'
  <2>1. IsAwaited /\ overlap = 1 /\ AwaitedInv /\ GapInv /\ SizeInv /\ OrderInv
    BY <1>2, <1>14 DEF IsAwaited, LoggerInv
  <2>2. \A j \in DOMAIN calls : calls[j].state # "pending"
    <3>. DEFINE Pending == {j \in DOMAIN calls : calls[j].state = "pending"}
    <3>1. Cardinality(Pending) < 1
      BY <2>1 DEF Log
    <3>2. IsFiniteSet(Pending)
      <4>1. Pending \subseteq DOMAIN calls
        OBVIOUS
      <4>. HIDE DEF Pending
      <4>. QED  BY <1>0, <4>1, CallsAreFinite
    <3>3. Pending = {}
      <4>. HIDE DEF Pending
      <4>1. Cardinality(Pending) \in Nat
        BY <3>2, FS_CardinalityType
      <4>. QED  BY <3>1, <3>2, <4>1, FS_EmptySet
    <3>. QED  BY <3>3
  <2>3. \A j \in 1 .. l : calls[j].state = "resolved"
    <3>1. \A j \in 1 .. l : calls[j].state \in {"pending", "resolved", "rejected"}
      <4>1. \A j \in 1 .. l : calls[j] \in [level : Nat, state : {"pending", "resolved", "rejected"}]
        <5>1. calls \in Seq([level : Nat, state : {"pending", "resolved", "rejected"}])
          BY <1>0 DEF LoggerTypeOK
        <5>. QED  BY <1>4, <5>1, SeqElement
      <4>. QED  BY <4>1
    <3>. QED  BY <1>4, <2>1, <2>2, <3>1 DEF AwaitedInv
  <2>4. AwaitedInv'
    <3>1. \A j \in 1 .. l + 1 : calls'[j].state # "rejected" /\ (j # l + 1 => calls'[j].state = "resolved")
      BY <1>4, <1>8, <2>3
    <3>2. \A j \in 1 .. l + 1, m \in Transports : ~IsAt(j, m, "failed")'
      BY <1>4, <1>7, <1>8, <2>1 DEF AwaitedInv
    <3>. QED  BY <1>2, <1>4, <3>1, <3>2 DEF AwaitedInv
  <2>5. \A t : LastIsAt(t) => t[1] = "done"
    <3>1. calls # <<>> => l \in 1 .. l
      BY <1>0, <1>1 DEF LoggerTypeOK
    <3>. QED  BY <1>0, <1>1, <1>4, <2>3, <3>1 DEF LastIsAt, ResolvedInv, IsAt
  <2>6. \A t : LastIsAt(t)' => t[1] \in {"begun", "done"}
    <3>1. \A m \in Transports : writes'[l + 1][m] = Begin(level, m)
      BY <1>4
    <3>2. \A t : LastIsAt(t)' => Rotating \in Transports /\ t = writes'[l + 1][Rotating]
      BY <1>2, <1>4 DEF LastIsAt
    <3>. QED  BY <3>1, <3>2 DEF Begin
  <2>7. /\ \A n : ~LastIsAt(<<"rename", n>>) /\ ~LastIsAt(<<"rename", n>>)'
        /\ ~LastIsAt(<<"append", 0>>) /\ ~LastIsAt(<<"append", 0>>)'
    BY <2>5, <2>6
  <2>8. \A n : ~IsHole(n)
    BY <2>7 DEF IsHole
  <2>. QED  BY <1>2, <1>11, <1>12, <2>1, <2>4, <2>7, <2>8, FilesStay
<1>. QED  BY <1>5, <1>9, <1>10, <1>13, <1>14 DEF LoggerInv

\* A promise settles, with what its transports did.
LEMMA SettleKeepsLogger ==
    ASSUME LoggerAssumptions, LoggerInv, NEW i \in DOMAIN calls, Settle(i)
    PROVE  LoggerInv'
<1>0. LoggerTypeOK /\ ReceivedInv /\ ResolvedInv /\ PlacesInv
  BY DEF LoggerInv
<1>1. PICK l \in Nat : l = Len(calls)
  BY <1>0 DEF LoggerTypeOK
<1>2. /\ calls' = [calls EXCEPT ![i].state = SettlesWith(i)]
      /\ transports' = transports /\ overlap' = overlap /\ writes' = writes /\ files' = files /\ others' = others
      /\ Transports' = Transports /\ SettlesWith(i) # "pending"
  BY DEF Settle, Transports
<1>3. SettlesWith(i) \in {"pending", "resolved", "rejected"}
  BY DEF SettlesWith
<1>4. calls \in Seq([level : Nat, state : {"pending", "resolved", "rejected"}]) /\ DOMAIN calls = 1 .. l
  BY <1>0, <1>1 DEF LoggerTypeOK
<1>5. /\ calls' \in Seq([level : Nat, state : {"pending", "resolved", "rejected"}])
      /\ DOMAIN calls' = 1 .. l /\ Len(calls') = l /\ calls' # <<>> /\ calls # <<>>
      /\ \A j \in 1 .. l : calls'[j].level = calls[j].level
      /\ \A j \in 1 .. l : j # i => calls'[j].state = calls[j].state
      /\ calls'[i].state = SettlesWith(i)
  <2>0. calls[i] \in [level : Nat, state : {"pending", "resolved", "rejected"}]
    BY <1>4, SeqElement
  <2>. DEFINE v == [calls[i] EXCEPT !.state = SettlesWith(i)]
  <2>1. v \in [level : Nat, state : {"pending", "resolved", "rejected"}]
    BY <1>3, <2>0
  <2>2. calls' = [calls EXCEPT ![i] = v]
    BY <1>2
  <2>3. /\ calls' \in Seq([level : Nat, state : {"pending", "resolved", "rejected"}])
        /\ DOMAIN calls' = 1 .. l /\ Len(calls') = l /\ calls' # <<>> /\ calls # <<>>
        /\ \A j \in 1 .. l : j # i => calls'[j] = calls[j]
        /\ calls'[i] = v
    <3>. HIDE DEF v
    <3>1. /\ calls' \in Seq([level : Nat, state : {"pending", "resolved", "rejected"}])
          /\ Len(calls') = l /\ DOMAIN calls' = 1 .. l /\ calls'[i] = v
          /\ \A j \in 1 .. l : j # i => calls'[j] = calls[j]
      BY <1>1, <1>4, <2>1, <2>2, SeqReplaced
    <3>2. i \in DOMAIN calls' /\ i \in DOMAIN calls
      BY <1>4, <3>1
    <3>. QED  BY <3>1, <3>2
  <2>4. calls'[i].state = SettlesWith(i) /\ calls'[i].level = calls[i].level
    BY <2>0, <2>3
  <2>. QED  BY <2>3, <2>4
<1>6. LoggerTypeOK'
  BY <1>0, <1>1, <1>2, <1>5 DEF LoggerTypeOK
<1>7. \A a, m : (IsLogged(a, m)' <=> IsLogged(a, m)) /\ \A j, t : IsAt(j, m, t)' <=> IsAt(j, m, t)
  BY <1>2 DEF IsLogged, IsAt
<1>8. ReceivedInv'
  BY <1>0, <1>2, <1>4, <1>5, <1>7 DEF ReceivedInv
<1>9. /\ SettlesWith(i) = "resolved" => \A k \in Transports : IsAt(i, k, "done")
      /\ SettlesWith(i) = "rejected" => \E k \in Transports : IsAt(i, k, "failed")
  BY <1>2 DEF SettlesWith, IsAt
<1>10. ResolvedInv'
  BY <1>0, <1>2, <1>4, <1>5, <1>7, <1>9 DEF ResolvedInv
<1>11. InFile' = InFile /\ contents' = contents
  BY <1>2, <1>4, <1>5, <1>7, SameFiles DEF InFile
<1>12. PlacesInv'
  BY <1>0, <1>11 DEF PlacesInv
<1>13. ASSUME IsAwaited' PROVE AwaitedInv' /\ GapInv' /\ SizeInv' /\ OrderInv'
  <2>1. IsAwaited /\ AwaitedInv /\ GapInv /\ SizeInv /\ OrderInv
    BY <1>2, <1>13 DEF IsAwaited, LoggerInv
  <2>2. SettlesWith(i) = "resolved"
    BY <1>2, <1>3, <1>9, <2>1 DEF AwaitedInv
  <2>3. AwaitedInv'
    <3>1. \A j \in 1 .. l : calls'[j].state # "rejected" /\ (j # l => calls'[j].state = "resolved")
      BY <1>1, <1>4, <1>5, <2>1, <2>2 DEF AwaitedInv
    <3>2. \A j \in 1 .. l, m \in Transports : ~IsAt(j, m, "failed")'
      BY <1>4, <1>7, <2>1 DEF AwaitedInv
    <3>. QED  BY <1>2, <1>5, <3>1, <3>2 DEF AwaitedInv
  <2>4. \A t : LastIsAt(t)' <=> LastIsAt(t)
    BY <1>1, <1>2, <1>5 DEF LastIsAt
  <2>5. \A n : IsHole(n)' <=> IsHole(n)
    BY <2>4 DEF IsHole
  <2>. QED  BY <1>2, <1>11, <2>1, <2>3, <2>4, <2>5, FilesStay
<1>. QED  BY <1>6, <1>8, <1>10, <1>12, <1>13 DEF LoggerInv

LEMMA LoggerStep == LoggerAssumptions /\ LoggerInv /\ [LogNext]_logVars => LoggerInv'
<1>. SUFFICES ASSUME LoggerAssumptions, LoggerInv, [LogNext]_logVars PROVE LoggerInv'
  OBVIOUS
<1>1. ASSUME NEW method \in LoggedWith, Log(Methods[method]) PROVE LoggerInv'
  <2>1. Methods[method] \in Nat
    BY DEF LoggerAssumptions, Methods, LogLevel
  <2>. QED  BY <1>1, <2>1, LogKeepsLogger
<1>2. ASSUME NEW i \in DOMAIN calls, NEW k, k # Rotating, Receive(i, k) PROVE LoggerInv'
  <2>1. k \in Transports \ {Rotating}
    BY <1>2 DEF Receive
  <2>. QED  BY <1>2, <2>1, OtherKeepsLogger
<1>3. ASSUME NEW i \in DOMAIN calls, NEW k \in {"http", "webhook"}, FetchFails(i, k) PROVE LoggerInv'
  <2>1. k \in Transports \ {Rotating} /\ ~IsAwaited
    BY <1>3 DEF FetchFails, IsAwaited, Rotating
  <2>. QED  BY <1>3, <2>1, OtherKeepsLogger
<1>4. ASSUME NEW i \in DOMAIN calls,
             WriteMemory(i) \/ WriteStream(i) \/ WriteConsole(i) \/ WriteHttp(i) \/ WriteWebhook(i)
      PROVE  LoggerInv'
  <2>1. \/ \E k \in {"memory", "stream", "console", "http", "webhook"} : Receive(i, k)
        \/ \E k \in {"http", "webhook"} : FetchFails(i, k)
    BY <1>4 DEF WriteMemory, WriteStream, WriteConsole, WriteHttp, WriteWebhook
  <2>2. \A k \in {"memory", "stream", "console", "http", "webhook"} : k # Rotating
    BY DEF Rotating
  <2>. QED  BY <1>2, <1>3, <2>1, <2>2
<1>5. CASE UNCHANGED logVars
  <2>1. /\ UNCHANGED <<transports, overlap, calls, writes, files, others>> /\ Transports' = Transports
        /\ contents' = contents
    BY <1>5, SameFiles DEF logVars, Transports
  <2>2. \A a, m : (IsLogged(a, m)' <=> IsLogged(a, m)) /\ \A j, t : IsAt(j, m, t)' <=> IsAt(j, m, t)
    BY <2>1 DEF IsLogged, IsAt
  <2>3. LoggerTypeOK' /\ ReceivedInv' /\ ResolvedInv' /\ InFile' = InFile
    <3>1. LoggerTypeOK'
      BY <2>1 DEF LoggerInv, LoggerTypeOK
    <3>2. ReceivedInv'
      BY <2>1, <2>2 DEF LoggerInv, ReceivedInv
    <3>3. ResolvedInv'
      BY <2>1, <2>2 DEF LoggerInv, ResolvedInv
    <3>4. InFile' = InFile
      BY <2>1, <2>2 DEF InFile
    <3>. QED  BY <3>1, <3>2, <3>3, <3>4
  <2>4. PlacesInv'
    BY <2>1, <2>3 DEF LoggerInv, PlacesInv
  <2>5. (IsAwaited' <=> IsAwaited) /\ \A t : LastIsAt(t)' <=> LastIsAt(t)
    BY <2>1 DEF IsAwaited, LastIsAt
  <2>6. \A n : IsHole(n)' <=> IsHole(n)
    BY <2>5 DEF IsHole
  <2>7. ASSUME IsAwaited PROVE AwaitedInv' /\ GapInv' /\ SizeInv' /\ OrderInv'
    <3>1. AwaitedInv /\ GapInv /\ SizeInv /\ OrderInv
      BY <2>7 DEF LoggerInv
    <3>2. AwaitedInv'
      BY <2>1, <2>2, <3>1 DEF AwaitedInv
    <3>. QED  BY <2>1, <2>3, <2>5, <2>6, <3>1, <3>2, FilesStay
  <2>. QED  BY <2>3, <2>4, <2>5, <2>7 DEF LoggerInv
<1>. QED  BY <1>1, <1>4, <1>5, StatKeepsLogger, RotateKeepsLogger, AppendKeepsLogger, SettleKeepsLogger DEF LogNext

\* The places of the entries in the files.
LEMMA PlaceIsInFile ==
    ASSUME LoggerAssumptions, LoggerTypeOK
    PROVE  /\ \A p \in Places : /\ p[1] \in 0 .. MaxFiles /\ p[2] \in 1 .. Len(contents[p[1]]) /\ p = <<p[1], p[2]>>
                                /\ EntryAt(p) = contents[p[1]][p[2]]
           /\ \A n \in 0 .. MaxFiles : \A x \in 1 .. Len(contents[n]) :
                <<n, x>> \in Places /\ EntryAt(<<n, x>>) = contents[n][x]
<1>1. \A n \in 0 .. MaxFiles : contents[n] = Contents(n) /\ DOMAIN Contents(n) = 1 .. Len(contents[n])
  <2>. TAKE n \in 0 .. MaxFiles
  <2>1. contents \in FileContents /\ contents[n] = Contents(n)
    BY ContentsType
  <2>. QED  BY <2>1, FileIsSeq
<1>2. ASSUME NEW p \in Places
      PROVE  /\ p[1] \in 0 .. MaxFiles /\ p[2] \in 1 .. Len(contents[p[1]]) /\ p = <<p[1], p[2]>>
             /\ EntryAt(p) = contents[p[1]][p[2]]
  <2>1. PICK n \in 0 .. MaxFiles : p \in {n} \X DOMAIN Contents(n)
    BY DEF Places
  <2>. QED  BY <1>1, <2>1 DEF EntryAt
<1>3. ASSUME NEW n \in 0 .. MaxFiles, NEW x \in 1 .. Len(contents[n])
      PROVE  <<n, x>> \in Places /\ EntryAt(<<n, x>>) = contents[n][x]
  <2>1. <<n, x>> \in {n} \X DOMAIN Contents(n)
    BY <1>1
  <2>. QED  BY <1>1, <2>1 DEF Places, EntryAt
<1>. QED  BY <1>2, <1>3

LEMMA LoggerInvKeeps == LoggerAssumptions /\ LoggerInv => LogIsKept
<1>. SUFFICES ASSUME LoggerAssumptions, LoggerInv PROVE LogIsKept
  OBVIOUS
<1>0. /\ LoggerTypeOK /\ ReceivedInv /\ ResolvedInv /\ PlacesInv
      /\ contents \in FileContents /\ \A n \in 0 .. MaxFiles : contents[n] = Contents(n)
      /\ MaxFiles \in Nat /\ MaxSize \in Nat /\ 0 \in 0 .. MaxFiles
  BY ContentsType DEF LoggerInv, LoggerAssumptions
<1>1. /\ \A p \in Places : /\ p[1] \in 0 .. MaxFiles /\ p[2] \in 1 .. Len(contents[p[1]]) /\ p = <<p[1], p[2]>>
                           /\ EntryAt(p) = contents[p[1]][p[2]]
      /\ \A n \in 0 .. MaxFiles : \A x \in 1 .. Len(contents[n]) :
            <<n, x>> \in Places /\ EntryAt(<<n, x>>) = contents[n][x]
  BY <1>0, PlaceIsInFile
<1>2. Kept = Entries(contents)
  <2>1. ASSUME NEW p \in Places PROVE EntryAt(p) \in Entries(contents)
    <3>1. EntryAt(p) \in Nat
      BY <1>0, <1>1, FileIsSeq
    <3>. QED  BY <1>1, <3>1 DEF Entries
  <2>2. ASSUME NEW j \in Entries(contents) PROVE \E p \in Places : EntryAt(p) = j
    <3>1. PICK n \in 0 .. MaxFiles : \E x \in 1 .. Len(contents[n]) : contents[n][x] = j
      BY DEF Entries
    <3>2. PICK x \in 1 .. Len(contents[n]) : contents[n][x] = j
      BY <3>1
    <3>. QED  BY <1>1, <3>2
  <2>. QED  BY <2>1, <2>2 DEF Kept
<1>3. ASSUME NEW p \in Places, NEW q \in Places, EntryAt(p) = EntryAt(q) PROVE p = q
  <2>1. p[1] = q[1] /\ p[2] = q[2]
    BY <1>0, <1>1, <1>3 DEF PlacesInv, Once
  <2>. QED  BY <1>1, <2>1
<1>4. ASSUME NEW i \in DOMAIN calls, calls[i].state = "resolved", NEW k \in Transports, IsLogged(calls[i].level, k)
      PROVE  IF k = Rotating THEN IsAt(i, k, "done") ELSE ReceivedOnce(i, k)
  <2>1. IsAt(i, k, "done")
    BY <1>0, <1>4 DEF ResolvedInv
  <2>2. CASE k # Rotating
    BY <1>0, <1>4, <2>1, <2>2 DEF ReceivedInv, ReceivedOnce
  <2>. QED  BY <2>1, <2>2
<1>5. ResolvedIsWritten
  BY <1>3, <1>4 DEF ResolvedIsWritten
<1>6. ASSUME IsAwaited
      PROVE  /\ Kept \subseteq InFile
             /\ \A i \in InFile, j \in Kept : i > j => i \in Kept
             /\ Kept # InFile => Cardinality(InFile) > MaxSize * MaxFiles
             /\ \A p, q \in Places : IsBefore(p, q) => EntryAt(p) < EntryAt(q)
             /\ \A n \in 0 .. MaxFiles : Len(Contents(n)) <= MaxSize
  <2>0. SizeInv /\ OrderInv
    BY <1>6 DEF LoggerInv
  <2>1. \A p, q \in Places : IsBefore(p, q) => EntryAt(p) < EntryAt(q)
    BY <1>1, <2>0 DEF OrderInv, InOrder, IsBefore
  <2>2. ASSUME NEW n \in 0 .. MaxFiles PROVE Len(contents[n]) <= MaxSize
    <3>1. contents[n] = <<>> => Len(contents[n]) = 0
      OBVIOUS
    <3>. QED  BY <1>0, <2>0, <3>1 DEF SizeInv
  <2>. QED  BY <1>0, <1>2, <2>0, <2>1, <2>2 DEF OrderInv, PlacesInv
<1>. QED  BY <1>5, <1>6 DEF LogIsKept, RotationKeepsTheNewest

\* A resolved call is written, and the rotation of an awaited logger keeps the
\* newest entries in order, for any number of entries, files and transports.
THEOREM LogIsKeptCorrect == LogSpec => []LogIsKept
<1>1. LoggerAssumptions
  BY LoggerAssumptions
<1>. QED  BY <1>1, LoggerInitially, LoggerStep, LoggerInvKeeps, PTL DEF LogSpec

-----------------------------------------------------------------------------
(* The messages of the WebSocket clients.                                  *)

Regexes == {i \in DOMAIN events : IsRegex(i)}
Matching(name) == {i \in DOMAIN events : Matches(events[i].event, name)}

Statuses == {"none", "connecting", "ready", "closed"}
Message ==
    [name : EventNames, ack : BOOLEAN, arrived : {"connecting", "ready"},
     exact : SUBSET Nat, regex : SUBSET Nat, queue : SUBSET Nat, ended : Seq(Nat),
     late : SUBSET Nat, answers : Seq([error : BOOLEAN, status : {"0", "1", "own"}])]

SocketTypeOK ==
    /\ adapter \in {"new", "registered", "started", "stopped"}
    /\ events \in Seq({events[i] : i \in DOMAIN events})
    /\ sockets \in [Clients -> [status : Statuses, namespace : Namespaces \cup {Nothing}]]
    /\ messages \in [Clients -> Seq(Message)]

\* A socket is connected after the events are registered, and stays in its namespace
\* from its first message on.
ConnectedInv ==
    \A c \in Clients :
        /\ messages[c] # <<>> => sockets[c].status # "none"
        /\ sockets[c].status # "none" => adapter \in {"started", "stopped"}

\* What ran, runs and waits is all that the message is for, each in one place.
\* The loop over the expressions runs one, which is after those that ran and
\* before those that wait.
PlacesOk(m, interested, regexes, matching) ==
    /\ m.arrived # "ready" => m.exact = {} /\ m.regex = {} /\ m.queue = {} /\ m.ended = <<>>
    /\ m.arrived = "ready" =>
        Ended(m) \cup m.exact \cup m.regex \cup (m.queue \cap matching) = interested
    /\ Ended(m) \cap (m.exact \cup m.regex \cup m.queue) = {}
    /\ m.exact \cap regexes = {}
    /\ m.regex \cup m.queue \subseteq regexes
LoopOk(m, regexes) ==
    /\ m.regex = {} => m.queue = {}
    /\ \A i, j \in m.regex : i = j
    /\ \A i \in m.regex, j \in m.queue : i < j
    /\ \A i \in Ended(m) \cap regexes, j \in m.regex \cup m.queue : i < j
EndedOk(m, regexes) ==
    \A x, y \in DOMAIN m.ended :
        /\ m.ended[x] = m.ended[y] => x = y
        /\ x < y /\ m.ended[x] \in regexes /\ m.ended[y] \in regexes => m.ended[x] < m.ended[y]

MessageOk(m, interested, regexes, matching) ==
    PlacesOk(m, interested, regexes, matching) /\ LoopOk(m, regexes) /\ EndedOk(m, regexes)

MessagesInv ==
    \A c \in Clients : \A k \in DOMAIN messages[c] :
        LET m == messages[c][k]
        IN  MessageOk(m, Interested(sockets[c].namespace, m.name), Regexes, Matching(m.name))

SocketInv == SocketTypeOK /\ ConnectedInv /\ MessagesInv

\* The definitions of the gateways.
Definitions == UNION {{EventsOf(Gateways[g])[i] : i \in DOMAIN Gateways[g].events} : g \in DOMAIN Gateways}

LEMMA EventsAreSeq ==
    ASSUME WebSocketAssumptions, NEW g \in DOMAIN Gateways
    PROVE  EventsOf(Gateways[g]) \in Seq(Definitions)
<1>1. PICK declared : declared = Gateways[g].events
  OBVIOUS
<1>2. DOMAIN declared = 1 .. Len(declared) /\ Len(declared) \in Nat
  BY <1>1 DEF WebSocketAssumptions
<1>3. PICK s : s = EventsOf(Gateways[g])
  OBVIOUS
<1>4. DOMAIN s = DOMAIN declared /\ s = [i \in DOMAIN s |-> s[i]]
  BY <1>1, <1>3 DEF EventsOf
<1>5. \A i \in DOMAIN s : s[i] \in Definitions
  BY <1>1, <1>3, <1>4 DEF Definitions
<1>6. s \in [1 .. Len(declared) -> Definitions]
  BY <1>2, <1>4, <1>5
<1>. QED  BY <1>2, <1>3, <1>6

LEMMA RegisteredAreSeq ==
    ASSUME WebSocketAssumptions
    PROVE  Generated \in Seq(Definitions)
<1>1. PICK n \in Nat : n = Len(Gateways) /\ DOMAIN Gateways = 1 .. n
  BY DEF WebSocketAssumptions
<1>2. PICK s : s = [g \in DOMAIN Gateways |-> EventsOf(Gateways[g])]
  OBVIOUS
<1>3. s \in [1 .. n -> Seq(Definitions)]
  BY <1>1, <1>2, EventsAreSeq
<1>4. s \in Seq(Seq(Definitions))
  BY <1>3
<1>. QED  BY <1>2, <1>4, FlatHas DEF Generated

\* What the loop over the expressions takes of those that wait, and what it leaves.
LEMMA LoopTakes ==
    ASSUME NEW queue \in SUBSET Nat, NEW name, queue \subseteq Regexes
    PROVE  LET matched == Matched(queue, name)
               left    == Left(queue, name)
           IN  /\ matched \subseteq queue /\ left \subseteq queue
               /\ queue \cap Matching(name) = matched \cup (left \cap Matching(name))
               /\ matched \cap left = {}
               /\ \A i, j \in matched : i = j
               /\ \A i \in matched, j \in left : i < j
               /\ matched = {} => left = {}
<1>1. PICK hits : hits = queue \cap Matching(name)
  OBVIOUS
<1>2. Hits(queue, name) = hits
  BY <1>1 DEF Hits, MatchesEventName, Matching, Regexes
<1>3. PICK matched : matched = {i \in hits : \A j \in hits : i <= j}
  OBVIOUS
<1>4. PICK left : left = {i \in queue : ~ \A j \in matched : i <= j}
  OBVIOUS
<1>5. Matched(queue, name) = matched /\ Left(queue, name) = left
  BY <1>2, <1>3, <1>4 DEF Matched, Left, Tested, FirstOf
<1>6. hits # {} => matched # {}
  BY <1>1, <1>3, LeastExists
<1>7. \A i, j \in matched : i = j
  BY <1>1, <1>3
<1>8. \A i \in matched, j \in left : i < j
  BY <1>1, <1>3, <1>4, <1>7
<1>9. matched = {} => left = {}
  BY <1>4
<1>10. hits = matched \cup (left \cap Matching(name))
  <2>1. ASSUME NEW i \in hits, i \notin matched PROVE i \in left
    <3>1. PICK j \in matched : TRUE
      BY <1>6
    <3>2. i # j /\ j <= i /\ i \in Nat /\ j \in Nat /\ i \in queue
      BY <2>1, <3>1, <1>1, <1>3
    <3>. QED  BY <3>1, <3>2, <1>4
  <2>. QED  BY <2>1, <1>1, <1>3, <1>4
<1>11. /\ matched \subseteq queue /\ left \subseteq queue
       /\ queue \cap Matching(name) = matched \cup (left \cap Matching(name))
       /\ matched \cap left = {}
  BY <1>1, <1>3, <1>4, <1>10
<1>. QED  BY <1>5, <1>7, <1>8, <1>9, <1>11

LEMMA SocketInitially == SocketInit => SocketInv
<1>. SUFFICES ASSUME SocketInit PROVE SocketInv
  OBVIOUS
<1>1. SocketTypeOK
  <2>1. events \in Seq({events[i] : i \in DOMAIN events})
    BY EmptySeq DEF SocketInit
  <2>2. messages \in [Clients -> Seq(Message)]
    <3>1. <<>> \in Seq(Message)
      BY EmptySeq
    <3>. QED  BY <3>1 DEF SocketInit
  <2>. QED  BY <2>1, <2>2 DEF SocketTypeOK, SocketInit, NoSocket, Statuses
<1>2. ConnectedInv
  BY DEF SocketInit, ConnectedInv, NoSocket
<1>3. MessagesInv
  <2>1. \A c \in Clients : DOMAIN messages[c] = {}
    BY DEF SocketInit
  <2>. QED  BY <2>1 DEF MessagesInv
<1>. QED  BY <1>1, <1>2, <1>3 DEF SocketInv

LEMMA SameEvents ==
    ASSUME events' = events
    PROVE  /\ Regexes' = Regexes
           /\ \A name : Matching(name)' = Matching(name)
           /\ \A namespace, name : Interested(namespace, name)' = Interested(namespace, name)
<1>1. \A namespace : MessageEvents(namespace)' = MessageEvents(namespace)
  BY DEF MessageEvents, InNamespace, ConnectionEvent, IsRegex
<1>. QED  BY <1>1 DEF Regexes, Matching, Interested, IsRegex

\* The messages are kept by what leaves them, the events and their namespaces alone.
LEMMA MessagesStay ==
    ASSUME SocketInv, UNCHANGED <<messages, events>>,
           \A c \in Clients : messages[c] # <<>> => sockets'[c].namespace = sockets[c].namespace
    PROVE  MessagesInv'
<1>. SUFFICES ASSUME NEW c \in Clients, NEW k \in DOMAIN messages[c],
                     NEW m, m = messages[c][k]
              PROVE  MessageOk(m, Interested(sockets[c].namespace, m.name), Regexes, Matching(m.name))'
  BY DEF MessagesInv
<1>1. MessageOk(m, Interested(sockets[c].namespace, m.name), Regexes, Matching(m.name))
  BY DEF SocketInv, MessagesInv
<1>2. messages[c] # <<>>
  OBVIOUS
<1>3. PICK namespace : namespace = sockets[c].namespace /\ namespace = sockets'[c].namespace
  BY <1>2
<1>. QED  BY <1>1, <1>3, SameEvents

LEMMA RegisterKeepsSockets ==
    ASSUME WebSocketAssumptions, SocketInv, RegisterEvents
    PROVE  SocketInv'
<1>1. \A c \in Clients : messages[c] = <<>> /\ sockets[c].status = "none"
  BY DEF SocketInv, ConnectedInv, RegisterEvents
<1>2. (events \in Seq({events[i] : i \in DOMAIN events}))'
  <2>1. PICK s : s = Generated /\ s \in Seq(Definitions)
    BY RegisteredAreSeq
  <2>2. s \in Seq({s[i] : i \in DOMAIN s})
    BY <2>1
  <2>. QED  BY <2>1, <2>2 DEF RegisterEvents
<1>3. SocketTypeOK'
  BY <1>2 DEF SocketInv, SocketTypeOK, RegisterEvents
<1>4. ConnectedInv'
  BY <1>1 DEF ConnectedInv, RegisterEvents
<1>5. MessagesInv'
  <2>1. \A c \in Clients : DOMAIN messages'[c] = {}
    BY <1>1 DEF RegisterEvents
  <2>. QED  BY <2>1 DEF MessagesInv
<1>. QED  BY <1>3, <1>4, <1>5 DEF SocketInv

LEMMA StopKeepsSockets ==
    ASSUME SocketInv, StartAdapter \/ StopAdapter
    PROVE  SocketInv'
<1>0. SocketTypeOK /\ ConnectedInv
  BY DEF SocketInv
<1>1. /\ UNCHANGED <<messages, events>> /\ adapter' \in {"started", "stopped"}
      /\ sockets' \in [Clients -> [status : Statuses, namespace : Namespaces \cup {Nothing}]]
      /\ \A c \in Clients : /\ sockets'[c].namespace = sockets[c].namespace
                            /\ sockets'[c].status = "none" <=> sockets[c].status = "none"
  <2>1. CASE StartAdapter
    BY <1>0, <2>1 DEF StartAdapter, SocketTypeOK
  <2>2. CASE StopAdapter
    BY <1>0, <2>2 DEF StopAdapter, SocketTypeOK, Statuses
  <2>. QED  BY <2>1, <2>2
<1>2. MessagesInv'
  BY <1>1, MessagesStay
<1>3. SocketTypeOK' /\ ConnectedInv'
  BY <1>0, <1>1 DEF SocketTypeOK, ConnectedInv
<1>. QED  BY <1>2, <1>3 DEF SocketInv

LEMMA ConnectingKeepsSockets ==
    ASSUME SocketInv, NEW c \in Clients,
           (\E namespace \in Namespaces : Connect(c, namespace)) \/ ConnectionHandled(c) \/ Disconnect(c)
    PROVE  SocketInv'
<1>0. SocketTypeOK /\ ConnectedInv
  BY DEF SocketInv
<1>. DEFINE Sockets == [status : Statuses \ {"none"}, namespace : Namespaces \cup {Nothing}]
           Becomes(socket) ==
                /\ sockets' = [sockets EXCEPT ![c] = socket]
                /\ sockets[c].status = "none" => adapter = "started"
                /\ sockets[c].status # "none" => socket.namespace = sockets[c].namespace
<1>1. PICK socket \in Sockets : Becomes(socket)
  <2>1. ASSUME NEW namespace \in Namespaces, Connect(c, namespace) PROVE \E socket \in Sockets : Becomes(socket)
    <3>1. PICK socket : socket = [status |-> AfterConnection(namespace), namespace |-> namespace]
      OBVIOUS
    <3>2. socket \in Sockets
      BY <3>1 DEF AfterConnection, Statuses
    <3>3. Becomes(socket)
      BY <2>1, <3>1 DEF Connect
    <3>. QED  BY <3>2, <3>3
  <2>2. ASSUME ConnectionHandled(c) \/ Disconnect(c) PROVE \E socket \in Sockets : Becomes(socket)
    <3>1. PICK status \in Statuses \ {"none"} :
            sockets' = [sockets EXCEPT ![c].status = status] /\ sockets[c].status # "none"
      BY <2>2 DEF ConnectionHandled, Disconnect, Statuses
    <3>2. sockets' = [sockets EXCEPT ![c] = [@ EXCEPT !.status = status]]
      BY <3>1
    <3>3. sockets[c] \in [status : Statuses, namespace : Namespaces \cup {Nothing}]
      BY <1>0 DEF SocketTypeOK
    <3>. QED  BY <3>1, <3>2, <3>3
  <2>. QED  BY <2>1, <2>2
<1>2. UNCHANGED <<adapter, messages, events>>
  BY DEF Connect, ConnectionHandled, Disconnect
<1>3. \A d \in Clients : d # c => sockets'[d] = sockets[d]
  BY <1>0, <1>1 DEF SocketTypeOK
<1>4. sockets'[c] = socket
  BY <1>0, <1>1 DEF SocketTypeOK
<1>5. MessagesInv'
  <2>1. \A d \in Clients : messages[d] # <<>> => sockets'[d].namespace = sockets[d].namespace
    BY <1>0, <1>1, <1>3, <1>4 DEF ConnectedInv
  <2>. QED  BY <2>1, <1>2, MessagesStay
<1>6. SocketTypeOK'
  <2>1. sockets' \in [Clients -> [status : Statuses, namespace : Namespaces \cup {Nothing}]]
    BY <1>0, <1>1 DEF SocketTypeOK
  <2>. QED  BY <2>1, <1>0, <1>2 DEF SocketTypeOK
<1>7. ConnectedInv'
  BY <1>0, <1>1, <1>2, <1>3, <1>4 DEF ConnectedInv
<1>. QED  BY <1>5, <1>6, <1>7 DEF SocketInv

\* A message of c changed or came, and is as it should be: the others are kept.
LEMMA OthersAreKept ==
    ASSUME SocketInv, NEW c \in Clients, NEW k \in Nat, NEW q \in Seq(Message),
           UNCHANGED <<adapter, events, sockets>>, messages' = [messages EXCEPT ![c] = q],
           k \in DOMAIN q, sockets[c].status # "none",
           \A l \in DOMAIN q : l # k => l \in DOMAIN messages[c] /\ q[l] = messages[c][l],
           MessageOk(q[k], Interested(sockets[c].namespace, q[k].name), Regexes, Matching(q[k].name))
    PROVE  SocketInv'
<1>0. SocketTypeOK /\ ConnectedInv /\ MessagesInv
  BY DEF SocketInv
<1>1. messages'[c] = q /\ \A d \in Clients : d # c => messages'[d] = messages[d]
  BY <1>0 DEF SocketTypeOK
<1>2. messages' \in [Clients -> Seq(Message)]
  BY <1>0 DEF SocketTypeOK
<1>3. SocketTypeOK'
  BY <1>0, <1>2 DEF SocketTypeOK
<1>4. ConnectedInv'
  BY <1>0, <1>1 DEF ConnectedInv
<1>5. MessagesInv'
  <2>. SUFFICES ASSUME NEW d \in Clients, NEW l \in DOMAIN messages'[d], NEW m, m = messages'[d][l]
                PROVE  MessageOk(m, Interested(sockets[d].namespace, m.name), Regexes, Matching(m.name))'
    BY DEF MessagesInv
  <2>1. MessageOk(m, Interested(sockets[d].namespace, m.name), Regexes, Matching(m.name))
    <3>1. CASE d = c /\ l = k
      BY <3>1, <1>1
    <3>2. CASE ~(d = c /\ l = k)
      <4>1. l \in DOMAIN messages[d] /\ m = messages[d][l]
        BY <3>2, <1>1
      <4>. QED  BY <4>1, <1>0 DEF MessagesInv
    <3>. QED  BY <3>1, <3>2
  <2>2. PICK namespace : namespace = sockets[d].namespace /\ namespace = sockets'[d].namespace
    OBVIOUS
  <2>. QED  BY <2>1, <2>2, SameEvents
<1>. QED  BY <1>3, <1>4, <1>5 DEF SocketInv

LEMMA EventsAreNumbers ==
    ASSUME SocketInv
    PROVE  DOMAIN events \subseteq Nat /\ Regexes \subseteq DOMAIN events
<1>1. DOMAIN events = 1 .. Len(events) /\ Len(events) \in Nat
  BY DEF SocketInv, SocketTypeOK
<1>. QED  BY <1>1 DEF Regexes

\* What a message is for: the events of its name and the matching expressions.
LEMMA InterestIsSplit ==
    ASSUME NEW namespace, NEW name
    PROVE  LET regexes == RegexEvents(namespace)
               exact   == ExactEvents(namespace, name)
           IN  /\ regexes \subseteq Regexes /\ exact \subseteq DOMAIN events /\ exact \cap Regexes = {}
               /\ Interested(namespace, name) = exact \cup (regexes \cap Matching(name))
BY DEF RegexEvents, ExactEvents, Interested, Regexes, Matching, MessageEvents, InNamespace

LEMMA SendKeepsSockets ==
    ASSUME SocketInv, NEW c \in Clients, NEW name \in EventNames, NEW ack \in BOOLEAN, Send(c, name, ack)
    PROVE  SocketInv'
<1>0. PICK namespace, status : namespace = sockets[c].namespace /\ status = sockets[c].status
  OBVIOUS
<1>1. PICK listening \in BOOLEAN :
        namespace = sockets[c].namespace /\ status = sockets[c].status /\ (listening <=> status = "ready")
  BY <1>0
<1>2. PICK exact, regexes :
        /\ exact = IF listening THEN ExactEvents(namespace, name) ELSE {}
        /\ regexes = IF listening THEN RegexEvents(namespace) ELSE {}
  OBVIOUS
<1>3. PICK regex, queue : regex = Matched(regexes, name) /\ queue = Left(regexes, name)
  OBVIOUS
<1>4. PICK m : m = [name |-> name, ack |-> ack, arrived |-> status, exact |-> exact, regex |-> regex,
                    queue |-> queue, ended |-> <<>>, late |-> {}, answers |-> <<>>]
  OBVIOUS
<1>5. messages' = [messages EXCEPT ![c] = Append(@, m)]
  BY <1>1, <1>2, <1>3, <1>4, Zenon DEF Send, Delivered
<1>6. status \in {"connecting", "ready"} /\ UNCHANGED <<adapter, events, sockets>>
  BY <1>1 DEF Send
<1>7. /\ regexes \subseteq Regexes /\ exact \subseteq DOMAIN events /\ exact \cap Regexes = {}
      /\ listening => Interested(namespace, name) = exact \cup (regexes \cap Matching(name))
  <2>1. CASE listening
    <3>1. regexes = RegexEvents(namespace) /\ exact = ExactEvents(namespace, name)
      BY <1>2, <2>1
    <3>. QED  BY <3>1, InterestIsSplit
  <2>2. CASE ~listening
    BY <1>2, <2>2
  <2>. QED  BY <2>1, <2>2
<1>8. exact \in SUBSET Nat /\ regexes \in SUBSET Nat
  BY <1>7, EventsAreNumbers
<1>9. /\ regex \subseteq regexes /\ queue \subseteq regexes
      /\ regexes \cap Matching(name) = regex \cup (queue \cap Matching(name))
      /\ regex \cap queue = {}
      /\ \A i, j \in regex : i = j
      /\ \A i \in regex, j \in queue : i < j
      /\ regex = {} => queue = {}
  BY <1>3, <1>7, <1>8, LoopTakes
<1>10. m \in Message
  <2>1. <<>> \in Seq(Nat) /\ <<>> \in Seq([error : BOOLEAN, status : {"0", "1", "own"}])
    BY EmptySeq
  <2>. QED  BY <1>4, <1>6, <1>8, <1>9, <2>1 DEF Message
<1>11. /\ m.name = name /\ m.arrived = status /\ m.exact = exact /\ m.regex = regex /\ m.queue = queue
       /\ m.ended = <<>> /\ Ended(m) = {}
  <2>1. m.ended = <<>>
    BY <1>4
  <2>2. DOMAIN m.ended = {}
    BY <2>1
  <2>. QED  BY <1>4, <2>1, <2>2 DEF Ended
<1>12. MessageOk(m, Interested(namespace, name), Regexes, Matching(name))
  <2>1. PlacesOk(m, Interested(namespace, name), Regexes, Matching(name))
    <3>1. ~listening => exact = {} /\ regexes = {}
      BY <1>2
    <3>. QED  BY <1>1, <1>6, <1>7, <1>9, <1>11, <3>1 DEF PlacesOk
  <2>2. LoopOk(m, Regexes)
    BY <1>9, <1>11 DEF LoopOk
  <2>3. EndedOk(m, Regexes)
    BY <1>11 DEF EndedOk
  <2>. QED  BY <2>1, <2>2, <2>3 DEF MessageOk
<1>13. PICK old \in Seq(Message), n \in Nat : old = messages[c] /\ n = Len(old)
  BY DEF SocketInv, SocketTypeOK
<1>14. PICK q : q = Append(old, m)
  OBVIOUS
<1>15. /\ q \in Seq(Message) /\ DOMAIN q = 1 .. n + 1 /\ q[n + 1] = m
       /\ \A l \in 1 .. n : l \in DOMAIN old /\ q[l] = old[l]
  BY <1>10, <1>13, <1>14, SeqAppended
<1>16. messages' = [messages EXCEPT ![c] = q]
  BY <1>5, <1>13, <1>14
<1>17. PICK k \in Nat : k = n + 1
  OBVIOUS
<1>18. k \in DOMAIN q /\ \A l \in DOMAIN q : l # k => l \in DOMAIN messages[c] /\ q[l] = messages[c][l]
  BY <1>13, <1>15, <1>17
<1>19. MessageOk(q[k], Interested(sockets[c].namespace, q[k].name), Regexes, Matching(q[k].name))
  BY <1>1, <1>11, <1>12, <1>15, <1>17
<1>20. sockets[c].status # "none"
  BY <1>1, <1>6
<1>. QED  BY <1>6, <1>15, <1>16, <1>18, <1>19, <1>20, OthersAreKept

AnswerRecords == [error : BOOLEAN, status : {"0", "1", "own"}]

LEMMA AnswerIsSeq ==
    ASSUME NEW outcome
    PROVE  Answer(outcome) \in Seq(AnswerRecords)
<1>1. OkAnswer \in AnswerRecords /\ \A o : ErrorAnswer(o) \in AnswerRecords
  BY DEF OkAnswer, ErrorAnswer, AnswerRecords
<1>2. \A r \in AnswerRecords : <<r>> \in Seq(AnswerRecords)
  OBVIOUS
<1>3. <<>> \in Seq(AnswerRecords)
  BY EmptySeq
<1>4. \E r \in AnswerRecords : Answer(outcome) \in {<<r>>, <<>>}
  BY <1>1 DEF Answer
<1>. QED  BY <1>2, <1>3, <1>4

\* One handler of a message ends, and with one of the loop the next one runs.
LEMMA EndKeepsMessage ==
    ASSUME NEW m \in Message, NEW i, i \in m.exact \cup m.regex,
           NEW interested, NEW regexes \in SUBSET Nat, NEW matching, NEW regex, NEW queue,
           MessageOk(m, interested, regexes, matching),
           i \notin m.regex => regex = m.regex /\ queue = m.queue,
           i \in m.regex =>
                /\ regex \subseteq m.queue /\ queue \subseteq m.queue
                /\ m.queue \cap matching = regex \cup (queue \cap matching)
                /\ regex \cap queue = {}
                /\ \A j, k \in regex : j = k
                /\ \A j \in regex, k \in queue : j < k
                /\ regex = {} => queue = {},
           NEW n \in Message, n.arrived = m.arrived, n.name = m.name, n.exact = m.exact \ {i},
           n.regex = regex, n.queue = queue, n.ended = Append(m.ended, i)
    PROVE  MessageOk(n, interested, regexes, matching)
<1>0. PlacesOk(m, interested, regexes, matching) /\ LoopOk(m, regexes) /\ EndedOk(m, regexes)
  BY DEF MessageOk
<1>1. i \in Nat /\ m.ended \in Seq(Nat) /\ m.exact \in SUBSET Nat /\ m.regex \in SUBSET Nat /\ m.queue \in SUBSET Nat
  BY DEF Message
<1>2. PICK ended \in Seq(Nat), l \in Nat : ended = m.ended /\ l = Len(ended)
  BY <1>1
<1>3. DOMAIN ended = 1 .. l /\ DOMAIN n.ended = 1 .. l + 1 /\ n.ended[l + 1] = i
      /\ \A x \in 1 .. l : n.ended[x] = ended[x] /\ ended[x] \in Nat
  <2>1. \A x \in DOMAIN ended : ended[x] \in Nat
    BY SeqElement
  <2>. QED  BY <1>1, <1>2, <2>1, SeqAppended
<1>4. Ended(n) = Ended(m) \cup {i}
  <2>1. DOMAIN n.ended = DOMAIN ended \cup {l + 1}
    BY <1>3
  <2>. QED  BY <1>2, <1>3, <2>1 DEF Ended
<1>5. i \notin Ended(m) /\ (i \in m.regex <=> i \in regexes)
  BY <1>0 DEF PlacesOk
<1>6. m.arrived = "ready"
  BY <1>0 DEF PlacesOk
<1>7. PlacesOk(n, interested, regexes, matching)
  <2>1. CASE i \in m.regex
    <3>1. m.regex = {i} /\ i \notin m.queue
      BY <1>0, <1>1, <2>1 DEF LoopOk
    <3>. QED  BY <1>0, <1>4, <1>5, <1>6, <2>1, <3>1 DEF PlacesOk
  <2>2. CASE i \notin m.regex
    <3>1. i \in m.exact /\ i \notin m.queue
      BY <1>0, <1>5, <2>2 DEF PlacesOk
    <3>. QED  BY <1>0, <1>4, <1>5, <1>6, <2>2, <3>1 DEF PlacesOk
  <2>. QED  BY <2>1, <2>2
<1>8. LoopOk(n, regexes)
  <2>1. CASE i \in m.regex
    <3>1. \A j \in regex \cup queue : i < j
      BY <1>0, <2>1 DEF LoopOk
    <3>2. \A e \in Ended(m) \cap regexes, j \in regex \cup queue : e < j
      BY <1>0, <2>1 DEF LoopOk
    <3>. QED  BY <1>4, <2>1, <3>1, <3>2 DEF LoopOk
  <2>2. CASE i \notin m.regex
    BY <1>0, <1>4, <1>5, <2>2 DEF LoopOk
  <2>. QED  BY <2>1, <2>2
<1>9. EndedOk(n, regexes)
  <2>1. \A x \in 1 .. l : ended[x] \in Ended(m)
    BY <1>2, <1>3 DEF Ended
  <2>2. \A x \in 1 .. l : ended[x] # i /\ (ended[x] \in regexes /\ i \in regexes => ended[x] < i)
    BY <1>0, <1>5, <2>1 DEF LoopOk
  <2>3. \A x, y \in 1 .. l : /\ ended[x] = ended[y] => x = y
                             /\ x < y /\ ended[x] \in regexes /\ ended[y] \in regexes => ended[x] < ended[y]
    <3>1. \A x, y \in DOMAIN ended :
            /\ ended[x] = ended[y] => x = y
            /\ x < y /\ ended[x] \in regexes /\ ended[y] \in regexes => ended[x] < ended[y]
      BY <1>0, <1>2, Zenon DEF EndedOk
    <3>. QED  BY <1>3, <3>1, Zenon
  <2>. SUFFICES ASSUME NEW x \in 1 .. l + 1, NEW y \in 1 .. l + 1
                PROVE  /\ n.ended[x] = n.ended[y] => x = y
                       /\ x < y /\ n.ended[x] \in regexes /\ n.ended[y] \in regexes => n.ended[x] < n.ended[y]
    BY <1>3 DEF EndedOk
  <2>4. CASE x \in 1 .. l /\ y \in 1 .. l
    BY <1>3, <2>3, <2>4
  <2>5. CASE x \in 1 .. l /\ y = l + 1
    BY <1>3, <2>2, <2>5
  <2>6. CASE x = l + 1 /\ y \in 1 .. l
    BY <1>3, <2>2, <2>6
  <2>7. CASE x = l + 1 /\ y = l + 1
    BY <2>7
  <2>8. (x \in 1 .. l \/ x = l + 1) /\ (y \in 1 .. l \/ y = l + 1)
    OBVIOUS
  <2>. QED  BY <2>4, <2>5, <2>6, <2>7, <2>8
<1>. QED  BY <1>7, <1>8, <1>9 DEF MessageOk

LEMMA EndKeepsSockets ==
    ASSUME SocketInv, NEW c \in Clients, NEW k \in DOMAIN messages[c], NEW i \in DOMAIN events,
           NEW outcome \in Outcomes, HandlerEnds(c, k, i, outcome)
    PROVE  SocketInv'
<1>0. SocketTypeOK /\ ConnectedInv /\ MessagesInv
  BY DEF SocketInv
<1>1. PICK old \in Seq(Message) : old = messages[c] /\ k \in DOMAIN old
  BY <1>0 DEF SocketTypeOK
<1>2. PICK m \in Message : m = messages[c][k] /\ m = old[k]
  BY <1>1, SeqElement
<1>3. PICK regex, queue :
        /\ regex = IF i \in m.regex THEN Matched(m.queue, m.name) ELSE m.regex
        /\ queue = IF i \in m.regex THEN Left(m.queue, m.name) ELSE m.queue
  OBVIOUS
<1>4. PICK late, answers :
        /\ late = IF outcome = "timeout" THEN m.late \cup {i} ELSE m.late
        /\ answers = IF m.ack THEN m.answers \o Answer(outcome) ELSE m.answers
  OBVIOUS
<1>5. PICK n : n = [m EXCEPT !.exact = @ \ {i}, !.regex = regex, !.queue = queue, !.ended = Append(@, i),
                             !.late = late, !.answers = answers]
  OBVIOUS
<1>6. /\ messages' = [messages EXCEPT ![c][k] = n]
      /\ i \in m.exact \cup m.regex /\ UNCHANGED <<adapter, events, sockets>>
  BY <1>2, <1>3, <1>4, <1>5 DEF HandlerEnds
<1>7. PICK regexes, matching : regexes = Regexes /\ matching = Matching(m.name)
  OBVIOUS
<1>8. regexes \in SUBSET Nat /\ i \in Nat
  BY <1>7, EventsAreNumbers
<1>9. PICK interested : /\ interested = Interested(sockets[c].namespace, m.name)
                        /\ MessageOk(m, interested, regexes, matching)
  BY <1>0, <1>2, <1>7 DEF MessagesInv
<1>10. m.queue \in SUBSET Nat /\ m.queue \subseteq regexes
  BY <1>9 DEF Message, MessageOk, PlacesOk
<1>11. i \in m.regex =>
        /\ regex \subseteq m.queue /\ queue \subseteq m.queue
        /\ m.queue \cap matching = regex \cup (queue \cap matching)
        /\ regex \cap queue = {}
        /\ \A x, y \in regex : x = y
        /\ \A x \in regex, y \in queue : x < y
        /\ regex = {} => queue = {}
  BY <1>3, <1>7, <1>10, LoopTakes
<1>12. n \in Message
  <2>1. regex \in SUBSET Nat /\ queue \in SUBSET Nat
    BY <1>3, <1>10, <1>11 DEF Message
  <2>2. late \in SUBSET Nat
    BY <1>4, <1>8 DEF Message
  <2>3. answers \in Seq(AnswerRecords)
    <3>1. m.answers \in Seq(AnswerRecords) /\ Answer(outcome) \in Seq(AnswerRecords)
      BY AnswerIsSeq DEF Message, AnswerRecords
    <3>2. m.answers \o Answer(outcome) \in Seq(AnswerRecords)
      BY <3>1
    <3>. QED  BY <1>4, <3>1, <3>2
  <2>4. Append(m.ended, i) \in Seq(Nat)
    BY <1>8 DEF Message
  <2>. QED  BY <1>5, <2>1, <2>2, <2>3, <2>4 DEF Message, AnswerRecords
<1>13. /\ n.arrived = m.arrived /\ n.name = m.name /\ n.exact = m.exact \ {i}
       /\ n.regex = regex /\ n.queue = queue /\ n.ended = Append(m.ended, i)
  BY <1>5 DEF Message
<1>14. MessageOk(n, interested, regexes, matching)
  BY <1>3, <1>6, <1>8, <1>9, <1>11, <1>12, <1>13, EndKeepsMessage
<1>15. PICK q : q = [old EXCEPT ![k] = n]
  OBVIOUS
<1>16. /\ q \in Seq(Message) /\ DOMAIN q = DOMAIN old /\ q[k] = n
       /\ \A l \in DOMAIN q : l # k => l \in DOMAIN messages[c] /\ q[l] = messages[c][l]
  BY <1>1, <1>12, <1>15, SeqReplaced
<1>17. messages' = [messages EXCEPT ![c] = q]
  BY <1>1, <1>6, <1>15
<1>18. k \in Nat
  BY <1>1
<1>19. MessageOk(q[k], Interested(sockets[c].namespace, q[k].name), Regexes, Matching(q[k].name))
  BY <1>7, <1>9, <1>13, <1>14, <1>16
<1>20. sockets[c].status # "none"
  BY <1>0, <1>1 DEF ConnectedInv
<1>. QED  BY <1>1, <1>6, <1>16, <1>17, <1>18, <1>19, <1>20, OthersAreKept

LEMMA SocketStep == WebSocketAssumptions /\ SocketInv /\ [SocketNext]_socketVars => SocketInv'
<1>. SUFFICES ASSUME WebSocketAssumptions, SocketInv, [SocketNext]_socketVars PROVE SocketInv'
  OBVIOUS
<1>1. CASE UNCHANGED socketVars
  <2>1. UNCHANGED <<adapter, events, sockets, messages>>
    BY <1>1 DEF socketVars
  <2>2. MessagesInv'
    BY <2>1, MessagesStay
  <2>3. SocketTypeOK' /\ ConnectedInv'
    BY <2>1 DEF SocketInv, SocketTypeOK, ConnectedInv
  <2>. QED  BY <2>2, <2>3 DEF SocketInv
<1>2. ASSUME NEW c \in Clients,
             \E l \in 1 .. MaxMessages, i \in DOMAIN events, outcome \in Outcomes :
                l \in DOMAIN messages[c] /\ HandlerEnds(c, l, i, outcome)
      PROVE  SocketInv'
  BY <1>2, EndKeepsSockets
<1>. QED
  BY <1>1, <1>2, RegisterKeepsSockets, StopKeepsSockets, ConnectingKeepsSockets, SendKeepsSockets
  DEF SocketNext, Handlers

LEMMA SocketInvHandles == SocketInv => HandledByAll
<1>. SUFFICES ASSUME SocketInv, NEW c \in Clients, NEW k \in DOMAIN messages[c], NEW m, m = messages[c][k]
              PROVE  /\ Done(m) =>
                            Ended(m) = IF m.arrived = "ready" THEN Interested(sockets[c].namespace, m.name) ELSE {}
                     /\ \A x, y \in DOMAIN m.ended : m.ended[x] = m.ended[y] => x = y
                     /\ Cardinality(m.regex) <= 1
                     /\ \A x, y \in DOMAIN m.ended :
                            x < y /\ IsRegex(m.ended[x]) /\ IsRegex(m.ended[y]) => m.ended[x] < m.ended[y]
  BY DEF HandledByAll, Known, Sent
<1>1. MessageOk(m, Interested(sockets[c].namespace, m.name), Regexes, Matching(m.name))
  BY DEF SocketInv, MessagesInv
<1>2. PICK interested, regexes, ended :
        /\ interested = Interested(sockets[c].namespace, m.name) /\ regexes = Regexes /\ ended = m.ended
        /\ PlacesOk(m, interested, regexes, Matching(m.name)) /\ LoopOk(m, regexes) /\ EndedOk(m, regexes)
  BY <1>1, Zenon DEF MessageOk
<1>3. interested \subseteq DOMAIN events
  BY <1>2 DEF Interested, MessageEvents, InNamespace
<1>4. m.arrived # "ready" => m.ended = <<>> /\ Ended(m) = {}
  <2>1. m.ended = <<>> => DOMAIN m.ended = {}
    OBVIOUS
  <2>. QED  BY <1>2, <2>1 DEF PlacesOk, Ended
<1>5. Done(m) => Ended(m) = IF m.arrived = "ready" THEN interested ELSE {}
  BY <1>2, <1>4 DEF Done, PlacesOk, LoopOk
<1>6. Cardinality(m.regex) <= 1
  <2>1. CASE m.regex = {}
    BY <2>1, FS_EmptySet
  <2>2. CASE m.regex # {}
    <3>1. PICK i \in m.regex : m.regex = {i}
      BY <2>2, <1>2 DEF LoopOk
    <3>2. Cardinality(m.regex) = 1
      BY <3>1, FS_Singleton, Zenon
    <3>. QED  BY <3>2
  <2>. QED  BY <2>1, <2>2
<1>7. \A x \in DOMAIN m.ended : m.ended[x] \in DOMAIN events
  <2>1. CASE m.arrived = "ready"
    <3>1. \A x \in DOMAIN m.ended : m.ended[x] \in Ended(m)
      BY DEF Ended
    <3>2. Ended(m) \subseteq DOMAIN events
      BY <1>2, <1>3, <2>1 DEF PlacesOk
    <3>. QED  BY <3>1, <3>2
  <2>2. CASE m.arrived # "ready"
    <3>1. m.ended = <<>> => DOMAIN m.ended = {}
      OBVIOUS
    <3>. QED  BY <1>4, <2>2, <3>1
  <2>. QED  BY <2>1, <2>2
<1>8. \A x \in DOMAIN m.ended : IsRegex(m.ended[x]) <=> m.ended[x] \in regexes
  BY <1>2, <1>7, Zenon DEF Regexes
<1>. QED  BY <1>2, <1>5, <1>6, <1>8, Zenon DEF EndedOk

\* A message that finds its socket ready runs each handler it is for once, the
\* expressions in their order, for any gateways, clients and messages.
THEOREM HandledByAllCorrect == SocketSpec => []HandledByAll
<1>1. WebSocketAssumptions
  BY WebSocketAssumptions
<1>. QED  BY <1>1, SocketInitially, SocketStep, SocketInvHandles, PTL DEF SocketSpec

-----------------------------------------------------------------------------
(* Lists: what they have in them, whatever their order.                    *)

LEMMA ListOfItems ==
    ASSUME NEW S, NEW s \in Seq(S)
    PROVE  IsList(s) /\ Range(s) \subseteq S
<1>1. s \in [1 .. Len(s) -> S] /\ Len(s) \in Nat /\ DOMAIN s = 1 .. Len(s)
  OBVIOUS
<1>2. Range(s) \subseteq S /\ \A i \in 1 .. Len(s) : s[i] \in Range(s)
  BY <1>1 DEF Range
<1>3. s \in [1 .. Len(s) -> Range(s)]
  BY <1>1, <1>2
<1>. QED  BY <1>1, <1>2, <1>3, SeqDef DEF IsList

LEMMA ListOfTail ==
    ASSUME NEW s, IsList(s), s # <<>>
    PROVE  /\ Head(s) \in Range(s) /\ IsList(Tail(s))
           /\ Range(s) = {Head(s)} \cup Range(Tail(s))
<1>1. PICK S : S = Range(s) /\ s \in Seq(S)
  BY DEF IsList
<1>2. /\ Head(s) = s[1] /\ Tail(s) \in Seq(S) /\ Len(s) \in Nat \ {0} /\ Len(Tail(s)) = Len(s) - 1
      /\ \A i \in 1 .. Len(s) - 1 : Tail(s)[i] = s[i + 1]
      /\ DOMAIN s = 1 .. Len(s) /\ DOMAIN Tail(s) = 1 .. Len(s) - 1
  BY <1>1
<1>3. 1 \in DOMAIN s /\ Head(s) \in Range(s)
  BY <1>2 DEF Range
<1>4. Range(Tail(s)) \subseteq Range(s)
  BY <1>1, <1>2, ListOfItems
<1>5. ASSUME NEW x \in Range(s), x # Head(s) PROVE x \in Range(Tail(s))
  <2>1. PICK i \in 1 .. Len(s) : s[i] = x
    BY <1>2 DEF Range
  <2>2. i # 1 /\ i - 1 \in 1 .. Len(s) - 1 /\ (i - 1) + 1 = i
    BY <1>2, <1>5, <2>1
  <2>3. Tail(s)[i - 1] = x
    BY <1>2, <2>1, <2>2
  <2>. QED  BY <1>2, <2>2, <2>3 DEF Range
<1>6. IsList(Tail(s))
  BY <1>2, ListOfItems
<1>. QED  BY <1>3, <1>4, <1>5, <1>6

LEMMA ListOfBoth ==
    ASSUME NEW s, NEW t, IsList(s), IsList(t)
    PROVE  IsList(s \o t) /\ Range(s \o t) = Range(s) \cup Range(t)
<1>1. PICK S : S = Range(s) \cup Range(t)
  OBVIOUS
<1>2. s \in Seq(S) /\ t \in Seq(S)
  <2>1. s \in Seq(Range(s)) /\ t \in Seq(Range(t)) /\ Range(s) \subseteq S /\ Range(t) \subseteq S
    BY <1>1 DEF IsList
  <2>2. PICK A, B : A = Range(s) /\ B = Range(t)
    OBVIOUS
  <2>. QED  BY <2>1, <2>2
<1>3. /\ s \o t \in Seq(S) /\ Len(s) \in Nat /\ Len(t) \in Nat
      /\ DOMAIN s = 1 .. Len(s) /\ DOMAIN t = 1 .. Len(t) /\ DOMAIN (s \o t) = 1 .. Len(s) + Len(t)
      /\ \A i \in 1 .. Len(s) : (s \o t)[i] = s[i]
      /\ \A i \in 1 .. Len(t) : (s \o t)[Len(s) + i] = t[i]
  BY <1>2
<1>4. ASSUME NEW x \in Range(s) PROVE x \in Range(s \o t)
  <2>1. PICK i \in 1 .. Len(s) : s[i] = x
    BY <1>3 DEF Range
  <2>2. i \in 1 .. Len(s) + Len(t) /\ (s \o t)[i] = x
    BY <1>3, <2>1
  <2>. QED  BY <1>3, <2>2 DEF Range
<1>5. ASSUME NEW x \in Range(t) PROVE x \in Range(s \o t)
  <2>1. PICK i \in 1 .. Len(t) : t[i] = x
    BY <1>3 DEF Range
  <2>2. Len(s) + i \in 1 .. Len(s) + Len(t) /\ (s \o t)[Len(s) + i] = x
    BY <1>3, <2>1
  <2>. QED  BY <1>3, <2>2 DEF Range
<1>6. IsList(s \o t) /\ Range(s \o t) \subseteq S
  BY <1>3, ListOfItems
<1>. QED  BY <1>1, <1>4, <1>5, <1>6

LEMMA ListOfSelected ==
    ASSUME NEW s, IsList(s), NEW I
    PROVE  /\ IsList(Select(s, I)) /\ Range(Select(s, I)) \subseteq Range(s)
           /\ \A x \in Range(Select(s, I)) : \E i \in DOMAIN s \cap I : x = s[i]
           /\ \A i \in DOMAIN s \cap I : s[i] \in Range(Select(s, I))
<1>1. PICK S : S = Range(s)
  OBVIOUS
<1>2. PICK u : u = Select(s, I)
  OBVIOUS
<1>3. /\ u \in Seq(S)
      /\ \A k \in DOMAIN u : \E i \in DOMAIN s \cap I : u[k] = s[i]
      /\ \A i \in DOMAIN s \cap I : \E k \in DOMAIN u : u[k] = s[i]
  BY <1>1, <1>2, SelectHas DEF IsList
<1>4. IsList(u) /\ Range(u) \subseteq Range(s)
  BY <1>1, <1>3, ListOfItems
<1>5. /\ \A x \in Range(u) : \E i \in DOMAIN s \cap I : x = s[i]
      /\ \A i \in DOMAIN s \cap I : s[i] \in Range(u)
  BY <1>3 DEF Range
<1>. QED  BY <1>2, <1>4, <1>5

\* Of the places of a list with some property there is a first and a last one.
LEMMA FirstAndLast ==
    ASSUME NEW n \in Nat, NEW T \in SUBSET (1 .. n), T # {}
    PROVE  /\ \E i \in T : \A j \in T : i <= j
           /\ \E i \in T : \A j \in T : j <= i
<1>1. \E i \in T : \A j \in T : i <= j
  <2>1. T \in SUBSET Nat
    OBVIOUS
  <2>. QED  BY <2>1, LeastExists
<1>2. \E i \in T : \A j \in T : j <= i
  <2>. DEFINE U == {n - i : i \in T}
  <2>1. U \in SUBSET Nat /\ U # {}
    <3>1. \A i \in T : i \in 1 .. n
      OBVIOUS
    <3>2. \A i \in T : n - i \in Nat
      BY <3>1
    <3>. QED  BY <3>2
  <2>2. PICK x \in U : \A y \in U : x <= y
    <3>. HIDE DEF U
    <3>. QED  BY <2>1, LeastExists
  <2>3. PICK i \in T : x = n - i
    OBVIOUS
  <2>4. ASSUME NEW j \in T PROVE j <= i
    <3>1. n - j \in U /\ i \in 1 .. n /\ j \in 1 .. n
      OBVIOUS
    <3>2. n - i <= n - j
      BY <2>2, <2>3, <3>1
    <3>. QED  BY <3>1, <3>2
  <2>. QED  BY <2>4
<1>. QED  BY <1>1, <1>2

\* A Set has what was added to it and what it had.
LEMMA AddSchemasHas ==
    ASSUME NEW set, NEW added, IsList(set), IsList(added)
    PROVE  /\ IsList(AddSchemas(set, added))
           /\ Range(set) \subseteq Range(AddSchemas(set, added))
           /\ Range(added) \subseteq Range(AddSchemas(set, added))
<1>. DEFINE I == {i \in DOMAIN added : added[i] \notin Range(set) \cup {added[j] : j \in 1 .. i - 1}}
<1>1. PICK rest : rest = Select(added, I)
  OBVIOUS
<1>2. AddSchemas(set, added) = set \o rest
  BY <1>1 DEF AddSchemas
<1>3. IsList(rest) /\ \A i \in DOMAIN added \cap I : added[i] \in Range(rest)
  <2>. HIDE DEF I
  <2>. QED  BY <1>1, ListOfSelected
<1>4. IsList(set \o rest) /\ Range(set \o rest) = Range(set) \cup Range(rest)
  BY <1>3, ListOfBoth
<1>5. ASSUME NEW x \in Range(added), x \notin Range(set) PROVE x \in Range(rest)
  <2>. DEFINE T == {i \in DOMAIN added : added[i] = x}
  <2>1. Len(added) \in Nat /\ DOMAIN added = 1 .. Len(added)
    BY DEF IsList
  <2>2. T \in SUBSET (1 .. Len(added)) /\ T # {}
    BY <2>1 DEF Range
  <2>3. PICK i \in T : \A j \in T : i <= j
    <3>. HIDE DEF T
    <3>. QED  BY <2>1, <2>2, FirstAndLast
  <2>4. ASSUME NEW j \in 1 .. i - 1 PROVE added[j] # added[i]
    <3>1. i \in 1 .. Len(added) /\ j \in DOMAIN added /\ ~(i <= j)
      BY <2>1, <2>2
    <3>. QED  BY <2>3, <3>1
  <2>5. i \in DOMAIN added \cap I /\ added[i] = x
    BY <1>5, <2>4
  <2>. QED  BY <1>3, <2>5
<1>. QED  BY <1>2, <1>4, <1>5

-----------------------------------------------------------------------------
(* What the generator describes, and what that refers to.                  *)

DocumentTypeOK ==
    /\ project \in Projects
    /\ state \in {"registering", "paths", "schemas", "done", "TypeError"}
    /\ IsList(routes) /\ IsList(schemasToGenerate) /\ IsList(round)
    /\ document = [paths |-> document.paths, schemas |-> document.schemas]

\* When a part of the work has been done, nothing of it is left.
WorkOk ==
    /\ state \in {"registering", "paths"} => round = <<>>
    /\ state \in {"schemas", "done"} => routes = <<>>
    /\ state = "done" => schemasToGenerate = <<>> /\ round = <<>>

\* A route is registered, and described by itself or by one that takes its place.
Described(r) ==
    /\ PlaceOf(r) \in DOMAIN document.paths
    /\ \E other \in Range(RegisteredRoutes) :
           PlaceOf(other) = PlaceOf(r) /\ document.paths[PlaceOf(r)] = Operation(other)
RoutesOk ==
    /\ Range(routes) \subseteq Range(RegisteredRoutes)
    /\ state # "registering" => \A r \in Range(RegisteredRoutes) : r \in Range(routes) \/ Described(r)

\* What is referred to has been described, or will be in this round or in the next one.
NamesIn(ts) == {NameForSchema(t) : t \in Range(ts)}
Named == DOMAIN document.schemas \cup NamesIn(round) \cup NamesIn(schemasToGenerate)
ReferencesOk == \A o \in Objects : o.refs \subseteq Named
\* What was taken up has been described, or will be in this round.
TakenUpOk ==
    \A t \in schemasAlreadyGenerated : NameForSchema(t) \in DOMAIN document.schemas \/ t \in Range(round)
RequiredOk ==
    \A n \in DOMAIN document.schemas :
        document.schemas[n].required \subseteq DOMAIN document.schemas[n].properties

DocumentInv == DocumentTypeOK /\ WorkOk /\ RoutesOk /\ ReferencesOk /\ TakenUpOk /\ RequiredOk

LEMMA TypesAreList ==
    ASSUME NEW m, ItemsAreList(m), ~Throws(m)
    PROVE  IsList(TypesOf(m))
<1>1. CASE m.type = "array"
  BY <1>1 DEF ItemsAreList, Throws, TypesOf
<1>2. CASE m.type # "array"
  <2>1. <<m.type>> \in Seq({m.type})
    OBVIOUS
  <2>2. IsList(<<m.type>>)
    BY <2>1, ListOfItems
  <2>. QED  BY <1>2, <2>2 DEF TypesOf
<1>. QED  BY <1>1, <1>2

LEMMA ReferredHas ==
    ASSUME NEW ms, IsList(ms),
           \A m \in Range(ms) : ItemsAreList(m) /\ ~Throws(m)
    PROVE  /\ IsList(ReferredBy(ms))
           /\ \A m \in Range(ms) : Range(ReferencesOf(m)) \subseteq Range(ReferredBy(ms))
<1>1. \A m \in Range(ms) : IsList(ReferencesOf(m))
  BY TypesAreList, ListOfSelected DEF ReferencesOf
<1>. DEFINE S == UNION {Range(ReferencesOf(m)) : m \in Range(ms)}
            ss == [i \in DOMAIN ms |-> ReferencesOf(ms[i])]
<1>2. \A m \in Range(ms) : ReferencesOf(m) \in Seq(S)
  <2>. SUFFICES ASSUME NEW m \in Range(ms) PROVE ReferencesOf(m) \in Seq(S)
    OBVIOUS
  <2>1. PICK A : A = Range(ReferencesOf(m))
    OBVIOUS
  <2>2. ReferencesOf(m) \in Seq(A) /\ A \subseteq S
    BY <1>1, <2>1 DEF IsList
  <2>. HIDE DEF S
  <2>. QED  BY <2>2
<1>3. ss \in Seq(Seq(S))
  <2>1. Len(ms) \in Nat /\ DOMAIN ms = 1 .. Len(ms) /\ \A i \in DOMAIN ms : ms[i] \in Range(ms)
    BY DEF IsList, Range
  <2>2. \A i \in DOMAIN ms : ReferencesOf(ms[i]) \in Seq(S)
    BY <1>2, <2>1
  <2>. HIDE DEF S
  <2>3. ss \in [1 .. Len(ms) -> Seq(S)]
    BY <2>1, <2>2
  <2>. QED  BY <2>1, <2>3, SeqDef
<1>4. PICK u : u = Flat(ss)
  OBVIOUS
<1>5. /\ u \in Seq(S)
      /\ \A i \in DOMAIN ss : \A j \in DOMAIN ss[i] : \E k \in DOMAIN u : u[k] = ss[i][j]
  <2>. HIDE DEF S, ss
  <2>. QED  BY <1>3, <1>4, FlatHas
<1>6. IsList(u)
  <2>. HIDE DEF S
  <2>. QED  BY <1>5, ListOfItems
<1>7. ASSUME NEW m \in Range(ms), NEW t \in Range(ReferencesOf(m)) PROVE t \in Range(u)
  <2>1. PICK i \in DOMAIN ms : ms[i] = m
    BY DEF Range
  <2>2. i \in DOMAIN ss /\ ss[i] = ReferencesOf(m)
    BY <2>1
  <2>3. PICK j \in DOMAIN ss[i] : ss[i][j] = t
    BY <2>2 DEF Range
  <2>4. PICK k \in DOMAIN u : u[k] = t
    BY <1>5, <2>2, <2>3
  <2>. QED  BY <2>4 DEF Range
<1>. QED  BY <1>4, <1>6, <1>7 DEF ReferredBy

\* The objects of a route's operation are among those that it is generated from.
LEMMA ObjectsOfRoute ==
    ASSUME NEW r, IsList(r.parameters), IsList(r.responses),
           \A m \in Range(r.responses) : ItemsAreList(m)
    PROVE  /\ IsList(ObjectsOf(r)) /\ Written(r) \subseteq Range(ObjectsOf(r))
           /\ \A m \in Range(ObjectsOf(r)) : ItemsAreList(m)
<1>1. IsList(BodyOf(r)) /\ \A m \in Range(BodyOf(r)) : ItemsAreList(m)
  <2>1. CASE BodyOf(r) = <<>>
    <3>1. <<>> \in Seq({}) /\ Range(<<>>) = {}
      BY DEF Range
    <3>2. IsList(<<>>)
      BY <3>1, ListOfItems
    <3>. QED  BY <2>1, <3>1, <3>2
  <2>2. CASE BodyOf(r) # <<>>
    <3>1. PICK body : /\ body = [type |-> BodiesOf(r)[1].type, items |-> Undefined]
                      /\ BodyOf(r) = <<body>>
      BY <2>2 DEF BodyOf
    <3>2. <<body>> \in Seq({body}) /\ body.items = Undefined
      BY <3>1
    <3>3. IsList(<<body>>) /\ Range(<<body>>) \subseteq {body}
      BY <3>2, ListOfItems
    <3>. QED  BY <3>1, <3>2, <3>3 DEF ItemsAreList
  <2>. QED  BY <2>1, <2>2
<1>2. /\ IsList(ResponsesOf(r)) /\ \A m \in Range(ResponsesOf(r)) : ItemsAreList(m)
  <2>1. <<>> \in Seq({}) /\ Range(<<>>) = {}
    BY DEF Range
  <2>2. IsList(<<>>)
    BY <2>1, ListOfItems
  <2>. QED  BY <2>1, <2>2 DEF ResponsesOf
<1>. DEFINE I == {i \in DOMAIN ResponsesOf(r) : HasContent(r, i)}
<1>3. PICK ss, ms : ss = ResponsesOf(r) /\ ms = Select(ss, I)
  OBVIOUS
<1>4. /\ IsList(ms) /\ Range(ms) \subseteq Range(ss)
      /\ \A i \in DOMAIN ss \cap I : ss[i] \in Range(ms)
  <2>. HIDE DEF I
  <2>. QED  BY <1>2, <1>3, ListOfSelected
<1>5. PICK bs : bs = BodyOf(r) /\ ObjectsOf(r) = ms \o bs
  BY <1>3 DEF ObjectsOf
<1>6. IsList(ms \o bs) /\ Range(ms \o bs) = Range(ms) \cup Range(bs)
  BY <1>1, <1>4, <1>5, ListOfBoth
<1>7. Written(r) \subseteq Range(ms) \cup Range(bs)
  BY <1>3, <1>4, <1>5 DEF Written
<1>. QED  BY <1>1, <1>2, <1>3, <1>4, <1>5, <1>6, <1>7

LEMMA RegisteredHaveLists ==
    ASSUME DocumentAssumptions, project \in Projects
    PROVE  /\ IsList(RegisteredRoutes) /\ Range(project.routes) \subseteq Range(RegisteredRoutes)
           /\ \A r \in Range(RegisteredRoutes) :
                /\ IsList(r.parameters) /\ IsList(r.responses)
                /\ \A m \in Range(r.responses) : ItemsAreList(m)
<1>1. PICK S : S = {DocsRoute("json", "getOpenApiJson"), DocsRoute("yaml", "getOpenApiYaml")}
  OBVIOUS
<1>2. DocsRoutes \in Seq(S)
  <2>1. PICK a, b : a = DocsRoute("json", "getOpenApiJson") /\ b = DocsRoute("yaml", "getOpenApiYaml")
    OBVIOUS
  <2>2. a \in S /\ b \in S
    BY <1>1, <2>1
  <2>3. <<>> \in Seq(S) /\ <<a>> \in Seq(S) /\ <<b>> \in Seq(S)
    BY <2>2
  <2>4. PICK json, yaml : /\ json \in Seq(S) /\ yaml \in Seq(S)
                          /\ DocsRoutes = json \o yaml
    BY <2>1, <2>3, Zenon DEF DocsRoutes
  <2>. QED  BY <2>4
<1>3. IsList(DocsRoutes) /\ Range(DocsRoutes) \subseteq S
  BY <1>2, ListOfItems
<1>4. IsList(project.routes)
  BY DEF DocumentAssumptions
<1>5. IsList(RegisteredRoutes) /\ Range(RegisteredRoutes) = Range(project.routes) \cup Range(DocsRoutes)
  BY <1>3, <1>4, ListOfBoth DEF RegisteredRoutes
<1>6. \A r \in S : r.parameters = <<>> /\ r.responses = <<>>
  BY <1>1 DEF DocsRoute
<1>7. IsList(<<>>) /\ Range(<<>>) = {}
  <2>1. <<>> \in Seq({}) /\ Range(<<>>) = {}
    BY DEF Range
  <2>. QED  BY <2>1, ListOfItems
<1>8. ASSUME NEW r \in Range(RegisteredRoutes)
      PROVE  IsList(r.parameters) /\ IsList(r.responses) /\ \A m \in Range(r.responses) : ItemsAreList(m)
  <2>1. CASE r \in Range(project.routes)
    BY <2>1 DEF DocumentAssumptions
  <2>2. CASE r \in S
    <3>1. r.parameters = <<>> /\ r.responses = <<>>
      BY <1>6, <2>2
    <3>. QED  BY <1>7, <3>1
  <2>. QED  BY <1>3, <1>5, <2>1, <2>2
<1>. QED  BY <1>5, <1>8

LEMMA PropertiesHaveLists ==
    ASSUME DocumentAssumptions, project \in Projects, NEW t
    PROVE  IsList(PropertiesOf(t)) /\ \A m \in Range(PropertiesOf(t)) : ItemsAreList(m)
<1>1. CASE ListOf(t) = "none"
  <2>1. PropertiesOf(t) = <<>>
    BY <1>1 DEF PropertiesOf
  <2>2. <<>> \in Seq({}) /\ Range(<<>>) = {}
    BY DEF Range
  <2>3. IsList(<<>>)
    BY <2>2, ListOfItems
  <2>. QED  BY <2>1, <2>2, <2>3
<1>2. CASE ListOf(t) # "none"
  <2>1. t \in DOMAIN project.classes /\ ListOf(t) = project.classes[t].list
    BY <1>2 DEF ListOf
  <2>2. PropertiesOf(t) = project.lists[project.classes[t].list]
    BY <1>2, <2>1 DEF PropertiesOf
  <2>. QED  BY <1>2, <2>1, <2>2 DEF DocumentAssumptions
<1>. QED  BY <1>1, <1>2

LEMMA SameProject ==
    ASSUME project' = project
    PROVE  /\ RegisteredRoutes' = RegisteredRoutes
           /\ \A t : NameForSchema(t)' = NameForSchema(t)
           /\ \A r : Operation(r)' = Operation(r)
<1>1. RegisteredRoutes' = RegisteredRoutes
  BY Zenon DEF RegisteredRoutes, DocsRoutes, DocsRoute, DocsUrl, BasePath
<1>2. \A t : NameForSchema(t)' = NameForSchema(t)
  BY Zenon DEF NameForSchema
<1>3. \A r : Operation(r)' = Operation(r)
  BY Zenon DEF Operation, ObjectOf, NameForSchema
<1>. QED  BY <1>1, <1>2, <1>3

LEMMA DocumentInitially == DocumentAssumptions /\ DocumentInit => DocumentInv
<1>. SUFFICES ASSUME DocumentAssumptions, DocumentInit PROVE DocumentInv
  OBVIOUS
<1>1. /\ project \in Projects /\ routes = project.routes /\ state = "registering"
      /\ schemasToGenerate = <<>> /\ schemasAlreadyGenerated = {} /\ round = <<>>
      /\ document = [paths |-> <<>>, schemas |-> <<>>]
  BY DEF DocumentInit
<1>2. IsList(<<>>) /\ Range(<<>>) = {} /\ DOMAIN <<>> = {}
  <2>1. <<>> \in Seq({}) /\ Range(<<>>) = {} /\ DOMAIN <<>> = {}
    BY DEF Range
  <2>. QED  BY <2>1, ListOfItems
<1>3. document.paths = <<>> /\ document.schemas = <<>>
  BY <1>1
<1>4. DocumentTypeOK
  BY <1>1, <1>2 DEF DocumentTypeOK, DocumentAssumptions
<1>5. WorkOk
  BY <1>1 DEF WorkOk
<1>6. RoutesOk
  BY <1>1, RegisteredHaveLists DEF RoutesOk
<1>7. Objects = {}
  BY <1>2, <1>3 DEF Objects
<1>. QED  BY <1>1, <1>2, <1>3, <1>4, <1>5, <1>6, <1>7 DEF DocumentInv, ReferencesOk, TakenUpOk, RequiredOk

\* Nothing of what has been described changes.
LEMMA SameDocument ==
    ASSUME document' = document, project' = project
    PROVE  /\ Objects' = Objects /\ RegisteredRoutes' = RegisteredRoutes
           /\ \A t : NameForSchema(t)' = NameForSchema(t)
           /\ \A r : Described(r)' <=> Described(r)
           /\ RequiredOk' <=> RequiredOk
<1>1. Objects' = Objects
  BY Zenon DEF Objects
<1>2. \A r : PlaceOf(r)' = PlaceOf(r)
  BY Zenon DEF PlaceOf, OpenApiPath
<1>3. \A r : Described(r)' <=> Described(r)
  <2>1. RegisteredRoutes' = RegisteredRoutes /\ \A r : Operation(r)' = Operation(r)
    BY SameProject
  <2>. QED  BY <1>2, <2>1, Zenon DEF Described
<1>4. RequiredOk' <=> RequiredOk
  BY Zenon DEF RequiredOk
<1>. QED  BY <1>1, <1>3, <1>4, SameProject

LEMMA RegisterKeepsDocument ==
    ASSUME DocumentAssumptions, DocumentInv, RegisterDocument
    PROVE  DocumentInv'
<1>1. /\ state = "registering" /\ routes' = RegisteredRoutes /\ state' = "paths"
      /\ UNCHANGED <<project, nameless, schemasToGenerate, schemasAlreadyGenerated, round, document>>
  BY DEF RegisterDocument
<1>2. DocumentTypeOK /\ WorkOk /\ ReferencesOk /\ TakenUpOk /\ RequiredOk
  BY DEF DocumentInv
<1>3. /\ RegisteredRoutes' = RegisteredRoutes /\ Objects' = Objects /\ RequiredOk'
      /\ \A t : NameForSchema(t)' = NameForSchema(t)
  BY <1>1, <1>2, SameDocument
<1>4. DocumentTypeOK'
  BY <1>1, <1>2, RegisteredHaveLists DEF DocumentTypeOK
<1>5. WorkOk'
  BY <1>1, <1>2 DEF WorkOk
<1>6. RoutesOk'
  BY <1>1, <1>3 DEF RoutesOk
<1>7. ReferencesOk'
  BY <1>1, <1>2, <1>3 DEF ReferencesOk, Named, NamesIn
<1>8. TakenUpOk'
  BY <1>1, <1>2, <1>3 DEF TakenUpOk
<1>. QED  BY <1>3, <1>4, <1>5, <1>6, <1>7, <1>8 DEF DocumentInv

LEMMA ErrorKeepsDocument ==
    ASSUME DocumentAssumptions, DocumentInv, state \in {"paths", "schemas"}, ThrowTypeError
    PROVE  DocumentInv'
<1>1. /\ state' = "TypeError"
      /\ UNCHANGED <<project, routes, nameless, schemasToGenerate, schemasAlreadyGenerated, round, document>>
  BY DEF ThrowTypeError
<1>2. DocumentTypeOK /\ WorkOk /\ RoutesOk /\ ReferencesOk /\ TakenUpOk /\ RequiredOk
  BY DEF DocumentInv
<1>3. /\ RegisteredRoutes' = RegisteredRoutes /\ Objects' = Objects /\ RequiredOk'
      /\ \A t : NameForSchema(t)' = NameForSchema(t)
      /\ \A r : Described(r)' <=> Described(r)
  BY <1>1, <1>2, SameDocument
<1>4. DocumentTypeOK'
  BY <1>1, <1>2 DEF DocumentTypeOK
<1>5. WorkOk'
  BY <1>1, <1>2 DEF WorkOk
<1>6. RoutesOk'
  BY <1>1, <1>2, <1>3 DEF RoutesOk
<1>7. ReferencesOk'
  BY <1>1, <1>2, <1>3 DEF ReferencesOk, Named, NamesIn
<1>8. TakenUpOk'
  BY <1>1, <1>2, <1>3 DEF TakenUpOk
<1>. QED  BY <1>3, <1>4, <1>5, <1>6, <1>7, <1>8 DEF DocumentInv

\* What stays described when one more route is, and what the new one refers to.
LEMMA RouteIsDescribed ==
    ASSUME DocumentTypeOK, NEW r, document' = [document EXCEPT !.paths = WithOperation(@, r)]
    PROVE  /\ document' = [paths |-> WithOperation(document.paths, r), schemas |-> document.schemas]
           /\ Objects' \subseteq Objects \cup {ObjectOf(m) : m \in Written(r)}
<1>1. document = [paths |-> document.paths, schemas |-> document.schemas]
  BY DEF DocumentTypeOK
<1>2. PICK before, after, schemas :
        before = document.paths /\ schemas = document.schemas /\ after = WithOperation(before, r)
  OBVIOUS
<1>3. document' = [paths |-> after, schemas |-> schemas]
  BY <1>1, <1>2
<1>4. document'.paths = after /\ document'.schemas = schemas
  BY <1>3
<1>5. Range(after) \subseteq Range(before) \cup {Operation(r)}
  BY <1>2 DEF WithOperation, Range
<1>6. Operation(r).objects = {ObjectOf(m) : m \in Written(r)}
  BY DEF Operation
<1>7. /\ Objects = (UNION {o.objects : o \in Range(before)}) \cup (UNION {Range(s.properties) : s \in Range(schemas)})
      /\ Objects' = (UNION {o.objects : o \in Range(after)}) \cup (UNION {Range(s.properties) : s \in Range(schemas)})
  BY <1>2, <1>4, Zenon DEF Objects
<1>8. ASSUME NEW o \in UNION {p.objects : p \in Range(after)}
      PROVE  o \in UNION {p.objects : p \in Range(before)} \/ o \in Operation(r).objects
  BY <1>5
<1>. QED  BY <1>2, <1>3, <1>6, <1>7, <1>8

LEMMA DescribeKeepsDocument ==
    ASSUME DocumentAssumptions, DocumentInv, DocumentRoute
    PROVE  DocumentInv'
<1>1. state = "paths" /\ routes # <<>>
  BY DEF DocumentRoute
<1>2. PICK r : r = Head(routes)
  OBVIOUS
<1>3. CASE \E m \in Range(ObjectsOf(r)) : Throws(m)
  <2>1. ThrowTypeError
    BY <1>2, <1>3 DEF DocumentRoute
  <2>. QED  BY <1>1, <2>1, ErrorKeepsDocument
<1>4. CASE \A m \in Range(ObjectsOf(r)) : ~Throws(m)
  <2>1. /\ document' = [document EXCEPT !.paths = WithOperation(@, r)]
        /\ schemasToGenerate' = AddSchemas(schemasToGenerate, ReferredBy(ObjectsOf(r)))
        /\ routes' = Tail(routes)
        /\ UNCHANGED <<project, nameless, schemasAlreadyGenerated, round, state>>
    BY <1>2, <1>4 DEF DocumentRoute
  <2>2. DocumentTypeOK /\ WorkOk /\ RoutesOk /\ ReferencesOk /\ TakenUpOk /\ RequiredOk
    BY DEF DocumentInv
  <2>3. IsList(routes) /\ IsList(schemasToGenerate) /\ project \in Projects
    BY <2>2 DEF DocumentTypeOK
  <2>4. r \in Range(routes) /\ IsList(Tail(routes)) /\ Range(routes) = {r} \cup Range(Tail(routes))
    BY <1>1, <1>2, <2>3, ListOfTail
  <2>5. r \in Range(RegisteredRoutes)
    BY <2>2, <2>4 DEF RoutesOk
  <2>6. /\ IsList(ObjectsOf(r)) /\ Written(r) \subseteq Range(ObjectsOf(r))
        /\ \A m \in Range(ObjectsOf(r)) : ItemsAreList(m)
    BY <2>3, <2>5, RegisteredHaveLists, ObjectsOfRoute
  <2>7. PICK objects, referred : objects = ObjectsOf(r) /\ referred = ReferredBy(objects)
    OBVIOUS
  <2>8. /\ IsList(referred)
        /\ \A m \in Range(objects) : Range(ReferencesOf(m)) \subseteq Range(referred)
    BY <1>4, <2>6, <2>7, ReferredHas
  <2>9. /\ schemasToGenerate' = AddSchemas(schemasToGenerate, referred) /\ IsList(schemasToGenerate')
        /\ Range(schemasToGenerate) \subseteq Range(schemasToGenerate')
        /\ Range(referred) \subseteq Range(schemasToGenerate')
    BY <2>1, <2>3, <2>7, <2>8, AddSchemasHas
  <2>10. /\ document' = [paths |-> WithOperation(document.paths, r), schemas |-> document.schemas]
         /\ Objects' \subseteq Objects \cup {ObjectOf(m) : m \in Written(r)}
    BY <2>1, <2>2, RouteIsDescribed
  <2>11. document'.paths = WithOperation(document.paths, r) /\ document'.schemas = document.schemas
    BY <2>10
  <2>12. /\ RegisteredRoutes' = RegisteredRoutes /\ \A t : NameForSchema(t)' = NameForSchema(t)
         /\ \A q : Operation(q)' = Operation(q)
    BY <2>1, SameProject
  <2>13. DocumentTypeOK'
    BY <2>1, <2>2, <2>4, <2>9, <2>10, <2>11 DEF DocumentTypeOK
  <2>14. WorkOk'
    BY <1>1, <2>1, <2>2 DEF WorkOk
  <2>15. ASSUME NEW q \in Range(RegisteredRoutes), q \notin Range(Tail(routes)) PROVE Described(q)'
    <3>1. \A u : PlaceOf(u)' = PlaceOf(u)
      BY Zenon DEF PlaceOf, OpenApiPath
    <3>2. PICK before, after : before = document.paths /\ after = WithOperation(before, r) /\ after = document'.paths
      BY <2>11
    <3>3. /\ DOMAIN after = DOMAIN before \cup {PlaceOf(r)}
          /\ \A k \in DOMAIN after : after[k] = IF k = PlaceOf(r) THEN Operation(r) ELSE before[k]
      BY <3>2 DEF WithOperation
    <3>4. CASE PlaceOf(q) = PlaceOf(r)
      <4>1. PlaceOf(q) \in DOMAIN after /\ after[PlaceOf(q)] = Operation(r)
        BY <3>3, <3>4
      <4>. QED  BY <2>5, <2>12, <3>1, <3>2, <3>4, <4>1, Zenon DEF Described
    <3>5. CASE PlaceOf(q) # PlaceOf(r)
      <4>1. Described(q)
        <5>1. q # r
          BY <3>5
        <5>. QED  BY <1>1, <2>2, <2>4, <2>15, <5>1 DEF RoutesOk
      <4>2. PICK other \in Range(RegisteredRoutes) :
                PlaceOf(q) \in DOMAIN before /\ PlaceOf(other) = PlaceOf(q) /\ before[PlaceOf(q)] = Operation(other)
        BY <3>2, <4>1 DEF Described
      <4>3. PlaceOf(q) \in DOMAIN after /\ after[PlaceOf(q)] = Operation(other)
        BY <3>3, <3>5, <4>2
      <4>. QED  BY <2>12, <3>1, <3>2, <4>2, <4>3, Zenon DEF Described
    <3>. QED  BY <3>4, <3>5
  <2>16. RoutesOk'
    BY <2>1, <2>2, <2>4, <2>12, <2>15 DEF RoutesOk
  <2>17. Named \subseteq Named'
    BY <2>1, <2>9, <2>11, <2>12 DEF Named, NamesIn
  <2>18. ASSUME NEW m \in Written(r) PROVE ObjectOf(m).refs \subseteq Named'
    <3>1. Range(ReferencesOf(m)) \subseteq Range(schemasToGenerate')
      BY <2>6, <2>7, <2>8, <2>9
    <3>2. ObjectOf(m).refs = {NameForSchema(t) : t \in Range(ReferencesOf(m))}
      BY DEF ObjectOf
    <3>3. ASSUME NEW t \in Range(schemasToGenerate') PROVE NameForSchema(t) \in Named'
      BY <2>12 DEF Named, NamesIn
    <3>. QED  BY <3>1, <3>2, <3>3
  <2>19. ReferencesOk'
    BY <2>2, <2>10, <2>17, <2>18 DEF ReferencesOk
  <2>20. TakenUpOk'
    BY <2>1, <2>2, <2>11, <2>12 DEF TakenUpOk
  <2>21. RequiredOk'
    BY <2>2, <2>11 DEF RequiredOk
  <2>. QED  BY <2>13, <2>14, <2>16, <2>19, <2>20, <2>21 DEF DocumentInv
<1>. QED  BY <1>3, <1>4

LEMMA RoundKeepsDocument ==
    ASSUME DocumentAssumptions, DocumentInv, StartRound
    PROVE  DocumentInv'
<1>. DEFINE I == {i \in DOMAIN schemasToGenerate : IsNew(schemasToGenerate[i])}
<1>1. /\ state \in {"paths", "schemas"} /\ (state = "paths" => routes = <<>>) /\ (state = "schemas" => round = <<>>)
      /\ round' = Select(schemasToGenerate, I) /\ schemasToGenerate' = <<>>
      /\ schemasAlreadyGenerated' = schemasAlreadyGenerated \cup Range(schemasToGenerate)
      /\ state' = "schemas"
      /\ UNCHANGED <<project, routes, nameless, document>>
  BY DEF StartRound
<1>2. DocumentTypeOK /\ WorkOk /\ RoutesOk /\ ReferencesOk /\ TakenUpOk /\ RequiredOk
  BY DEF DocumentInv
<1>3. round = <<>> /\ routes = <<>>
  BY <1>1, <1>2 DEF WorkOk
<1>4. IsList(<<>>) /\ Range(<<>>) = {}
  <2>1. <<>> \in Seq({}) /\ Range(<<>>) = {}
    BY DEF Range
  <2>. QED  BY <2>1, ListOfItems
<1>5. IsList(schemasToGenerate)
  BY <1>2 DEF DocumentTypeOK
<1>6. IsList(round') /\ \A i \in DOMAIN schemasToGenerate \cap I : schemasToGenerate[i] \in Range(round')
  <2>. HIDE DEF I
  <2>. QED  BY <1>1, <1>5, ListOfSelected
<1>7. ASSUME NEW t \in Range(schemasToGenerate), t \notin schemasAlreadyGenerated PROVE t \in Range(round')
  <2>1. PICK i \in DOMAIN schemasToGenerate : schemasToGenerate[i] = t
    BY DEF Range
  <2>2. i \in I
    BY <1>7, <2>1 DEF IsNew
  <2>. QED  BY <1>6, <2>1, <2>2
<1>8. \A t \in schemasAlreadyGenerated : NameForSchema(t) \in DOMAIN document.schemas
  BY <1>2, <1>3, <1>4 DEF TakenUpOk
<1>9. /\ RegisteredRoutes' = RegisteredRoutes /\ Objects' = Objects /\ RequiredOk'
      /\ \A t : NameForSchema(t)' = NameForSchema(t)
      /\ \A r : Described(r)' <=> Described(r)
  BY <1>1, <1>2, SameDocument
<1>. HIDE DEF I
<1>10. DocumentTypeOK'
  BY <1>1, <1>2, <1>4, <1>6 DEF DocumentTypeOK
<1>11. WorkOk'
  BY <1>1, <1>3 DEF WorkOk
<1>12. RoutesOk'
  BY <1>1, <1>2, <1>9 DEF RoutesOk
<1>13. Named \subseteq Named'
  <2>1. NamesIn(round) = {}
    BY <1>3, <1>4 DEF NamesIn
  <2>2. ASSUME NEW t \in Range(schemasToGenerate)
        PROVE  NameForSchema(t) \in DOMAIN document.schemas \/ t \in Range(round')
    BY <1>7, <1>8
  <2>3. ASSUME NEW n \in NamesIn(schemasToGenerate) PROVE n \in Named'
    <3>1. PICK t \in Range(schemasToGenerate) : n = NameForSchema(t)
      BY DEF NamesIn
    <3>2. CASE NameForSchema(t) \in DOMAIN document.schemas
      BY <1>1, <3>1, <3>2 DEF Named
    <3>3. CASE t \in Range(round')
      BY <1>9, <3>1, <3>3 DEF Named, NamesIn
    <3>. QED  BY <2>2, <3>2, <3>3
  <2>4. DOMAIN document.schemas \subseteq Named'
    BY <1>1 DEF Named
  <2>. QED  BY <2>1, <2>3, <2>4 DEF Named
<1>14. ReferencesOk'
  BY <1>2, <1>9, <1>13 DEF ReferencesOk
<1>15. TakenUpOk'
  BY <1>1, <1>7, <1>8, <1>9 DEF TakenUpOk
<1>. QED  BY <1>9, <1>10, <1>11, <1>12, <1>14, <1>15 DEF DocumentInv

\* The schema of a class has the properties of the metadata, and requires some of these.
LEMMA SchemaOfClass ==
    ASSUME NEW t, IsList(PropertiesOf(t))
    PROVE  /\ Range(Schema(t).properties) \subseteq {ObjectOf(m) : m \in Range(PropertiesOf(t))}
           /\ Schema(t).required \subseteq DOMAIN Schema(t).properties
<1>1. PICK ps, n : ps = PropertiesOf(t) /\ n = Len(ps) /\ n \in Nat /\ DOMAIN ps = 1 .. n
  BY DEF IsList
<1>2. Schema(t).properties = Properties(t) /\ Schema(t).required = RequiredOf(t)
  BY DEF Schema
<1>3. DOMAIN Properties(t) = {NameOfProperty(t, i, nameless) : i \in 1 .. n}
  BY <1>1 DEF Properties
<1>4. RequiredOf(t) \subseteq DOMAIN Properties(t)
  BY <1>1, <1>3 DEF RequiredOf
<1>5. ASSUME NEW name \in DOMAIN Properties(t)
      PROVE  Properties(t)[name] \in {ObjectOf(m) : m \in Range(ps)}
  <2>. DEFINE T == {i \in 1 .. n : NameOfProperty(t, i, nameless) = name}
              IsLast(i) ==
                /\ NameOfProperty(t, i, nameless) = name
                /\ \A j \in 1 .. n : NameOfProperty(t, j, nameless) = name => j <= i
              last == CHOOSE i \in 1 .. n : IsLast(i)
  <2>1. T \in SUBSET (1 .. n) /\ T # {}
    BY <1>3
  <2>2. \E i \in T : \A j \in T : j <= i
    <3>. HIDE DEF T
    <3>. QED  BY <1>1, <2>1, FirstAndLast
  <2>3. \E i \in 1 .. n : IsLast(i)
    BY <2>2
  <2>4. last \in 1 .. n
    <3>. HIDE DEF IsLast
    <3>. QED  BY <2>3
  <2>5. Properties(t)[name] = ObjectOf(ps[last])
    BY <1>1, <1>3, Zenon DEF Properties
  <2>6. ps[last] \in Range(ps)
    <3>. HIDE DEF last
    <3>. QED  BY <1>1, <2>4 DEF Range
  <2>. QED  BY <2>5, <2>6
<1>6. Range(Properties(t)) \subseteq {ObjectOf(m) : m \in Range(ps)}
  BY <1>5 DEF Range
<1>. QED  BY <1>1, <1>2, <1>4, <1>6

LEMMA SchemaIsDescribed ==
    ASSUME DocumentTypeOK, RequiredOk, NEW t, NEW n, IsList(PropertiesOf(t)),
           document' = [document EXCEPT !.schemas = [k \in DOMAIN @ \cup {n} |-> IF k = n THEN Schema(t) ELSE @[k]]]
    PROVE  /\ document' = [paths |-> document.paths, schemas |-> document'.schemas]
           /\ DOMAIN document'.schemas = DOMAIN document.schemas \cup {n}
           /\ Objects' \subseteq Objects \cup {ObjectOf(m) : m \in Range(PropertiesOf(t))}
           /\ RequiredOk'
<1>1. document = [paths |-> document.paths, schemas |-> document.schemas]
  BY DEF DocumentTypeOK
<1>2. PICK paths, before, after, schema :
        /\ paths = document.paths /\ before = document.schemas /\ schema = Schema(t)
        /\ after = [k \in DOMAIN before \cup {n} |-> IF k = n THEN schema ELSE before[k]]
  OBVIOUS
<1>3. document' = [paths |-> paths, schemas |-> after]
  BY <1>1, <1>2
<1>4. document'.paths = paths /\ document'.schemas = after
  BY <1>3
<1>5. DOMAIN after = DOMAIN before \cup {n} /\ \A k \in DOMAIN after : after[k] = IF k = n THEN schema ELSE before[k]
  BY <1>2
<1>6. /\ Range(schema.properties) \subseteq {ObjectOf(m) : m \in Range(PropertiesOf(t))}
      /\ schema.required \subseteq DOMAIN schema.properties
  BY <1>2, SchemaOfClass
<1>7. Range(after) \subseteq Range(before) \cup {schema}
  BY <1>5 DEF Range
<1>8. /\ Objects = (UNION {o.objects : o \in Range(paths)}) \cup (UNION {Range(s.properties) : s \in Range(before)})
      /\ Objects' = (UNION {o.objects : o \in Range(paths)}) \cup (UNION {Range(s.properties) : s \in Range(after)})
  BY <1>2, <1>4, Zenon DEF Objects
<1>9. ASSUME NEW o \in UNION {Range(s.properties) : s \in Range(after)}
      PROVE  o \in UNION {Range(s.properties) : s \in Range(before)} \/ o \in Range(schema.properties)
  BY <1>7
<1>10. RequiredOk'
  <2>1. \A k \in DOMAIN before : before[k].required \subseteq DOMAIN before[k].properties
    BY <1>2 DEF RequiredOk
  <2>2. \A k \in DOMAIN after : after[k].required \subseteq DOMAIN after[k].properties
    BY <1>5, <1>6, <2>1
  <2>. QED  BY <1>4, <2>2 DEF RequiredOk
<1>11. Objects' \subseteq Objects \cup {ObjectOf(m) : m \in Range(PropertiesOf(t))}
  <2>. DEFINE objects == {ObjectOf(m) : m \in Range(PropertiesOf(t))}
              ofPaths == UNION {o.objects : o \in Range(paths)}
              ofBefore == UNION {Range(s.properties) : s \in Range(before)}
              ofAfter == UNION {Range(s.properties) : s \in Range(after)}
  <2>1. \A o \in ofAfter : o \in ofBefore \/ o \in Range(schema.properties)
    BY <1>9
  <2>2. Range(schema.properties) \subseteq objects
    BY <1>6
  <2>3. Objects = ofPaths \cup ofBefore
    BY <1>8, Zenon
  <2>5. Objects' = ofPaths \cup ofAfter
    BY <1>8, Zenon
  <2>. HIDE DEF objects, ofPaths, ofBefore, ofAfter
  <2>4. Objects' \subseteq Objects \cup objects
    BY <2>1, <2>2, <2>3, <2>5
  <2>. QED  BY <2>4 DEF objects
<1>12. document' = [paths |-> document.paths, schemas |-> document'.schemas]
  BY <1>2, <1>3, <1>4
<1>13. DOMAIN document'.schemas = DOMAIN document.schemas \cup {n}
  BY <1>2, <1>4, <1>5
<1>. QED  BY <1>10, <1>11, <1>12, <1>13

LEMMA GenerateKeepsDocument ==
    ASSUME DocumentAssumptions, DocumentInv, GenerateSchema
    PROVE  DocumentInv'
<1>1. state = "schemas" /\ round # <<>>
  BY DEF GenerateSchema
<1>2. PICK t, n, ps : t = Head(round) /\ n = NameForSchema(t) /\ ps = PropertiesOf(t)
  OBVIOUS
<1>3. CASE \E m \in Range(ps) : Throws(m)
  <2>1. ThrowTypeError
    BY <1>2, <1>3 DEF GenerateSchema
  <2>. QED  BY <1>1, <2>1, ErrorKeepsDocument
<1>4. CASE \A m \in Range(ps) : ~Throws(m)
  <2>1. /\ document' = [document EXCEPT !.schemas = [k \in DOMAIN @ \cup {n} |-> IF k = n THEN Schema(t) ELSE @[k]]]
        /\ schemasToGenerate' = AddSchemas(schemasToGenerate, ReferredBy(ps))
        /\ round' = Tail(round)
        /\ UNCHANGED <<project, routes, schemasAlreadyGenerated, state>>
    BY <1>2, <1>4 DEF GenerateSchema
  <2>2. DocumentTypeOK /\ WorkOk /\ RoutesOk /\ ReferencesOk /\ TakenUpOk /\ RequiredOk
    BY DEF DocumentInv
  <2>3. IsList(round) /\ IsList(schemasToGenerate) /\ project \in Projects
    BY <2>2 DEF DocumentTypeOK
  <2>4. IsList(Tail(round)) /\ Range(round) = {t} \cup Range(Tail(round))
    BY <1>1, <1>2, <2>3, ListOfTail
  <2>5. IsList(ps) /\ \A m \in Range(ps) : ItemsAreList(m)
    BY <1>2, <2>3, PropertiesHaveLists
  <2>6. PICK referred : referred = ReferredBy(ps)
    OBVIOUS
  <2>7. /\ IsList(referred)
        /\ \A m \in Range(ps) : Range(ReferencesOf(m)) \subseteq Range(referred)
    BY <1>4, <2>5, <2>6, ReferredHas
  <2>8. /\ IsList(schemasToGenerate')
        /\ Range(schemasToGenerate) \subseteq Range(schemasToGenerate')
        /\ Range(referred) \subseteq Range(schemasToGenerate')
    BY <2>1, <2>3, <2>6, <2>7, AddSchemasHas
  <2>9. /\ document' = [paths |-> document.paths, schemas |-> document'.schemas]
        /\ DOMAIN document'.schemas = DOMAIN document.schemas \cup {n}
        /\ Objects' \subseteq Objects \cup {ObjectOf(m) : m \in Range(ps)}
        /\ RequiredOk'
    <3>1. IsList(PropertiesOf(t))
      BY <1>2, <2>5
    <3>2. document' = [document EXCEPT !.schemas = [k \in DOMAIN @ \cup {n} |-> IF k = n THEN Schema(t) ELSE @[k]]]
      BY <2>1
    <3>3. /\ document' = [paths |-> document.paths, schemas |-> document'.schemas]
          /\ DOMAIN document'.schemas = DOMAIN document.schemas \cup {n}
          /\ Objects' \subseteq Objects \cup {ObjectOf(m) : m \in Range(PropertiesOf(t))}
          /\ RequiredOk'
      BY <2>2, <3>1, <3>2, SchemaIsDescribed, Zenon
    <3>. QED  BY <1>2, <3>3
  <2>10. document'.paths = document.paths
    BY <2>9
  <2>11. /\ RegisteredRoutes' = RegisteredRoutes /\ \A u : NameForSchema(u)' = NameForSchema(u)
         /\ \A q : Operation(q)' = Operation(q)
    BY <2>1, SameProject
  <2>12. DocumentTypeOK'
    BY <2>1, <2>2, <2>4, <2>8, <2>9, <2>10 DEF DocumentTypeOK
  <2>13. WorkOk'
    BY <1>1, <2>1, <2>2 DEF WorkOk
  <2>14. RoutesOk'
    <3>1. \A u : PlaceOf(u)' = PlaceOf(u)
      BY Zenon DEF PlaceOf, OpenApiPath
    <3>2. \A q : Described(q) => Described(q)'
      BY <2>10, <2>11, <3>1, Zenon DEF Described
    <3>. QED  BY <2>1, <2>2, <2>11, <3>2 DEF RoutesOk
  <2>15. Named \subseteq Named'
    <3>1. ASSUME NEW u \in Range(round) PROVE NameForSchema(u) \in Named'
      <4>1. CASE u = t
        BY <1>2, <2>9, <4>1 DEF Named
      <4>2. CASE u \in Range(Tail(round))
        BY <2>1, <2>11, <4>2 DEF Named, NamesIn
      <4>. QED  BY <2>4, <4>1, <4>2
    <3>2. DOMAIN document.schemas \subseteq Named'
      BY <2>9 DEF Named
    <3>3. NamesIn(schemasToGenerate) \subseteq Named'
      BY <2>8, <2>11 DEF Named, NamesIn
    <3>4. NamesIn(round) \subseteq Named'
      BY <3>1 DEF NamesIn
    <3>. QED  BY <3>2, <3>3, <3>4 DEF Named
  <2>16. ASSUME NEW m \in Range(ps) PROVE ObjectOf(m).refs \subseteq Named'
    <3>1. Range(ReferencesOf(m)) \subseteq Range(schemasToGenerate')
      BY <2>7, <2>8
    <3>2. ObjectOf(m).refs = {NameForSchema(u) : u \in Range(ReferencesOf(m))}
      BY DEF ObjectOf
    <3>3. ASSUME NEW u \in Range(schemasToGenerate') PROVE NameForSchema(u) \in Named'
      BY <2>11 DEF Named, NamesIn
    <3>. QED  BY <3>1, <3>2, <3>3
  <2>17. ReferencesOk'
    BY <2>2, <2>9, <2>15, <2>16 DEF ReferencesOk
  <2>18. TakenUpOk'
    <3>. SUFFICES ASSUME NEW u \in schemasAlreadyGenerated
                  PROVE  NameForSchema(u) \in DOMAIN document'.schemas \/ u \in Range(round')
      BY <2>1, <2>11 DEF TakenUpOk
    <3>1. NameForSchema(u) \in DOMAIN document.schemas \/ u \in Range(round)
      BY <2>2 DEF TakenUpOk
    <3>. QED  BY <1>2, <2>1, <2>4, <2>9, <3>1
  <2>. QED  BY <2>9, <2>12, <2>13, <2>14, <2>17, <2>18 DEF DocumentInv
<1>. QED  BY <1>3, <1>4

LEMMA FinishKeepsDocument ==
    ASSUME DocumentInv, Finish \/ UNCHANGED documentVars
    PROVE  DocumentInv'
<1>1. /\ UNCHANGED <<project, routes, nameless, schemasToGenerate, schemasAlreadyGenerated, round, document>>
      /\ state' = state \/ (state = "schemas" /\ round = <<>> /\ schemasToGenerate = <<>> /\ state' = "done")
  BY DEF Finish, documentVars
<1>2. DocumentTypeOK /\ WorkOk /\ RoutesOk /\ ReferencesOk /\ TakenUpOk /\ RequiredOk
  BY DEF DocumentInv
<1>3. /\ RegisteredRoutes' = RegisteredRoutes /\ Objects' = Objects /\ RequiredOk'
      /\ \A t : NameForSchema(t)' = NameForSchema(t)
      /\ \A r : Described(r)' <=> Described(r)
  BY <1>1, <1>2, SameDocument
<1>4. DocumentTypeOK'
  BY <1>1, <1>2 DEF DocumentTypeOK
<1>5. WorkOk'
  BY <1>1, <1>2 DEF WorkOk
<1>6. RoutesOk'
  BY <1>1, <1>2, <1>3 DEF RoutesOk
<1>7. ReferencesOk'
  BY <1>1, <1>2, <1>3 DEF ReferencesOk, Named, NamesIn
<1>8. TakenUpOk'
  BY <1>1, <1>2, <1>3 DEF TakenUpOk
<1>. QED  BY <1>3, <1>4, <1>5, <1>6, <1>7, <1>8 DEF DocumentInv

LEMMA DocumentInvCloses == DocumentInv => DocumentIsClosed
<1>. SUFFICES ASSUME DocumentInv, state = "done" PROVE DocumentIsClosed
  BY DEF DocumentIsClosed
<1>1. WorkOk /\ RoutesOk /\ ReferencesOk /\ RequiredOk
  BY DEF DocumentInv
<1>2. routes = <<>> /\ round = <<>> /\ schemasToGenerate = <<>>
  BY <1>1 DEF WorkOk
<1>3. Range(<<>>) = {}
  BY DEF Range
<1>4. Named = DOMAIN document.schemas
  BY <1>2, <1>3 DEF Named, NamesIn
<1>5. ASSUME NEW r \in Range(RegisteredRoutes),
             \A other \in Range(RegisteredRoutes) \ {r} : PlaceOf(other) # PlaceOf(r)
      PROVE  document.paths[PlaceOf(r)].target = r.target /\ document.paths[PlaceOf(r)].property = r.property
  <2>1. Described(r)
    BY <1>1, <1>2, <1>3 DEF RoutesOk
  <2>2. document.paths[PlaceOf(r)] = Operation(r)
    BY <1>5, <2>1 DEF Described
  <2>. QED  BY <2>2 DEF Operation
<1>. QED  BY <1>1, <1>4, <1>5 DEF DocumentIsClosed, ReferencesOk, RequiredOk

\* Every reference of a finished document leads to a schema, every schema's
\* required properties are properties of it, and every registered route is
\* described, for any metadata (OpenApiDocumentGenerator.generate).
THEOREM DocumentIsClosedCorrect == DocumentSpec => []DocumentIsClosed
<1>1. DocumentInit => DocumentInv
  BY DocumentInitially, DocumentAssumptions
<1>2. DocumentInv /\ [DocumentNext]_documentVars => DocumentInv'
  <2>. SUFFICES ASSUME DocumentInv, [DocumentNext]_documentVars PROVE DocumentInv'
    OBVIOUS
  <2>. USE DocumentAssumptions
  <2>1. CASE RegisterDocument
    BY <2>1, RegisterKeepsDocument
  <2>2. CASE DocumentRoute
    BY <2>2, DescribeKeepsDocument
  <2>3. CASE StartRound
    BY <2>3, RoundKeepsDocument
  <2>4. CASE GenerateSchema
    BY <2>4, GenerateKeepsDocument
  <2>5. CASE Finish \/ UNCHANGED documentVars
    BY <2>5, FinishKeepsDocument
  <2>. QED  BY <2>1, <2>2, <2>3, <2>4, <2>5 DEF DocumentNext
<1>. QED  BY <1>1, <1>2, DocumentInvCloses, PTL DEF DocumentSpec

-----------------------------------------------------------------------------
(* Declarations. The invariant: what the store has of the lists, what the  *)
(* classes find in them, and the registry.                                 *)

CollectingKeys == {"parameter", "pipe", "step-method", "step-target", "route", "job", "websocket-event",
                   "openapi-property", "openapi-response"}
ListKeys == CollectingKeys \cup {"inject"}
DefinedKeys == {"constructable", "injectable", "injectable-scope", "injectable-token", "timeout", "rate-limit",
                "use", "route", "websocket-event", "file-upload", "http-code", "controller", "scheduler", "websocket",
                "repository", "secured", "openapi-schema"}

\* A value of these is a list: the decorators of methods define an entry on the method.
KeepsList(key, p) == key \in ListKeys /\ (key \in {"route", "websocket-event"} => p = Class)

Defining == {e \in {Defines(key, p) : key \in DefinedKeys, p \in Members} : ~KeepsList(e.key, e.property)}
Pushing == {e \in {Pushes(key, p) : key \in CollectingKeys, p \in Members} : KeepsList(e.key, e.property)}
Listing == Pushing \cup {Sets("inject", Class)}
AllEffects == {Registers} \cup Defining \cup Listing

DeclarationEntries == [class : Classes, declaration : Declaration]
Owned(s, key, c, p) == s.metadata[<<key, c, p>>]

\* The lists are on the heap, each is that of one key and property, and what
\* owns one or has an entry in one is a class of T.
StoreOk(s, T) ==
    /\ s = [lists |-> s.lists, metadata |-> s.metadata, registry |-> s.registry]
    /\ s.lists \in Seq(Seq(DeclarationEntries)) /\ s.registry \in Seq(Classes)
    /\ \A key \in ListKeys, p \in Members, c \in Classes :
        KeepsList(key, p) /\ HasOwn(s, key, c, p) =>
            c \in T /\ \E n \in 1 .. Len(s.lists) : Owned(s, key, c, p) = Reference(n)
    /\ \A key, k \in ListKeys, p, q \in Members, c, d \in Classes :
        /\ KeepsList(key, p) /\ HasOwn(s, key, c, p) /\ KeepsList(k, q) /\ HasOwn(s, k, d, q)
        /\ Owned(s, key, c, p) = Owned(s, k, d, q)
        => key = k /\ p = q
    /\ \A n \in 1 .. Len(s.lists) : \A i \in 1 .. Len(s.lists[n]) : s.lists[n][i].class \in T

\* What a reader finds of a class.
OfClass(list, c) == Select(list, {i \in DOMAIN list : IsOf(c, list[i])})
Linked(s, c, key, p) == IF Has(s, key, c, p) THEN OfClass(s.lists[Get(s, key, c, p).list], c) ELSE <<>>

IsUnique(c) == \A other \in Classes \ {c} : ~SameName(c, other)
NamesDiffer(classes) == \A i, j \in 1 .. Len(classes) : SameName(classes[i], classes[j]) => i = j
IsAmong(c, classes) == \E i \in 1 .. Len(classes) : classes[i] = c

Started == {c \in Classes : applied[c] > 0}

LoadTypeOK ==
    /\ program \in Programs
    /\ applied \in [Classes -> Nat] /\ \A c \in Classes : applied[c] <= Len(program[c])
BasesAreApplied == \A c \in Started : \A i \in DOMAIN Chain[c] \ {1} : IsApplied(Chain[c][i])
LinksInv ==
    \A c \in Classes, key \in CollectingKeys, p \in Members :
        KeepsList(key, p) => Linked(store, c, key, p) = Inherited(c, Pushes(key, p))
RegistryInv ==
    /\ NamesDiffer(store.registry)
    /\ \A c \in Classes : \A i \in 1 .. applied[c] : LET effects == Effects(program[c][i]) IN
        effects[1] = Registers =>
            /\ \A j \in 2 .. Len(effects) : HasOwn(store, effects[j].key, c, Class)
            /\ IsUnique(c) /\ c \notin removed => IsAmong(c, store.registry)

LoadInv == LoadTypeOK /\ BasesAreApplied /\ StoreOk(store, Started) /\ LinksInv /\ RegistryInv

-----------------------------------------------------------------------------
(* What the decorators do.                                                 *)

LEMMA ConstructableSteps ==
    ASSUME NEW key, NEW e
    PROVE  Constructable(key) \o <<e>> = <<Registers, Defines("constructable", Class), Defines(key, Class), e>>
<1>. DEFINE s == Constructable(key)
            t == <<Registers, Defines("constructable", Class), Defines(key, Class), e>>
<1>1. PICK S : S = {s[1], s[2], s[3], e}
  OBVIOUS
<1>2. s \in Seq(S) /\ Len(s) = 3 /\ <<e>> \in Seq(S) /\ Len(<<e>>) = 1 /\ <<e>>[1] = e
  BY <1>1 DEF Constructable
<1>3. t \in Seq(S) /\ Len(t) = 4 /\ t[1] = s[1] /\ t[2] = s[2] /\ t[3] = s[3] /\ t[4] = e
  BY <1>1 DEF Constructable
<1>. HIDE DEF s, t
<1>4. PICK one \in Seq(S) : one = <<e>>
  BY <1>2
<1>5. /\ s \o one \in Seq(S) /\ Len(s \o one) = Len(s) + Len(one)
      /\ \A i \in 1 .. Len(s) + Len(one) : (s \o one)[i] = IF i <= Len(s) THEN s[i] ELSE one[i - Len(s)]
  BY <1>2, ConcatProperties
<1>6. Len(one) = 1 /\ one[1] = e
  BY <1>2, <1>4
<1>7. \A i \in 1 .. 4 : (s \o one)[i] = t[i]
  BY <1>2, <1>3, <1>5, <1>6
<1>8. Len(s \o one) = 4
  BY <1>2, <1>5, <1>6
<1>9. s \o one = t
  BY <1>3, <1>5, <1>7, <1>8, SeqEqual
<1>. QED  BY <1>4, <1>9 DEF s, t

\* A decorator changes a list once at most, and one that registers its class does
\* nothing but for the class.
EffectsOk(effects) ==
    /\ effects \in Seq(AllEffects) /\ effects # <<>>
    /\ \A i, j \in 1 .. Len(effects) : effects[i] \in Listing /\ effects[j] \in Listing => i = j
    /\ effects[1] = Registers => \A j \in 2 .. Len(effects) : effects[j] # Registers /\ effects[j].property = Class

LEMMA EffectKinds ==
    /\ \A e \in Defining : /\ e.effect = "define" /\ e = Defines(e.key, e.property)
                           /\ e.property \in Members /\ ~KeepsList(e.key, e.property)
    /\ \A e \in Pushing : /\ e.effect = "push" /\ e = Pushes(e.key, e.property)
                          /\ e.key \in CollectingKeys /\ e.property \in Members /\ KeepsList(e.key, e.property)
    /\ Sets("inject", Class).effect = "set" /\ Sets("inject", Class).key = "inject" /\ Sets("inject", Class).property = Class
    /\ Registers.effect = "register"
BY DEF Defining, Pushing, Defines, Pushes, Sets, Registers

LEMMA OneEffect ==
    ASSUME NEW e \in AllEffects
    PROVE  EffectsOk(<<e>>)
<1>1. <<e>> \in Seq(AllEffects) /\ Len(<<e>>) = 1 /\ <<e>>[1] = e
  OBVIOUS
<1>. QED  BY <1>1 DEF EffectsOk

LEMMA TwoEffects ==
    ASSUME NEW e \in Pushing, NEW f \in Defining
    PROVE  EffectsOk(<<e, f>>)
<1>1. <<e, f>> \in Seq(AllEffects) /\ Len(<<e, f>>) = 2 /\ <<e, f>>[1] = e /\ <<e, f>>[2] = f
  BY DEF AllEffects, Listing
<1>2. f.effect = "define" /\ e.effect = "push" /\ Registers.effect = "register" /\ Sets("inject", Class).effect = "set"
  BY EffectKinds
<1>3. f \notin Listing /\ e # Registers
  BY <1>2, EffectKinds DEF Listing
<1>4. ASSUME NEW i \in 1 .. 2, NEW j \in 1 .. 2, <<e, f>>[i] \in Listing, <<e, f>>[j] \in Listing PROVE i = j
  BY <1>1, <1>3, <1>4
<1>. QED  BY <1>1, <1>3, <1>4 DEF EffectsOk

LEMMA FourEffects ==
    ASSUME NEW f \in Defining, NEW g \in Defining, NEW e \in Defining \cup Pushing,
           f.property = Class, g.property = Class, e.property = Class
    PROVE  EffectsOk(<<Registers, f, g, e>>)
<1>. DEFINE s == <<Registers, f, g, e>>
<1>1. s \in Seq(AllEffects) /\ s # <<>> /\ Len(s) = 4 /\ s[1] = Registers /\ s[2] = f /\ s[3] = g /\ s[4] = e
  BY DEF AllEffects, Listing
<1>2. /\ f.effect = "define" /\ g.effect = "define" /\ e.effect \in {"define", "push"}
      /\ Registers.effect = "register" /\ Sets("inject", Class).effect = "set"
  BY EffectKinds
<1>3. f \notin Listing /\ g \notin Listing /\ Registers \notin Listing
  BY <1>2, EffectKinds DEF Listing
<1>4. f # Registers /\ g # Registers /\ e # Registers
  BY <1>2
<1>. HIDE DEF s
<1>5. ASSUME NEW i \in 1 .. 4, NEW j \in 1 .. 4, s[i] \in Listing, s[j] \in Listing PROVE i = j
  BY <1>1, <1>3, <1>5
<1>6. \A j \in 2 .. 4 : s[j] # Registers /\ s[j].property = Class
  BY <1>1, <1>4
<1>7. EffectsOk(s)
  BY <1>1, <1>5, <1>6 DEF EffectsOk
<1>. QED  BY <1>7 DEF s

LEMMA DefinesIs ==
    ASSUME NEW key \in DefinedKeys, NEW p \in Members, ~KeepsList(key, p)
    PROVE  Defines(key, p) \in Defining /\ Defines(key, p).property = p
BY DEF Defining, Defines

LEMMA PushesIs ==
    ASSUME NEW key \in CollectingKeys, NEW p \in Members, KeepsList(key, p)
    PROVE  Pushes(key, p) \in Pushing /\ Pushes(key, p).property = p
BY DEF Pushing, Pushes

LEMMA DecoratorsOk ==
    ASSUME NEW d \in Declaration
    PROVE  EffectsOk(Effects(d))
<1>0. Class \in Members /\ d.property \in Members
  BY DeclarationsAssumptions DEF Declaration
<1>1. d.decorator \in OnClass \cup OnEither \cup OnMethod /\ (d.decorator \in OnMethod => d.property # Class)
  BY DEF Declaration, OnClass, OnEither, OnMethod
<1>2. /\ Defines("constructable", Class) \in Defining /\ Defines("constructable", Class).property = Class
      /\ Defines("injectable", Class) \in Defining /\ Defines("injectable", Class).property = Class
  BY <1>0, DefinesIs DEF DefinedKeys, KeepsList, ListKeys, CollectingKeys
<1>3. ASSUME NEW key \in {"controller", "scheduler", "websocket", "repository", "injectable"}
      PROVE  EffectsOk(Constructable("injectable") \o <<Defines(key, Class)>>)
  <2>1. Defines(key, Class) \in Defining /\ Defines(key, Class).property = Class
    BY <1>0, DefinesIs DEF DefinedKeys, KeepsList, ListKeys, CollectingKeys
  <2>. QED  BY <1>2, <2>1, FourEffects, ConstructableSteps
<1>4. ASSUME NEW key \in {"injectable-scope", "injectable-token", "openapi-schema"} PROVE EffectsOk(<<Defines(key, Class)>>)
  <2>1. Defines(key, Class) \in Defining
    BY <1>0, DefinesIs DEF DefinedKeys, KeepsList, ListKeys, CollectingKeys
  <2>. QED  BY <2>1, OneEffect DEF AllEffects
<1>5. ASSUME NEW key \in {"timeout", "rate-limit", "use", "file-upload", "http-code", "secured"}
      PROVE  EffectsOk(<<Defines(key, d.property)>>)
  <2>1. Defines(key, d.property) \in Defining
    BY <1>0, DefinesIs DEF DefinedKeys, KeepsList, ListKeys, CollectingKeys
  <2>. QED  BY <2>1, OneEffect DEF AllEffects
<1>6. ASSUME NEW key \in {"parameter", "pipe", "openapi-response"} PROVE EffectsOk(<<Pushes(key, d.property)>>)
  <2>1. Pushes(key, d.property) \in Pushing
    BY <1>0, PushesIs DEF KeepsList, ListKeys, CollectingKeys
  <2>. QED  BY <2>1, OneEffect DEF AllEffects, Listing
<1>7. ASSUME NEW key \in {"step-method", "job", "openapi-property"} PROVE EffectsOk(<<Pushes(key, Class)>>)
  <2>1. Pushes(key, Class) \in Pushing
    BY <1>0, PushesIs DEF KeepsList, ListKeys, CollectingKeys
  <2>. QED  BY <2>1, OneEffect DEF AllEffects, Listing
<1>8. ASSUME NEW key \in {"route", "websocket-event"}, d.property # Class
      PROVE  EffectsOk(<<Pushes(key, Class), Defines(key, d.property)>>)
  <2>1. Pushes(key, Class) \in Pushing
    BY <1>0, PushesIs DEF KeepsList, ListKeys, CollectingKeys
  <2>2. Defines(key, d.property) \in Defining
    BY <1>0, <1>8, DefinesIs DEF DefinedKeys, KeepsList, ListKeys, CollectingKeys
  <2>. QED  BY <2>1, <2>2, TwoEffects
<1>9. EffectsOk(Constructable("injectable") \o <<Pushes("step-target", Class)>>)
  <2>1. Pushes("step-target", Class) \in Pushing /\ Pushes("step-target", Class).property = Class
    BY <1>0, PushesIs DEF KeepsList, ListKeys, CollectingKeys
  <2>. QED  BY <1>2, <2>1, FourEffects, ConstructableSteps
<1>10. EffectsOk(<<Sets("inject", Class)>>)
  BY OneEffect DEF AllEffects, Listing
<1>11. CASE d.decorator \in OnClass
  <2>1. CASE d.decorator \in {"Injectable", "Controller", "Scheduler", "WebSocket", "Repository"}
    BY <1>3, <2>1 DEF Effects, Injectable, Controller, Scheduler, WebSocket, Repository, Role
  <2>2. CASE d.decorator \in {"InjectableScope", "InjectableToken", "Inject", "StepTarget", "OpenApiSchema"}
    BY <1>4, <1>9, <1>10, <2>2 DEF Effects, InjectableScope, InjectableToken, InjectToken, StepTarget, OpenApiSchema
  <2>. QED  BY <1>11, <2>1, <2>2 DEF OnClass
<1>12. CASE d.decorator \in OnEither
  BY <1>5, <1>6, <1>12 DEF OnEither, Effects, Pipe, Timeout, RateLimit, Use, FileUpload, Secured, OnClassOrMethod
<1>13. CASE d.decorator \in OnMethod
  <2>1. CASE d.decorator \in {"Parameter", "StepMethod", "HttpCode", "Job"}
    BY <1>5, <1>6, <1>7, <2>1 DEF Effects, Parameter, StepMethod, HttpCode, Job, OnClassOrMethod
  <2>2. CASE d.decorator \in {"Method", "WebSocketEvent", "OpenApiProperty", "OpenApiResponse"}
    BY <1>1, <1>6, <1>7, <1>8, <1>13, <2>2 DEF Effects, Method, WebSocketEvent, OpenApiProperty, OpenApiResponse, OfMethod
  <2>. QED  BY <1>13, <2>1, <2>2 DEF OnMethod
<1>. QED  BY <1>1, <1>11, <1>12, <1>13

-----------------------------------------------------------------------------
(* The chain of classes, and what is read along it.                        *)

LEMMA ChainTypes ==
    ASSUME NEW c \in Classes
    PROVE  /\ Chain[c] \in Seq(Classes) /\ Len(Chain[c]) \in Nat \ {0} /\ DOMAIN Chain[c] = 1 .. Len(Chain[c])
           /\ Chain[c][1] = c /\ \A i \in 1 .. Len(Chain[c]) : Chain[c][i] \in Classes
<1>1. Chain[c] \in Seq(Classes) /\ Chain[c] # <<>> /\ Chain[c][1] = c
  BY DeclarationsAssumptions
<1>. QED  BY <1>1

LEMMA ChainOf ==
    ASSUME NEW c \in Classes, NEW k \in 1 .. Len(Chain[c])
    PROVE  /\ Chain[c][k] \in Classes /\ Len(Chain[Chain[c][k]]) = Len(Chain[c]) - k + 1
           /\ \A i \in 1 .. Len(Chain[c]) - k + 1 : Chain[Chain[c][k]][i] = Chain[c][k + i - 1]
<1>1. Chain[c] \in Seq(Classes) /\ Len(Chain[c]) \in Nat \ {0} /\ DOMAIN Chain[c] = 1 .. Len(Chain[c])
  BY ChainTypes
<1>2. PICK m \in Nat : m = Len(Chain[c])
  BY <1>1
<1>3. Chain[Chain[c][k]] = SubSeq(Chain[c], k, m)
  BY <1>1, <1>2, DeclarationsAssumptions
<1>4. \A i \in k .. m : Chain[c][i] \in Classes
  BY <1>1, <1>2
<1>5. k \in Int /\ m \in Int /\ k <= m
  BY <1>2
<1>6. /\ Len(SubSeq(Chain[c], k, m)) = IF k <= m THEN m - k + 1 ELSE 0
      /\ \A i \in 1 .. m - k + 1 : SubSeq(Chain[c], k, m)[i] = Chain[c][k + i - 1]
  BY <1>4, <1>5, SubSeqProperties
<1>. QED  BY <1>2, <1>3, <1>4, <1>5, <1>6

Extends(c, x) == \E i \in 1 .. Len(Chain[c]) : Chain[c][i] = x

\* What stands before a class in a chain extends it.
LEMMA BeforeInChain ==
    ASSUME NEW c \in Classes, NEW k \in 1 .. Len(Chain[c]), NEW j \in 1 .. k - 1
    PROVE  /\ Chain[c][j] \in Classes /\ Chain[c][j] # Chain[c][k]
           /\ Extends(Chain[c][j], Chain[c][k])
<1>1. Len(Chain[c]) \in Nat
  BY ChainTypes
<1>2. PICK y : y = Chain[c][j]
  OBVIOUS
<1>3. j \in 1 .. Len(Chain[c]) /\ k - j + 1 \in 1 .. Len(Chain[c]) - j + 1 /\ j + (k - j + 1) - 1 = k
  BY <1>1
<1>4. y \in Classes /\ Len(Chain[y]) = Len(Chain[c]) - j + 1 /\ Chain[y][k - j + 1] = Chain[c][k]
  BY <1>2, <1>3, ChainOf
<1>5. Len(Chain[Chain[c][k]]) = Len(Chain[c]) - k + 1
  BY ChainOf
<1>6. y # Chain[c][k]
  BY <1>1, <1>4, <1>5
<1>7. Extends(y, Chain[c][k])
  BY <1>3, <1>4 DEF Extends
<1>. QED  BY <1>2, <1>4, <1>6, <1>7

IsFirstOwner(s, key, c, p, i) ==
    HasOwn(s, key, Chain[c][i], p) /\ \A j \in 1 .. i - 1 : ~HasOwn(s, key, Chain[c][j], p)

LEMMA FirstOwner ==
    ASSUME NEW s, NEW key, NEW c \in Classes, NEW p, Has(s, key, c, p)
    PROVE  \E i \in 1 .. Len(Chain[c]) :
                IsFirstOwner(s, key, c, p, i) /\ Get(s, key, c, p) = Owned(s, key, Chain[c][i], p)
<1>1. Len(Chain[c]) \in Nat /\ DOMAIN Chain[c] = 1 .. Len(Chain[c])
  BY ChainTypes
<1>2. PICK T : T = Owners(s, key, c, p)
  OBVIOUS
<1>3. T # {} /\ T \in SUBSET Nat
  BY <1>1, <1>2 DEF Has, Owners
<1>. DEFINE i == CHOOSE i \in T : \A j \in T : i <= j
<1>4. i \in T /\ \A j \in T : i <= j
  BY <1>3, LeastExists
<1>5. Get(s, key, c, p) = Owned(s, key, Chain[c][i], p)
  BY <1>2 DEF Get, Owned
<1>. HIDE DEF i
<1>6. i \in 1 .. Len(Chain[c]) /\ HasOwn(s, key, Chain[c][i], p)
  BY <1>1, <1>2, <1>4 DEF Owners
<1>7. ASSUME NEW j \in 1 .. i - 1 PROVE ~HasOwn(s, key, Chain[c][j], p)
  <2>1. j \in 1 .. Len(Chain[c]) /\ ~(i <= j)
    BY <1>1, <1>6
  <2>. QED  BY <1>1, <1>2, <1>4, <2>1 DEF Owners
<1>. QED  BY <1>5, <1>6, <1>7 DEF IsFirstOwner

LEMMA OwnerIsFirst ==
    ASSUME NEW s, NEW key, NEW c \in Classes, NEW p, NEW i \in 1 .. Len(Chain[c]),
           IsFirstOwner(s, key, c, p, i)
    PROVE  Has(s, key, c, p) /\ Get(s, key, c, p) = Owned(s, key, Chain[c][i], p)
<1>1. Len(Chain[c]) \in Nat /\ DOMAIN Chain[c] = 1 .. Len(Chain[c])
  BY ChainTypes
<1>2. Has(s, key, c, p)
  BY <1>1 DEF Has, Owners, IsFirstOwner
<1>3. PICK k \in 1 .. Len(Chain[c]) :
        IsFirstOwner(s, key, c, p, k) /\ Get(s, key, c, p) = Owned(s, key, Chain[c][k], p)
  BY <1>2, FirstOwner
<1>4. k = i
  BY <1>1, <1>3 DEF IsFirstOwner
<1>. QED  BY <1>2, <1>3, <1>4

LEMMA HasIs ==
    ASSUME NEW s, NEW key, NEW c \in Classes, NEW p
    PROVE  Has(s, key, c, p) <=> \E i \in 1 .. Len(Chain[c]) : HasOwn(s, key, Chain[c][i], p)
BY ChainTypes DEF Has, Owners

\* What has not changed for the classes of a chain is read as before.
LEMMA ReadAsBefore ==
    ASSUME NEW s, NEW t, NEW key, NEW c \in Classes, NEW p,
           \A i \in 1 .. Len(Chain[c]) :
                /\ HasOwn(t, key, Chain[c][i], p) <=> HasOwn(s, key, Chain[c][i], p)
                /\ HasOwn(s, key, Chain[c][i], p) => Owned(t, key, Chain[c][i], p) = Owned(s, key, Chain[c][i], p)
    PROVE  /\ Has(t, key, c, p) <=> Has(s, key, c, p)
           /\ Has(s, key, c, p) => Get(t, key, c, p) = Get(s, key, c, p)
<1>1. Len(Chain[c]) \in Nat
  BY ChainTypes
<1>2. Has(t, key, c, p) <=> Has(s, key, c, p)
  BY HasIs
<1>3. ASSUME Has(s, key, c, p) PROVE Get(t, key, c, p) = Get(s, key, c, p)
  <2>1. PICK i \in 1 .. Len(Chain[c]) :
            IsFirstOwner(s, key, c, p, i) /\ Get(s, key, c, p) = Owned(s, key, Chain[c][i], p)
    BY <1>3, FirstOwner
  <2>2. Owned(t, key, Chain[c][i], p) = Get(s, key, c, p)
    BY <2>1 DEF IsFirstOwner
  <2>3. IsFirstOwner(t, key, c, p, i)
    BY <1>1, <2>1 DEF IsFirstOwner
  <2>. QED  BY <2>2, <2>3, OwnerIsFirst
<1>. QED  BY <1>2, <1>3

\* What no class before x has is read by all that extend x as by x.
NoneBefore(s, key, c, p, k) == \A j \in 1 .. k - 1 : ~HasOwn(s, key, Chain[c][j], p)

LEMMA ReadAsBase ==
    ASSUME NEW s, NEW key, NEW c \in Classes, NEW p, NEW k \in 1 .. Len(Chain[c]), NoneBefore(s, key, c, p, k)
    PROVE  /\ Has(s, key, c, p) <=> Has(s, key, Chain[c][k], p)
           /\ Has(s, key, c, p) => Get(s, key, c, p) = Get(s, key, Chain[c][k], p)
<1>0. PICK x \in Classes : x = Chain[c][k]
  BY ChainTypes
<1>1. Len(Chain[c]) \in Nat /\ Len(Chain[x]) = Len(Chain[c]) - k + 1
  BY <1>0, ChainTypes, ChainOf
<1>2. \A i \in 1 .. Len(Chain[x]) : Chain[x][i] = Chain[c][k + i - 1]
  BY <1>0, <1>1, ChainOf
<1>3. ASSUME Has(s, key, c, p)
      PROVE  Has(s, key, x, p) /\ Get(s, key, c, p) = Get(s, key, x, p)
  <2>1. PICK i \in 1 .. Len(Chain[c]) :
            IsFirstOwner(s, key, c, p, i) /\ Get(s, key, c, p) = Owned(s, key, Chain[c][i], p)
    BY <1>3, FirstOwner
  <2>2. ~(i < k)
    BY <1>1, <2>1 DEF IsFirstOwner, NoneBefore
  <2>3. PICK m \in 1 .. Len(Chain[x]) : m = i - k + 1
    BY <1>1, <2>2
  <2>4. Chain[x][m] = Chain[c][i]
    BY <1>1, <1>2, <2>3
  <2>5. ASSUME NEW j \in 1 .. m - 1 PROVE ~HasOwn(s, key, Chain[x][j], p)
    <3>1. j \in 1 .. Len(Chain[x]) /\ k + j - 1 \in 1 .. i - 1
      BY <1>1, <2>3
    <3>. QED  BY <1>2, <2>1, <3>1 DEF IsFirstOwner
  <2>6. IsFirstOwner(s, key, x, p, m)
    BY <2>1, <2>4, <2>5 DEF IsFirstOwner
  <2>7. Has(s, key, x, p) /\ Get(s, key, x, p) = Owned(s, key, Chain[x][m], p)
    BY <2>6, OwnerIsFirst
  <2>. QED  BY <2>1, <2>4, <2>7
<1>4. ASSUME Has(s, key, x, p) PROVE Has(s, key, c, p)
  <2>1. PICK i \in 1 .. Len(Chain[x]) : HasOwn(s, key, Chain[x][i], p)
    BY <1>4, HasIs
  <2>2. k + i - 1 \in 1 .. Len(Chain[c]) /\ HasOwn(s, key, Chain[c][k + i - 1], p)
    BY <1>1, <1>2, <2>1
  <2>. QED  BY <2>2, HasIs
<1>. QED  BY <1>0, <1>3, <1>4

-----------------------------------------------------------------------------
(* What an effect does to the store.                                       *)

Same(key, x, p, k, y, q) == k = key /\ y = x /\ q = p

\* t is s with the value for the class x.
IsDefined(s, t, key, x, p, value) ==
    /\ t = [lists |-> t.lists, metadata |-> t.metadata, registry |-> t.registry] /\ t.registry = s.registry
    /\ \A k, y, q : HasOwn(t, k, y, q) <=> HasOwn(s, k, y, q) \/ Same(key, x, p, k, y, q)
    /\ \A k, y, q : HasOwn(t, k, y, q) =>
        Owned(t, k, y, q) = IF Same(key, x, p, k, y, q) THEN value ELSE Owned(s, k, y, q)

LEMMA DefineIs ==
    ASSUME NEW s, NEW key, NEW x, NEW p, NEW value,
           s = [lists |-> s.lists, metadata |-> s.metadata, registry |-> s.registry]
    PROVE  IsDefined(s, Define(s, key, x, p, value), key, x, p, value) /\ Define(s, key, x, p, value).lists = s.lists
<1>. DEFINE t == Define(s, key, x, p, value)
            at == <<key, x, p>>
            m == [k \in DOMAIN s.metadata \cup {at} |-> IF k = at THEN value ELSE s.metadata[k]]
<1>1. t = [lists |-> s.lists, metadata |-> m, registry |-> s.registry]
  BY DEF Define
<1>2. ASSUME NEW k, NEW y, NEW q
      PROVE  /\ HasOwn(t, k, y, q) <=> HasOwn(s, k, y, q) \/ Same(key, x, p, k, y, q)
             /\ HasOwn(t, k, y, q) =>
                  Owned(t, k, y, q) = IF Same(key, x, p, k, y, q) THEN value ELSE Owned(s, k, y, q)
  BY <1>1 DEF HasOwn, Owned, Same
<1>. HIDE DEF m
<1>3. t.lists = s.lists /\ t.metadata = m /\ t.registry = s.registry
  BY <1>1
<1>. HIDE DEF t
<1>4. t = [lists |-> t.lists, metadata |-> t.metadata, registry |-> t.registry]
  BY <1>1, <1>3
<1>5. IsDefined(s, t, key, x, p, value)
  BY <1>2, <1>3, <1>4 DEF IsDefined
<1>. QED  BY <1>3, <1>5 DEF t

AsBefore(s, t, key, p) == \A c \in Classes : Linked(t, c, key, p) = Linked(s, c, key, p)

LEMMA LinkedAsBefore ==
    ASSUME NEW s, NEW t, NEW key, NEW p,
           \A c \in Classes :
                /\ HasOwn(t, key, c, p) <=> HasOwn(s, key, c, p)
                /\ HasOwn(s, key, c, p) => Owned(t, key, c, p) = Owned(s, key, c, p)
                                           /\ t.lists[Owned(s, key, c, p).list] = s.lists[Owned(s, key, c, p).list]
    PROVE  AsBefore(s, t, key, p)
<1>1. SUFFICES ASSUME NEW c \in Classes PROVE Linked(t, c, key, p) = Linked(s, c, key, p)
  BY DEF AsBefore
<1>2. \A i \in 1 .. Len(Chain[c]) : Chain[c][i] \in Classes
  BY ChainTypes
<1>3. /\ Has(t, key, c, p) <=> Has(s, key, c, p)
      /\ Has(s, key, c, p) => Get(t, key, c, p) = Get(s, key, c, p)
  BY <1>2, ReadAsBefore
<1>4. CASE Has(s, key, c, p)
  <2>1. PICK i \in 1 .. Len(Chain[c]) :
            IsFirstOwner(s, key, c, p, i) /\ Get(s, key, c, p) = Owned(s, key, Chain[c][i], p)
    BY <1>4, FirstOwner
  <2>2. Chain[c][i] \in Classes /\ HasOwn(s, key, Chain[c][i], p)
    BY <1>2, <2>1 DEF IsFirstOwner
  <2>3. t.lists[Get(s, key, c, p).list] = s.lists[Get(s, key, c, p).list]
    BY <2>1, <2>2
  <2>. QED  BY <1>3, <1>4, <2>3 DEF Linked
<1>. QED  BY <1>3, <1>4 DEF Linked

\* A value that is not a list changes no list.
LEMMA DefineStep ==
    ASSUME NEW s, NEW t, NEW T, NEW x, NEW key, NEW p, NEW value,
           StoreOk(s, T), ~KeepsList(key, p), t = Define(s, key, x, p, value)
    PROVE  /\ StoreOk(t, T) /\ t.registry = s.registry
           /\ \A k \in ListKeys, q \in Members : KeepsList(k, q) => AsBefore(s, t, k, q)
           /\ HasOwn(t, key, x, p) /\ \A k, y, q : HasOwn(s, k, y, q) => HasOwn(t, k, y, q)
<1>1. IsDefined(s, t, key, x, p, value) /\ t.lists = s.lists
  BY DefineIs DEF StoreOk
<1>2. ASSUME NEW k \in ListKeys, NEW q \in Members, KeepsList(k, q)
      PROVE  \A c \in Classes : /\ HasOwn(t, k, c, q) <=> HasOwn(s, k, c, q)
                                /\ HasOwn(s, k, c, q) => Owned(t, k, c, q) = Owned(s, k, c, q)
  BY <1>1, <1>2 DEF IsDefined, Same
<1>3. StoreOk(t, T)
  <2>1. t = [lists |-> t.lists, metadata |-> t.metadata, registry |-> t.registry] /\ t.registry = s.registry
    BY <1>1 DEF IsDefined
  <2>2. ASSUME NEW k \in ListKeys, NEW q \in Members, NEW c \in Classes, KeepsList(k, q), HasOwn(t, k, c, q)
        PROVE  c \in T /\ \E n \in 1 .. Len(t.lists) : Owned(t, k, c, q) = Reference(n)
    BY <1>1, <1>2, <2>2 DEF StoreOk
  <2>3. ASSUME NEW k \in ListKeys, NEW k2 \in ListKeys, NEW q \in Members, NEW q2 \in Members,
               NEW c \in Classes, NEW d \in Classes,
               KeepsList(k, q), HasOwn(t, k, c, q), KeepsList(k2, q2), HasOwn(t, k2, d, q2),
               Owned(t, k, c, q) = Owned(t, k2, d, q2)
        PROVE  k = k2 /\ q = q2
    <3>1. HasOwn(s, k, c, q) /\ HasOwn(s, k2, d, q2) /\ Owned(s, k, c, q) = Owned(s, k2, d, q2)
      BY <1>2, <2>3
    <3>. QED  BY <2>3, <3>1 DEF StoreOk
  <2>. QED  BY <1>1, <2>1, <2>2, <2>3 DEF StoreOk
<1>4. ASSUME NEW k \in ListKeys, NEW q \in Members, KeepsList(k, q) PROVE AsBefore(s, t, k, q)
  BY <1>1, <1>2, <1>4, LinkedAsBefore
<1>5. HasOwn(t, key, x, p) /\ \A k, y, q : HasOwn(s, k, y, q) => HasOwn(t, k, y, q)
  BY <1>1 DEF IsDefined, Same
<1>6. t.registry = s.registry
  BY <1>1 DEF IsDefined
<1>. QED  BY <1>3, <1>4, <1>5, <1>6

\* So does the registry.
LEMMA RegisterStep ==
    ASSUME NEW s, NEW t, NEW T, NEW registry \in Seq(Classes), StoreOk(s, T),
           t = [lists |-> s.lists, metadata |-> s.metadata, registry |-> registry]
    PROVE  /\ StoreOk(t, T) /\ t.registry = registry /\ t.lists = s.lists /\ t.metadata = s.metadata
           /\ \A k \in ListKeys, q \in Members : KeepsList(k, q) => AsBefore(s, t, k, q)
           /\ \A k, y, q : HasOwn(s, k, y, q) => HasOwn(t, k, y, q)
<1>2. t.registry = registry /\ t.lists = s.lists /\ t.metadata = s.metadata
  OBVIOUS
<1>3. t = [lists |-> t.lists, metadata |-> t.metadata, registry |-> t.registry]
  BY <1>2
<1>4. \A k, c, q : (HasOwn(t, k, c, q) <=> HasOwn(s, k, c, q)) /\ Owned(t, k, c, q) = Owned(s, k, c, q)
  BY <1>2 DEF HasOwn, Owned
<1>5. StoreOk(t, T)
  BY <1>2, <1>3, <1>4 DEF StoreOk
<1>6. ASSUME NEW k, NEW q PROVE AsBefore(s, t, k, q)
  BY <1>2, <1>4, LinkedAsBefore
<1>. QED  BY <1>2, <1>4, <1>5, <1>6

\* The store with the list of the chain, or a new one, replaced.
IsListSet(s, u, n, key, x, p, list) ==
    /\ u = [lists |-> u.lists, metadata |-> s.metadata, registry |-> s.registry]
    /\ u.lists \in Seq(Seq(DeclarationEntries)) /\ Len(s.lists) <= Len(u.lists)
    /\ n \in 1 .. Len(u.lists) /\ u.lists[n] = list
    /\ \A j \in 1 .. Len(u.lists) : j # n => j <= Len(s.lists) /\ u.lists[j] = s.lists[j]
    /\ \A k \in ListKeys, q \in Members, c \in Classes :
        KeepsList(k, q) /\ HasOwn(s, k, c, q) /\ Owned(s, k, c, q) = Reference(n) => k = key /\ q = p
    /\ IF Has(s, key, x, p)
       THEN n <= Len(s.lists) /\ Get(s, key, x, p) = Reference(n) /\ Listed(s, key, x, p) = s.lists[n]
       ELSE n > Len(s.lists) /\ Listed(s, key, x, p) = <<>>

LEMMA PushSets ==
    ASSUME NEW s, NEW T, StoreOk(s, T), NEW key \in ListKeys, NEW x \in Classes, NEW p \in Members, KeepsList(key, p),
           NEW list \in Seq(DeclarationEntries)
    PROVE  \E u, n : /\ IsListSet(s, u, n, key, x, p, list)
                     /\ Push(s, key, x, p, list) = Define(u, key, x, p, Reference(n))
<1>. DEFINE n == SharedList(s, key, x, p)
            w == WithList(s, key, x, p)
            u == [w EXCEPT !.lists[n] = list]
<1>1. PICK m \in Nat : m = Len(s.lists)
  BY DEF StoreOk
<1>2. s.lists \in Seq(Seq(DeclarationEntries)) /\ s = [lists |-> s.lists, metadata |-> s.metadata, registry |-> s.registry]
  BY DEF StoreOk
<1>3. Push(s, key, x, p, list) = Define(u, key, x, p, Reference(n))
  BY DEF Push
<1>4. CASE Has(s, key, x, p)
  <2>1. PICK i \in 1 .. Len(Chain[x]) :
            IsFirstOwner(s, key, x, p, i) /\ Get(s, key, x, p) = Owned(s, key, Chain[x][i], p)
    BY <1>4, FirstOwner
  <2>2. Chain[x][i] \in Classes /\ HasOwn(s, key, Chain[x][i], p)
    BY <2>1, ChainTypes DEF IsFirstOwner
  <2>3. PICK o \in 1 .. m : Owned(s, key, Chain[x][i], p) = Reference(o)
    BY <1>1, <2>2 DEF StoreOk
  <2>4. n = o /\ Get(s, key, x, p) = Reference(n)
    BY <1>4, <2>1, <2>3 DEF SharedList, Reference
  <2>5. w = s
    BY <1>1, <2>3, <2>4 DEF WithList
  <2>6. Listed(s, key, x, p) = s.lists[n]
    BY <2>5 DEF Listed
  <2>. HIDE DEF n, w
  <2>7. u = [lists |-> [s.lists EXCEPT ![n] = list], metadata |-> s.metadata, registry |-> s.registry]
    <3>1. w = [lists |-> s.lists, metadata |-> s.metadata, registry |-> s.registry]
      BY <1>2, <2>5
    <3>2. w.lists = s.lists /\ w.metadata = s.metadata /\ w.registry = s.registry /\ DOMAIN w = {"lists", "metadata", "registry"}
      BY <3>1
    <3>3. PICK l : l = [s.lists EXCEPT ![n] = list]
      OBVIOUS
    <3>4. u = [w EXCEPT !.lists = l]
      BY <3>2, <3>3
    <3>5. [w EXCEPT !.lists = l] = [lists |-> l, metadata |-> s.metadata, registry |-> s.registry]
      BY <3>2
    <3>. QED  BY <3>3, <3>4, <3>5
  <2>8. u.lists = [s.lists EXCEPT ![n] = list]
    BY <2>7
  <2>. HIDE DEF u
  <2>9. /\ u.lists \in Seq(Seq(DeclarationEntries)) /\ Len(u.lists) = m /\ u.lists[n] = list
        /\ \A j \in 1 .. m : j # n => u.lists[j] = s.lists[j]
    BY <1>1, <1>2, <2>3, <2>4, <2>8, ExceptSeq
  <2>10. \A k \in ListKeys, q \in Members, c \in Classes :
            KeepsList(k, q) /\ HasOwn(s, k, c, q) /\ Owned(s, k, c, q) = Reference(n) => k = key /\ q = p
    BY <2>2, <2>3, <2>4 DEF StoreOk
  <2>11. IsListSet(s, u, n, key, x, p, list)
    BY <1>1, <1>4, <2>3, <2>4, <2>6, <2>7, <2>8, <2>9, <2>10 DEF IsListSet
  <2>. QED  BY <1>3, <2>11
<1>5. CASE ~Has(s, key, x, p)
  <2>1. n = m + 1
    BY <1>1, <1>5 DEF SharedList
  <2>2. w = [s EXCEPT !.lists = Append(@, <<>>)]
    BY <1>1, <2>1 DEF WithList
  <2>3. w = [lists |-> Append(s.lists, <<>>), metadata |-> s.metadata, registry |-> s.registry]
    BY <1>2, <2>2
  <2>4. PICK a : a = Append(s.lists, <<>>)
    OBVIOUS
  <2>5. /\ a \in Seq(Seq(DeclarationEntries)) /\ Len(a) = m + 1 /\ a[m + 1] = <<>>
        /\ \A j \in 1 .. m : a[j] = s.lists[j]
    <3>1. <<>> \in Seq(DeclarationEntries)
      OBVIOUS
    <3>. QED  BY <1>1, <1>2, <2>4, <3>1, AppendProperties
  <2>6. Listed(s, key, x, p) = <<>>
    BY <2>1, <2>3, <2>4, <2>5 DEF Listed
  <2>. HIDE DEF n, w
  <2>7. u = [lists |-> [a EXCEPT ![n] = list], metadata |-> s.metadata, registry |-> s.registry]
    <3>1. w = [lists |-> a, metadata |-> s.metadata, registry |-> s.registry]
      BY <2>3, <2>4
    <3>2. w.lists = a /\ w.metadata = s.metadata /\ w.registry = s.registry /\ DOMAIN w = {"lists", "metadata", "registry"}
      BY <3>1
    <3>3. PICK l : l = [a EXCEPT ![n] = list]
      OBVIOUS
    <3>4. u = [w EXCEPT !.lists = l]
      BY <3>2, <3>3
    <3>5. [w EXCEPT !.lists = l] = [lists |-> l, metadata |-> s.metadata, registry |-> s.registry]
      BY <3>2
    <3>. QED  BY <3>3, <3>4, <3>5
  <2>8. u.lists = [a EXCEPT ![n] = list]
    BY <2>7
  <2>. HIDE DEF u
  <2>9. /\ u.lists \in Seq(Seq(DeclarationEntries)) /\ Len(u.lists) = m + 1 /\ u.lists[n] = list
        /\ \A j \in 1 .. m : u.lists[j] = s.lists[j]
    BY <2>1, <2>5, <2>8, ExceptSeq
  <2>10. ASSUME NEW k \in ListKeys, NEW q \in Members, NEW c \in Classes, KeepsList(k, q), HasOwn(s, k, c, q),
                Owned(s, k, c, q) = Reference(n)
         PROVE  FALSE
    <3>1. PICK o \in 1 .. m : Owned(s, k, c, q) = Reference(o)
      BY <1>1, <2>10 DEF StoreOk
    <3>. QED  BY <2>1, <2>10, <3>1 DEF Reference
  <2>11. n \in 1 .. Len(u.lists) /\ m <= Len(u.lists) /\ \A j \in 1 .. Len(u.lists) : j # n => j \in 1 .. m
    BY <2>1, <2>9
  <2>12. n > m /\ \A j \in 1 .. Len(u.lists) : j # n => u.lists[j] = s.lists[j]
    BY <2>1, <2>9, <2>11
  <2>13. u = [lists |-> u.lists, metadata |-> s.metadata, registry |-> s.registry]
    BY <2>7, <2>8
  <2>14. \A j \in 1 .. Len(u.lists) : j # n => j <= Len(s.lists)
    BY <1>1, <2>11
  <2>15. \A k \in ListKeys, q \in Members, c \in Classes :
            KeepsList(k, q) /\ HasOwn(s, k, c, q) /\ Owned(s, k, c, q) = Reference(n) => k = key /\ q = p
    BY <2>10
  <2>16. IsListSet(s, u, n, key, x, p, list)
    BY <1>1, <1>5, <2>6, <2>9, <2>11, <2>12, <2>13, <2>14, <2>15 DEF IsListSet
  <2>. QED  BY <1>3, <2>16
<1>. QED  BY <1>4, <1>5

\* x is the last class that was taken up.
IsLatest(x, T) == x \in T /\ \A c \in T : c \in Classes /\ Extends(c, x) => c = x

\* What x pushes to is read as its list was by the classes that extend it, and
\* by the others that have the list from the same class; by no other.
Reread(s, t, x, key, p, list) ==
    \A c \in Classes :
        \/ Linked(s, c, key, p) = OfClass(Listed(s, key, x, p), c) /\ Linked(t, c, key, p) = OfClass(list, c)
        \/ ~Extends(c, x) /\ Linked(t, c, key, p) = Linked(s, c, key, p)

LEMMA PushStep ==
    ASSUME NEW s, NEW t, NEW T, StoreOk(s, T), NEW key \in ListKeys, NEW x \in Classes, NEW p \in Members,
           KeepsList(key, p), IsLatest(x, T),
           NEW list \in Seq(DeclarationEntries), \A i \in 1 .. Len(list) : list[i].class \in T,
           t = Push(s, key, x, p, list)
    PROVE  /\ StoreOk(t, T) /\ t.registry = s.registry
           /\ \A k \in ListKeys, q \in Members : KeepsList(k, q) /\ ~(k = key /\ q = p) => AsBefore(s, t, k, q)
           /\ Reread(s, t, x, key, p, list)
           /\ HasOwn(t, key, x, p) /\ \A k, y, q : HasOwn(s, k, y, q) => HasOwn(t, k, y, q)
<1>1. PICK u, n : IsListSet(s, u, n, key, x, p, list) /\ t = Define(u, key, x, p, Reference(n))
  BY PushSets
<1>2. u.metadata = s.metadata /\ u.registry = s.registry /\ u = [lists |-> u.lists, metadata |-> u.metadata, registry |-> u.registry]
  BY <1>1 DEF IsListSet
<1>3. IsDefined(u, t, key, x, p, Reference(n)) /\ t.lists = u.lists
  BY <1>1, <1>2, DefineIs
<1>4. \A k, y, q : (HasOwn(u, k, y, q) <=> HasOwn(s, k, y, q)) /\ Owned(u, k, y, q) = Owned(s, k, y, q)
  BY <1>2 DEF HasOwn, Owned
<1>5. /\ \A k, y, q : HasOwn(t, k, y, q) <=> HasOwn(s, k, y, q) \/ Same(key, x, p, k, y, q)
      /\ \A k, y, q : HasOwn(t, k, y, q) =>
            Owned(t, k, y, q) = IF Same(key, x, p, k, y, q) THEN Reference(n) ELSE Owned(s, k, y, q)
  BY <1>3, <1>4 DEF IsDefined
<1>6. /\ n \in 1 .. Len(t.lists) /\ t.lists[n] = list /\ Len(s.lists) <= Len(t.lists) /\ Len(s.lists) \in Nat
      /\ \A j \in 1 .. Len(t.lists) : j # n => j <= Len(s.lists) /\ t.lists[j] = s.lists[j]
      /\ t.lists \in Seq(Seq(DeclarationEntries)) /\ Len(t.lists) \in Nat
  BY <1>1, <1>3 DEF IsListSet, StoreOk
<1>7. \A k \in ListKeys, q \in Members, c \in Classes :
         KeepsList(k, q) /\ HasOwn(s, k, c, q) /\ Owned(s, k, c, q) = Reference(n) => k = key /\ q = p
  BY <1>1 DEF IsListSet
<1>8. StoreOk(t, T)
  <2>1. /\ t = [lists |-> t.lists, metadata |-> t.metadata, registry |-> t.registry]
        /\ t.registry \in Seq(Classes) /\ t.lists \in Seq(Seq(DeclarationEntries))
    BY <1>2, <1>3, <1>6 DEF IsDefined, StoreOk
  <2>2. ASSUME NEW k \in ListKeys, NEW q \in Members, NEW c \in Classes, KeepsList(k, q), HasOwn(t, k, c, q)
        PROVE  c \in T /\ \E o \in 1 .. Len(t.lists) : Owned(t, k, c, q) = Reference(o)
    <3>1. CASE Same(key, x, p, k, c, q)
      BY <1>5, <1>6, <2>2, <3>1 DEF Same, IsLatest
    <3>2. CASE ~Same(key, x, p, k, c, q)
      <4>1. HasOwn(s, k, c, q) /\ Owned(t, k, c, q) = Owned(s, k, c, q)
        BY <1>5, <2>2, <3>2
      <4>2. c \in T /\ \E o \in 1 .. Len(s.lists) : Owned(s, k, c, q) = Reference(o)
        BY <2>2, <4>1 DEF StoreOk
      <4>. QED  BY <1>6, <4>1, <4>2
    <3>. QED  BY <3>1, <3>2
  <2>3. ASSUME NEW k \in ListKeys, NEW k2 \in ListKeys, NEW q \in Members, NEW q2 \in Members,
               NEW c \in Classes, NEW d \in Classes,
               KeepsList(k, q), HasOwn(t, k, c, q), KeepsList(k2, q2), HasOwn(t, k2, d, q2),
               Owned(t, k, c, q) = Owned(t, k2, d, q2)
        PROVE  k = k2 /\ q = q2
    <3>1. CASE Same(key, x, p, k, c, q)
      <4>1. k = key /\ q = p /\ Owned(t, k2, d, q2) = Reference(n)
        BY <1>5, <2>3, <3>1 DEF Same
      <4>2. Same(key, x, p, k2, d, q2) \/ (HasOwn(s, k2, d, q2) /\ Owned(s, k2, d, q2) = Reference(n))
        BY <1>5, <2>3, <4>1
      <4>. QED  BY <1>7, <2>3, <4>1, <4>2 DEF Same
    <3>2. CASE Same(key, x, p, k2, d, q2)
      <4>1. k2 = key /\ q2 = p /\ Owned(t, k, c, q) = Reference(n)
        BY <1>5, <2>3, <3>2 DEF Same
      <4>2. Same(key, x, p, k, c, q) \/ (HasOwn(s, k, c, q) /\ Owned(s, k, c, q) = Reference(n))
        BY <1>5, <2>3, <4>1
      <4>. QED  BY <1>7, <2>3, <4>1, <4>2 DEF Same
    <3>3. CASE ~Same(key, x, p, k, c, q) /\ ~Same(key, x, p, k2, d, q2)
      <4>1. HasOwn(s, k, c, q) /\ HasOwn(s, k2, d, q2) /\ Owned(s, k, c, q) = Owned(s, k2, d, q2)
        BY <1>5, <2>3, <3>3
      <4>. QED  BY <2>3, <4>1 DEF StoreOk
    <3>. QED  BY <3>1, <3>2, <3>3
  <2>4. ASSUME NEW o \in 1 .. Len(t.lists), NEW i \in 1 .. Len(t.lists[o]) PROVE t.lists[o][i].class \in T
    <3>1. CASE o = n
      BY <1>6, <3>1
    <3>2. CASE o # n
      <4>1. o \in 1 .. Len(s.lists) /\ t.lists[o] = s.lists[o]
        BY <1>6, <3>2
      <4>. QED  BY <4>1 DEF StoreOk
    <3>. QED  BY <3>1, <3>2
  <2>. QED  BY <2>1, <2>2, <2>3, <2>4 DEF StoreOk
<1>9. ASSUME NEW k \in ListKeys, NEW q \in Members, KeepsList(k, q), ~(k = key /\ q = p) PROVE AsBefore(s, t, k, q)
  <2>1. ASSUME NEW c \in Classes
        PROVE  /\ HasOwn(t, k, c, q) <=> HasOwn(s, k, c, q)
               /\ HasOwn(s, k, c, q) => Owned(t, k, c, q) = Owned(s, k, c, q)
    BY <1>5, <1>9 DEF Same
  <2>2. ASSUME NEW c \in Classes, HasOwn(s, k, c, q)
        PROVE  t.lists[Owned(s, k, c, q).list] = s.lists[Owned(s, k, c, q).list]
    <3>1. PICK o \in 1 .. Len(s.lists) : Owned(s, k, c, q) = Reference(o)
      BY <1>9, <2>2 DEF StoreOk
    <3>2. o # n
      BY <1>7, <1>9, <2>2, <3>1
    <3>3. Owned(s, k, c, q).list = o
      BY <3>1 DEF Reference
    <3>4. o \in 1 .. Len(t.lists)
      BY <1>6
    <3>. QED  BY <1>6, <3>2, <3>3, <3>4
  <2>. QED  BY <2>1, <2>2, LinkedAsBefore
<1>10. ASSUME NEW c \in Classes, Extends(c, x)
       PROVE  Linked(s, c, key, p) = OfClass(Listed(s, key, x, p), c) /\ Linked(t, c, key, p) = OfClass(list, c)
  <2>1. PICK i \in 1 .. Len(Chain[c]) : Chain[c][i] = x
    BY <1>10 DEF Extends
  <2>2. ASSUME NEW j \in 1 .. i - 1 PROVE ~HasOwn(s, key, Chain[c][j], p) /\ Chain[c][j] # x
    <3>1. Chain[c][j] \in Classes /\ Chain[c][j] # x /\ Extends(Chain[c][j], x)
      BY <2>1, BeforeInChain
    <3>2. Chain[c][j] \notin T
      BY <3>1 DEF IsLatest
    <3>. QED  BY <3>1, <3>2 DEF StoreOk
  <2>3. IsFirstOwner(t, key, c, p, i)
    BY <1>5, <2>1, <2>2 DEF IsFirstOwner, Same
  <2>4. Has(t, key, c, p) /\ Get(t, key, c, p) = Owned(t, key, x, p)
    BY <2>1, <2>3, OwnerIsFirst
  <2>5. Owned(t, key, x, p) = Reference(n)
    BY <1>5 DEF Same
  <2>6. Linked(t, c, key, p) = OfClass(list, c)
    BY <1>6, <2>4, <2>5 DEF Linked, Reference
  <2>7. /\ Has(s, key, c, p) <=> Has(s, key, x, p)
        /\ Has(s, key, c, p) => Get(s, key, c, p) = Get(s, key, x, p)
    <3>1. NoneBefore(s, key, c, p, i)
      BY <2>2 DEF NoneBefore
    <3>. QED  BY <2>1, <3>1, ReadAsBase
  <2>8. Linked(s, c, key, p) = OfClass(Listed(s, key, x, p), c)
    <3>1. CASE Has(s, key, x, p)
      <4>1. Get(s, key, x, p) = Reference(n) /\ Listed(s, key, x, p) = s.lists[n]
        BY <1>1, <3>1 DEF IsListSet
      <4>2. Get(s, key, c, p).list = n
        BY <2>7, <3>1, <4>1 DEF Reference
      <4>. QED  BY <2>7, <3>1, <4>1, <4>2 DEF Linked
    <3>2. CASE ~Has(s, key, x, p)
      <4>1. Listed(s, key, x, p) = <<>>
        BY <1>1, <3>2 DEF IsListSet
      <4>2. OfClass(<<>>, c) = <<>>
        BY SelectEmpty DEF OfClass
      <4>. QED  BY <2>7, <3>2, <4>1, <4>2 DEF Linked
    <3>. QED  BY <3>1, <3>2
  <2>. QED  BY <2>6, <2>8
<1>11. ASSUME NEW c \in Classes, ~Extends(c, x)
       PROVE  \/ Linked(t, c, key, p) = Linked(s, c, key, p)
              \/ Linked(s, c, key, p) = OfClass(Listed(s, key, x, p), c) /\ Linked(t, c, key, p) = OfClass(list, c)
  <2>1. \A i \in 1 .. Len(Chain[c]) : /\ HasOwn(t, key, Chain[c][i], p) <=> HasOwn(s, key, Chain[c][i], p)
                                      /\ HasOwn(s, key, Chain[c][i], p) => Owned(t, key, Chain[c][i], p) = Owned(s, key, Chain[c][i], p)
    BY <1>5, <1>11 DEF Same, Extends
  <2>2. /\ Has(t, key, c, p) <=> Has(s, key, c, p)
        /\ Has(s, key, c, p) => Get(t, key, c, p) = Get(s, key, c, p)
    BY <2>1, ReadAsBefore
  <2>3. CASE ~Has(s, key, c, p)
    BY <2>2, <2>3 DEF Linked
  <2>4. CASE Has(s, key, c, p)
    <3>1. PICK i \in 1 .. Len(Chain[c]) :
            IsFirstOwner(s, key, c, p, i) /\ Get(s, key, c, p) = Owned(s, key, Chain[c][i], p)
      BY <2>4, FirstOwner
    <3>2. Chain[c][i] \in Classes /\ HasOwn(s, key, Chain[c][i], p)
      BY <3>1, ChainTypes DEF IsFirstOwner
    <3>3. PICK o \in 1 .. Len(s.lists) : Get(s, key, c, p) = Reference(o)
      BY <3>1, <3>2 DEF StoreOk
    <3>4. Get(s, key, c, p).list = o
      BY <3>3 DEF Reference
    <3>5. CASE o # n
      <4>1. o \in 1 .. Len(t.lists)
        BY <1>6
      <4>2. t.lists[o] = s.lists[o]
        BY <1>6, <3>5, <4>1
      <4>. QED  BY <2>2, <2>4, <3>4, <4>2 DEF Linked
    <3>6. CASE o = n
      <4>1. Has(s, key, x, p) /\ Listed(s, key, x, p) = s.lists[n]
        BY <1>1, <1>6, <3>6 DEF IsListSet
      <4>. QED  BY <1>6, <2>2, <2>4, <3>4, <3>6, <4>1 DEF Linked
    <3>. QED  BY <3>5, <3>6
  <2>. QED  BY <2>3, <2>4
<1>12. Reread(s, t, x, key, p, list)
  BY <1>10, <1>11 DEF Reread
<1>13. HasOwn(t, key, x, p) /\ \A k, y, q : HasOwn(s, k, y, q) => HasOwn(t, k, y, q)
  BY <1>5 DEF Same
<1>14. t.registry = s.registry
  BY <1>2, <1>3 DEF IsDefined
<1>. QED  BY <1>8, <1>9, <1>12, <1>13, <1>14

LEMMA OfClassAppend ==
    ASSUME NEW list \in Seq(DeclarationEntries), NEW e \in DeclarationEntries, NEW c \in Classes
    PROVE  OfClass(Append(list, e), c) =
               IF Extends(c, e.class) THEN Append(OfClass(list, c), e) ELSE OfClass(list, c)
<1>. DEFINE I == {i \in DOMAIN Append(list, e) : IsOf(c, Append(list, e)[i])}
            J == {i \in DOMAIN list : IsOf(c, list[i])}
<1>1. PICK n \in Nat : n = Len(list) /\ DOMAIN list = 1 .. n
  OBVIOUS
<1>2. /\ DOMAIN Append(list, e) = 1 .. n + 1 /\ Append(list, e)[n + 1] = e
      /\ \A i \in 1 .. n : Append(list, e)[i] = list[i]
  BY <1>1
<1>3. IsOf(c, e) <=> Extends(c, e.class)
  BY ChainTypes DEF IsOf, Extends
<1>4. \A i \in 1 .. n : i \in I <=> i \in J
  BY <1>1, <1>2
<1>5. n + 1 \in I <=> Extends(c, e.class)
  BY <1>2, <1>3
<1>. HIDE DEF I, J
<1>6. Select(Append(list, e), I) = IF n + 1 \in I THEN Append(Select(list, J), e) ELSE Select(list, J)
  BY <1>1, <1>4, SelectAppend
<1>. QED  BY <1>5, <1>6 DEF I, J, OfClass

LEMMA ListedOk ==
    ASSUME NEW s, NEW T, StoreOk(s, T), NEW key \in ListKeys, NEW x \in Classes, NEW p \in Members, KeepsList(key, p)
    PROVE  /\ Listed(s, key, x, p) \in Seq(DeclarationEntries)
           /\ \A i \in 1 .. Len(Listed(s, key, x, p)) : Listed(s, key, x, p)[i].class \in T
<1>1. PICK none \in Seq(DeclarationEntries) : none = <<>>
  <2>1. <<>> \in Seq(DeclarationEntries)
    OBVIOUS
  <2>. QED  BY <2>1
<1>2. PICK u, n : IsListSet(s, u, n, key, x, p, none)
  BY PushSets
<1>3. PICK l : l = Listed(s, key, x, p)
  OBVIOUS
<1>4. l = <<>> \/ (n \in 1 .. Len(s.lists) /\ l = s.lists[n])
  <2>1. n \in Nat \ {0} /\ Len(s.lists) \in Nat
    BY <1>2 DEF IsListSet, StoreOk
  <2>. QED  BY <1>2, <1>3, <2>1 DEF IsListSet
<1>5. l \in Seq(DeclarationEntries) /\ \A i \in 1 .. Len(l) : l[i].class \in T
  <2>1. CASE l = <<>>
    BY <1>1, <2>1
  <2>2. CASE n \in 1 .. Len(s.lists) /\ l = s.lists[n]
    BY <2>2 DEF StoreOk
  <2>. QED  BY <1>4, <2>1, <2>2
<1>. QED  BY <1>3, <1>5

LEMMA RegisteredIs ==
    ASSUME NEW s, NEW x \in Classes, s.registry \in Seq(Classes), NamesDiffer(s.registry)
    PROVE  \E r \in Seq(Classes) :
                /\ Registered(s, x) = [s EXCEPT !.registry = r] /\ NamesDiffer(r) /\ IsAmong(x, r)
                /\ \A y \in Classes : IsUnique(y) /\ IsAmong(y, s.registry) => IsAmong(y, r)
<1>1. PICK q \in Seq(Classes), n \in Nat : q = s.registry /\ n = Len(q) /\ DOMAIN q = 1 .. n
  OBVIOUS
<1>2. CASE \E i \in 1 .. n : SameName(q[i], x)
  <2>. DEFINE r == [i \in 1 .. n |-> IF SameName(q[i], x) THEN x ELSE q[i]]
  <2>1. r \in Seq(Classes) /\ Len(r) = n /\ \A i \in 1 .. n : r[i] = IF SameName(q[i], x) THEN x ELSE q[i]
    BY <1>1
  <2>2. Registered(s, x) = [s EXCEPT !.registry = r]
    BY <1>1, <1>2 DEF Registered
  <2>. HIDE DEF r
  <2>3. IsAmong(x, r)
    BY <1>2, <2>1 DEF IsAmong
  <2>4. ASSUME NEW i \in 1 .. n, NEW j \in 1 .. n, SameName(r[i], r[j]) PROVE i = j
    <3>1. SameName(q[i], q[j])
      BY <2>1, <2>4 DEF SameName
    <3>. QED  BY <1>1, <3>1 DEF NamesDiffer
  <2>5. ASSUME NEW y \in Classes, IsUnique(y), NEW i \in 1 .. n, q[i] = y PROVE r[i] = y
    <3>1. x = y \/ ~SameName(y, x)
      BY <2>5 DEF IsUnique
    <3>. QED  BY <2>1, <2>5, <3>1 DEF SameName
  <2>6. NamesDiffer(r)
    BY <2>1, <2>4 DEF NamesDiffer
  <2>7. ASSUME NEW y \in Classes, IsUnique(y), IsAmong(y, q) PROVE IsAmong(y, r)
    BY <1>1, <2>1, <2>5, <2>7 DEF IsAmong
  <2>. QED  BY <1>1, <2>1, <2>2, <2>3, <2>6, <2>7
<1>3. CASE ~\E i \in 1 .. n : SameName(q[i], x)
  <2>1. PICK r : r = Append(q, x)
    OBVIOUS
  <2>2. r \in Seq(Classes) /\ Len(r) = n + 1 /\ r[n + 1] = x /\ \A i \in 1 .. n : r[i] = q[i]
    BY <1>1, <2>1
  <2>3. Registered(s, x) = [s EXCEPT !.registry = r]
    BY <1>1, <1>3, <2>1 DEF Registered
  <2>4. IsAmong(x, r)
    BY <2>2 DEF IsAmong
  <2>5. ASSUME NEW i \in 1 .. n + 1, NEW j \in 1 .. n + 1, SameName(r[i], r[j]) PROVE i = j
    <3>1. CASE i \in 1 .. n /\ j \in 1 .. n
      BY <1>1, <2>2, <2>5, <3>1 DEF NamesDiffer
    <3>2. CASE i = n + 1 /\ j \in 1 .. n
      BY <1>3, <2>2, <2>5, <3>2 DEF SameName
    <3>3. CASE j = n + 1 /\ i \in 1 .. n
      BY <1>3, <2>2, <2>5, <3>3 DEF SameName
    <3>. QED  BY <3>1, <3>2, <3>3
  <2>6. ASSUME NEW y \in Classes, IsAmong(y, q) PROVE IsAmong(y, r)
    BY <1>1, <2>2, <2>6 DEF IsAmong
  <2>. QED  BY <1>1, <2>2, <2>3, <2>4, <2>5, <2>6 DEF NamesDiffer
<1>. QED  BY <1>2, <1>3

\* What is found after an effect.
Finds(s, t, x, d, pushes) ==
    \A k \in CollectingKeys, q \in Members, c \in Classes : KeepsList(k, q) =>
        Linked(t, c, k, q) =
            IF Pushes(k, q) \in pushes /\ Extends(c, x) THEN Append(Linked(s, c, k, q), Entry(x, d)) ELSE Linked(s, c, k, q)
Keeps(s, t) ==
    /\ NamesDiffer(t.registry)
    /\ \A k, y, q : HasOwn(s, k, y, q) => HasOwn(t, k, y, q)
    /\ \A y \in Classes : IsUnique(y) /\ IsAmong(y, s.registry) => IsAmong(y, t.registry)
IsDone(t, e, x) ==
    IF e = Registers THEN IsUnique(x) => IsAmong(x, t.registry) ELSE HasOwn(t, e.key, x, e.property)

LEMMA EffectStep ==
    ASSUME NEW s, NEW t, NEW T, StoreOk(s, T), NEW x \in Classes, IsLatest(x, T), NEW d \in Declaration,
           NEW e \in AllEffects, t = Perform(s, e, x, d), NamesDiffer(s.registry)
    PROVE  StoreOk(t, T) /\ Finds(s, t, x, d, {e}) /\ Keeps(s, t) /\ IsDone(t, e, x)
<1>0. /\ \A k, q : Pushes(k, q).effect = "push" /\ Pushes(k, q).key = k /\ Pushes(k, q).property = q
      /\ Entry(x, d) \in DeclarationEntries /\ Entry(x, d).class = x /\ CollectingKeys \subseteq ListKeys /\ x \in T
  BY DEF Pushes, Entry, DeclarationEntries, ListKeys, IsLatest
<1>1. CASE e = Registers
  <2>1. t = Registered(s, x)
    BY <1>1 DEF Perform, Registers
  <2>2. PICK r \in Seq(Classes) :
            /\ t = [s EXCEPT !.registry = r] /\ NamesDiffer(r) /\ IsAmong(x, r)
            /\ \A y \in Classes : IsUnique(y) /\ IsAmong(y, s.registry) => IsAmong(y, r)
    BY <2>1, RegisteredIs DEF StoreOk
  <2>3. /\ StoreOk(t, T) /\ t.registry = r
        /\ \A k \in ListKeys, q \in Members : KeepsList(k, q) => AsBefore(s, t, k, q)
        /\ \A k, y, q : HasOwn(s, k, y, q) => HasOwn(t, k, y, q)
    <3>1. t = [lists |-> s.lists, metadata |-> s.metadata, registry |-> r]
      BY <2>2 DEF StoreOk
    <3>2. t.registry = r
      BY <3>1
    <3>. QED  BY <3>1, <3>2, RegisterStep
  <2>4. Finds(s, t, x, d, {e})
    <3>1. \A k, q : Pushes(k, q) \notin {e}
      BY <1>0, <1>1, EffectKinds
    <3>. QED  BY <1>0, <2>3, <3>1 DEF Finds, AsBefore
  <2>. QED  BY <1>1, <2>2, <2>3, <2>4 DEF Keeps, IsDone
<1>2. CASE e \in Defining
  <2>1. e.effect = "define" /\ ~KeepsList(e.key, e.property) /\ e # Registers
    BY <1>2, EffectKinds
  <2>2. t = Define(s, e.key, x, e.property, Entry(x, d))
    BY <2>1 DEF Perform
  <2>3. /\ StoreOk(t, T) /\ t.registry = s.registry
        /\ \A k \in ListKeys, q \in Members : KeepsList(k, q) => AsBefore(s, t, k, q)
        /\ HasOwn(t, e.key, x, e.property) /\ \A k, y, q : HasOwn(s, k, y, q) => HasOwn(t, k, y, q)
    BY <2>1, <2>2, DefineStep
  <2>4. Finds(s, t, x, d, {e})
    <3>1. \A k, q : Pushes(k, q) \notin {e}
      BY <1>0, <2>1
    <3>. QED  BY <1>0, <2>3, <3>1 DEF Finds, AsBefore
  <2>. QED  BY <2>1, <2>3, <2>4 DEF Keeps, IsDone
<1>3. CASE e \in Listing
  <2>1. /\ e # Registers /\ e.key \in ListKeys /\ e.property \in Members /\ KeepsList(e.key, e.property)
        /\ (e.effect = "push" /\ e = Pushes(e.key, e.property)) \/ (e.effect = "set" /\ e.key = "inject")
    <3>1. CASE e \in Pushing
      BY <1>0, <3>1, EffectKinds
    <3>2. CASE e = Sets("inject", Class)
      BY <3>2, EffectKinds, DeclarationsAssumptions DEF KeepsList, ListKeys
    <3>. QED  BY <1>3, <3>1, <3>2 DEF Listing
  <2>2. PICK old \in Seq(DeclarationEntries) : old = Listed(s, e.key, x, e.property) /\ \A i \in 1 .. Len(old) : old[i].class \in T
    BY <2>1, ListedOk
  <2>3. PICK list \in Seq(DeclarationEntries) :
            /\ t = Push(s, e.key, x, e.property, list) /\ \A i \in 1 .. Len(list) : list[i].class \in T
            /\ e.effect = "push" => list = Append(old, Entry(x, d))
    <3>1. CASE e.effect = "push"
      <4>1. t = Push(s, e.key, x, e.property, Append(old, Entry(x, d)))
        BY <2>2, <3>1 DEF Perform
      <4>2. /\ Append(old, Entry(x, d)) \in Seq(DeclarationEntries)
            /\ \A i \in 1 .. Len(Append(old, Entry(x, d))) : Append(old, Entry(x, d))[i].class \in T
        BY <1>0, <2>2
      <4>. QED  BY <4>1, <4>2
    <3>2. CASE e.effect = "set"
      <4>. DEFINE I == {i \in DOMAIN old : old[i].declaration.index # d.index}
                  l == Append(Select(old, I), Entry(x, d))
      <4>1. t = Push(s, e.key, x, e.property, l)
        BY <2>2, <3>2 DEF Perform, SetIndex
      <4>. HIDE DEF I
      <4>2. /\ Select(old, I) \in Seq(DeclarationEntries)
            /\ \A k \in DOMAIN Select(old, I) : \E i \in DOMAIN old \cap I : Select(old, I)[k] = old[i]
        BY SelectHas
      <4>3. \A k \in DOMAIN Select(old, I) : Select(old, I)[k].class \in T
        BY <2>2, <4>2
      <4>4. l \in Seq(DeclarationEntries) /\ \A i \in 1 .. Len(l) : l[i].class \in T
        BY <1>0, <4>2, <4>3
      <4>. QED  BY <3>2, <4>1, <4>4
    <3>. QED  BY <2>1, <3>1, <3>2
  <2>4. /\ StoreOk(t, T) /\ t.registry = s.registry
        /\ \A k \in ListKeys, q \in Members : KeepsList(k, q) /\ ~(k = e.key /\ q = e.property) => AsBefore(s, t, k, q)
        /\ Reread(s, t, x, e.key, e.property, list)
        /\ HasOwn(t, e.key, x, e.property) /\ \A k, y, q : HasOwn(s, k, y, q) => HasOwn(t, k, y, q)
    BY <2>1, <2>3, PushStep
  <2>5. ASSUME NEW k \in CollectingKeys, NEW q \in Members, NEW c \in Classes, KeepsList(k, q)
        PROVE  Linked(t, c, k, q) =
                  IF Pushes(k, q) \in {e} /\ Extends(c, x) THEN Append(Linked(s, c, k, q), Entry(x, d)) ELSE Linked(s, c, k, q)
    <3>1. CASE ~(k = e.key /\ q = e.property)
      BY <1>0, <2>4, <2>5, <3>1 DEF AsBefore
    <3>2. CASE k = e.key /\ q = e.property
      <4>1. e.effect = "push" /\ e = Pushes(k, q)
        BY <2>1, <3>2 DEF CollectingKeys
      <4>2. list = Append(old, Entry(x, d))
        BY <2>3, <4>1
      <4>3. OfClass(list, c) = IF Extends(c, x) THEN Append(OfClass(old, c), Entry(x, d)) ELSE OfClass(old, c)
        BY <1>0, <4>2, OfClassAppend
      <4>4. \/ Linked(s, c, k, q) = OfClass(old, c) /\ Linked(t, c, k, q) = OfClass(list, c)
            \/ ~Extends(c, x) /\ Linked(t, c, k, q) = Linked(s, c, k, q)
        BY <2>2, <2>4, <3>2 DEF Reread
      <4>. QED  BY <4>1, <4>3, <4>4
    <3>. QED  BY <3>1, <3>2
  <2>6. Finds(s, t, x, d, {e})
    BY <2>5 DEF Finds
  <2>. QED  BY <2>1, <2>4, <2>6 DEF Keeps, IsDone
<1>. QED  BY <1>1, <1>2, <1>3 DEF AllEffects

-----------------------------------------------------------------------------
(* What a decorator does: its effects, one after the other.                *)

IsPerforming(f, s, effects, c, d, n) ==
    f = [m \in 0 .. n |-> IF m = 0 THEN s ELSE Perform(f[m - 1], effects[m], c, d)]

LEMMA PerformingExists ==
    ASSUME NEW s, NEW effects, NEW c, NEW d, NEW n \in Nat
    PROVE  \E f : IsPerforming(f, s, effects, c, d, n)
<1>. DEFINE T == {m \in Nat : \E f : IsPerforming(f, s, effects, c, d, m)}
<1>1. 0 \in T
  <2>. DEFINE f == [m \in 0 .. 0 |-> s]
  <2>1. IsPerforming(f, s, effects, c, d, 0)
    BY DEF IsPerforming
  <2>. QED  BY <2>1
<1>2. ASSUME NEW m \in T PROVE m + 1 \in T
  <2>1. PICK f : IsPerforming(f, s, effects, c, d, m)
    OBVIOUS
  <2>. DEFINE g == [k \in 0 .. m + 1 |-> IF k = m + 1 THEN Perform(f[m], effects[k], c, d) ELSE f[k]]
  <2>2. \A k \in 0 .. m : g[k] = f[k]
    OBVIOUS
  <2>3. \A k \in 0 .. m : f[k] = IF k = 0 THEN s ELSE Perform(f[k - 1], effects[k], c, d)
    BY <2>1 DEF IsPerforming
  <2>4. ASSUME NEW k \in 0 .. m + 1
        PROVE  g[k] = IF k = 0 THEN s ELSE Perform(g[k - 1], effects[k], c, d)
    <3>1. CASE k = m + 1
      <4>1. k # 0 /\ k - 1 = m /\ g[k - 1] = f[m]
        BY <3>1, <2>2
      <4>2. g[k] = Perform(f[m], effects[k], c, d)
        BY <3>1
      <4>. QED  BY <4>1, <4>2
    <3>2. CASE k \in 0 .. m
      <4>1. k = 0 \/ k - 1 \in 0 .. m
        BY <3>2
      <4>2. g[k] = f[k] /\ (k # 0 => g[k - 1] = f[k - 1])
        BY <2>2, <3>2, <4>1
      <4>. HIDE DEF g
      <4>. QED  BY <2>3, <3>2, <4>2
    <3>. QED  BY <3>1, <3>2
  <2>5. g = [k \in 0 .. m + 1 |-> g[k]]
    OBVIOUS
  <2>. HIDE DEF g
  <2>6. IsPerforming(g, s, effects, c, d, m + 1)
    BY <2>4, <2>5 DEF IsPerforming
  <2>. QED  BY <2>6
<1>3. T \in SUBSET Nat
  OBVIOUS
<1>. HIDE DEF T
<1>4. n \in T
  BY <1>1, <1>2, <1>3, NumberInduction
<1>. QED  BY <1>4 DEF T

LEMMA KeepsTransitive ==
    ASSUME NEW s, NEW t, NEW u, Keeps(s, t), Keeps(t, u)
    PROVE  Keeps(s, u) /\ \A e, x : x \in Classes /\ IsDone(t, e, x) => IsDone(u, e, x)
BY DEF Keeps, IsDone

LEMMA FindsBoth ==
    ASSUME NEW s, NEW t, NEW u, NEW x, NEW d, NEW A, NEW e, Finds(s, t, x, d, A), Finds(t, u, x, d, {e}),
           e \in Pushing => e \notin A
    PROVE  Finds(s, u, x, d, A \cup {e})
<1>1. SUFFICES ASSUME NEW k \in CollectingKeys, NEW q \in Members, NEW c \in Classes, KeepsList(k, q)
      PROVE  Linked(u, c, k, q) = IF Pushes(k, q) \in A \cup {e} /\ Extends(c, x) THEN Append(Linked(s, c, k, q), Entry(x, d))
                                                                                ELSE Linked(s, c, k, q)
  BY DEF Finds
<1>2. Pushes(k, q) \in Pushing
  BY <1>1, PushesIs
<1>3. Linked(t, c, k, q) = IF Pushes(k, q) \in A /\ Extends(c, x) THEN Append(Linked(s, c, k, q), Entry(x, d)) ELSE Linked(s, c, k, q)
  BY <1>1 DEF Finds
<1>4. Linked(u, c, k, q) = IF Pushes(k, q) \in {e} /\ Extends(c, x) THEN Append(Linked(t, c, k, q), Entry(x, d)) ELSE Linked(t, c, k, q)
  BY <1>1 DEF Finds
<1>5. CASE Pushes(k, q) = e
  BY <1>2, <1>3, <1>4, <1>5
<1>6. CASE Pushes(k, q) # e
  BY <1>3, <1>4, <1>6
<1>. QED  BY <1>5, <1>6

LEMMA DecoratorStep ==
    ASSUME NEW s, NEW t, NEW T, StoreOk(s, T), NEW x \in Classes, IsLatest(x, T), NEW d \in Declaration,
           NamesDiffer(s.registry), t = Performed(s, Effects(d), x, d)
    PROVE  /\ StoreOk(t, T) /\ Keeps(s, t)
           /\ Finds(s, t, x, d, {Effects(d)[i] : i \in 1 .. Len(Effects(d))})
           /\ \A i \in 1 .. Len(Effects(d)) : IsDone(t, Effects(d)[i], x)
<1>1. PICK effects, n : effects = Effects(d) /\ n = Len(effects)
  OBVIOUS
<1>2. /\ effects \in Seq(AllEffects) /\ n \in Nat
      /\ \A i, j \in 1 .. n : effects[i] \in Listing /\ effects[j] \in Listing => i = j
  BY <1>1, DecoratorsOk DEF EffectsOk
<1>. DEFINE f == CHOOSE g : IsPerforming(g, s, effects, x, d, Len(effects))
<1>3. IsPerforming(f, s, effects, x, d, n)
  BY <1>1, <1>2, PerformingExists
<1>4. t = f[n]
  BY <1>1, Zenon DEF Performed, IsPerforming
<1>. HIDE DEF f
<1>5. \A m \in 0 .. n : f[m] = IF m = 0 THEN s ELSE Perform(f[m - 1], effects[m], x, d)
  BY <1>3 DEF IsPerforming
<1>. DEFINE Begun(m) == {effects[i] : i \in 1 .. m}
            Ok(m, v) == StoreOk(v, T) /\ Keeps(s, v) /\ Finds(s, v, x, d, Begun(m)) /\ \A i \in 1 .. m : IsDone(v, effects[i], x)
            M == {m \in Nat : m <= n => Ok(m, f[m])}
<1>6. 0 \in M
  <2>1. f[0] = s /\ 1 .. 0 = {} /\ Begun(0) = {}
    BY <1>2, <1>5
  <2>2. Finds(s, s, x, d, {})
    BY DEF Finds
  <2>3. Keeps(s, s)
    BY DEF Keeps
  <2>. HIDE DEF Begun
  <2>4. Ok(0, f[0])
    BY <2>1, <2>2, <2>3
  <2>. HIDE DEF Ok
  <2>. QED  BY <2>4
<1>7. ASSUME NEW m \in M PROVE m + 1 \in M
  <2>. SUFFICES ASSUME m + 1 <= n PROVE Ok(m + 1, f[m + 1])
    OBVIOUS
  <2>1. m \in Nat /\ m + 1 \in 0 .. n /\ m + 1 \in 1 .. n /\ m + 1 # 0 /\ (m + 1) - 1 = m
    OBVIOUS
  <2>2. PICK v, w, e : v = f[m] /\ w = f[m + 1] /\ e = effects[m + 1]
    OBVIOUS
  <2>3. w = Perform(v, e, x, d)
    <3>1. f[m + 1] = IF m + 1 = 0 THEN s ELSE Perform(f[(m + 1) - 1], effects[m + 1], x, d)
      BY <1>5, <2>1, Zenon
    <3>. QED  BY <2>1, <2>2, <3>1
  <2>4. Ok(m, v) /\ e \in AllEffects
    <3>1. m <= n /\ e \in AllEffects
      <4>1. PICK k \in 1 .. n : k = m + 1
        BY <2>1
      <4>2. effects[k] \in AllEffects
        BY <1>1, <1>2
      <4>. QED  BY <1>2, <2>1, <2>2, <4>1, <4>2
    <3>2. Ok(m, f[m])
      <4>. HIDE DEF Ok
      <4>. QED  BY <3>1
    <3>. QED  BY <2>2, <3>1, <3>2
  <2>5. NamesDiffer(v.registry)
    BY <2>4 DEF Keeps
  <2>6. StoreOk(w, T) /\ Finds(v, w, x, d, {e}) /\ Keeps(v, w) /\ IsDone(w, e, x)
    BY <2>3, <2>4, <2>5, EffectStep
  <2>7. e \in Pushing => e \notin Begun(m)
    <3>1. SUFFICES ASSUME e \in Pushing, NEW i \in 1 .. m, e = effects[i] PROVE FALSE
      OBVIOUS
    <3>2. i \in 1 .. n /\ i # m + 1
      BY <1>2, <2>1
    <3>. QED  BY <1>2, <2>1, <2>2, <3>1, <3>2 DEF Listing
  <2>8. Begun(m + 1) = Begun(m) \cup {e}
    <3>1. 1 .. m + 1 = (1 .. m) \cup {m + 1}
      BY <2>1
    <3>. QED  BY <2>2, <3>1
  <2>. HIDE DEF Begun
  <2>9. Finds(s, w, x, d, Begun(m + 1))
    BY <2>4, <2>6, <2>7, <2>8, FindsBoth
  <2>10. Keeps(s, w) /\ \A i \in 1 .. m : IsDone(w, effects[i], x)
    BY <2>4, <2>6, KeepsTransitive
  <2>11. \A i \in 1 .. m + 1 : IsDone(w, effects[i], x)
    <3>1. \A i \in 1 .. m + 1 : i \in 1 .. m \/ i = m + 1
      BY <2>1
    <3>. QED  BY <2>2, <2>6, <2>10, <3>1
  <2>. QED  BY <2>2, <2>6, <2>9, <2>10, <2>11
<1>8. M \in SUBSET Nat
  OBVIOUS
<1>. HIDE DEF M
<1>9. n \in M
  BY <1>2, <1>6, <1>7, <1>8, NumberInduction
<1>10. Ok(n, f[n])
  BY <1>2, <1>9 DEF M
<1>. QED  BY <1>1, <1>4, <1>10

-----------------------------------------------------------------------------
(* What the decorators of a chain collect.                                 *)

LEMMA FlatSteps ==
    ASSUME NEW S, NEW s \in Seq(Seq(S))
    PROVE  \E f : /\ Flat(s) = f[Len(s)] /\ f[0] = <<>> /\ \A n \in 0 .. Len(s) : f[n] \in Seq(S)
                  /\ \A n \in 1 .. Len(s) : f[n] = f[n - 1] \o s[n]
<1>1. PICK n \in Nat : n = Len(s) /\ DOMAIN s = 1 .. n
  OBVIOUS
<1>. DEFINE f == CHOOSE g : IsFlat(g, s, Len(s))
<1>2. IsFlat(f, s, n)
  BY <1>1, FlatExists
<1>3. Flat(s) = f[n]
  BY <1>1, Zenon DEF Flat, IsFlat
<1>. HIDE DEF f
<1>4. \A m \in 0 .. n : f[m] = IF m = 0 THEN <<>> ELSE f[m - 1] \o s[m]
  BY <1>2 DEF IsFlat
<1>5. f[0] = <<>> /\ \A m \in 1 .. n : f[m] = f[m - 1] \o s[m]
  <2>1. f[0] = <<>>
    BY <1>4
  <2>2. ASSUME NEW m \in 1 .. n PROVE f[m] = f[m - 1] \o s[m]
    <3>1. m \in 0 .. n /\ m # 0
      OBVIOUS
    <3>. QED  BY <1>4, <3>1, Zenon
  <2>. QED  BY <2>1, <2>2
<1>. DEFINE T == {m \in Nat : m <= n => f[m] \in Seq(S)}
<1>6. 0 \in T
  <2>1. <<>> \in Seq(S)
    OBVIOUS
  <2>. QED  BY <1>5, <2>1
<1>7. ASSUME NEW m \in T PROVE m + 1 \in T
  <2>. SUFFICES ASSUME m + 1 <= n PROVE f[m + 1] \in Seq(S)
    OBVIOUS
  <2>1. m \in Nat /\ m + 1 \in 1 .. n /\ (m + 1) - 1 = m /\ m <= n
    BY <1>1
  <2>2. f[m + 1] = f[m] \o s[m + 1]
    BY <1>5, <2>1
  <2>3. f[m] \in Seq(S) /\ s[m + 1] \in Seq(S)
    BY <1>1, <2>1
  <2>. QED  BY <2>2, <2>3, ConcatProperties
<1>8. T \in SUBSET Nat
  OBVIOUS
<1>. HIDE DEF T
<1>9. T = Nat
  BY <1>6, <1>7, <1>8, NumberInduction
<1>10. \A m \in 0 .. n : f[m] \in Seq(S)
  <2>1. SUFFICES ASSUME NEW m \in 0 .. n PROVE f[m] \in Seq(S)
    OBVIOUS
  <2>2. m \in T /\ m <= n
    BY <1>9
  <2>. QED  BY <2>2 DEF T
<1>. QED  BY <1>1, <1>3, <1>5, <1>10

LEMMA FlatOfEmpty ==
    ASSUME NEW S, NEW s \in Seq(Seq(S)), \A i \in 1 .. Len(s) : s[i] = <<>>
    PROVE  Flat(s) = <<>>
<1>1. PICK f : /\ Flat(s) = f[Len(s)] /\ f[0] = <<>> /\ \A n \in 0 .. Len(s) : f[n] \in Seq(S)
               /\ \A n \in 1 .. Len(s) : f[n] = f[n - 1] \o s[n]
  BY FlatSteps
<1>2. PICK n \in Nat : n = Len(s)
  OBVIOUS
<1>. DEFINE T == {m \in Nat : m <= n => f[m] = <<>>}
<1>3. 0 \in T
  BY <1>1
<1>4. ASSUME NEW m \in T PROVE m + 1 \in T
  <2>. SUFFICES ASSUME m + 1 <= n PROVE f[m + 1] = <<>>
    OBVIOUS
  <2>1. m \in Nat /\ m + 1 \in 1 .. n /\ (m + 1) - 1 = m /\ m <= n
    BY <1>2
  <2>2. f[m + 1] = f[m] \o s[m + 1] /\ f[m] = <<>> /\ s[m + 1] = <<>>
    BY <1>1, <1>2, <2>1
  <2>. QED  BY <2>2
<1>5. T \in SUBSET Nat
  OBVIOUS
<1>. HIDE DEF T
<1>6. n \in T
  BY <1>3, <1>4, <1>5, NumberInduction
<1>. QED  BY <1>1, <1>2, <1>6 DEF T

AppendsAfter(S, e) == \A a, b \in Seq(S) : a \o Append(b, e) = Append(a \o b, e)

LEMMA ConcatAppends ==
    ASSUME NEW S, NEW e \in S
    PROVE  AppendsAfter(S, e)
<1>1. SUFFICES ASSUME NEW a \in Seq(S), NEW b \in Seq(S) PROVE a \o Append(b, e) = Append(a \o b, e)
  BY DEF AppendsAfter
<1>2. PICK one \in Seq(S) : one = <<e>>
  <2>1. <<e>> \in Seq(S)
    OBVIOUS
  <2>. QED  BY <2>1
<1>3. Append(b, e) = b \o one
  BY <1>2, AppendIsConcat
<1>4. PICK ab \in Seq(S) : ab = a \o b
  BY ConcatProperties
<1>5. Append(ab, e) = ab \o one
  BY <1>2, AppendIsConcat
<1>6. (a \o b) \o one = a \o (b \o one)
  BY ConcatAssociative
<1>. QED  BY <1>3, <1>4, <1>5, <1>6

\* An element more at the end of one sequence, after which there are only empty ones.
HasOneMore(s, t, k, e) ==
    /\ k \in 1 .. Len(s) /\ Len(t) = Len(s) /\ t[k] = Append(s[k], e)
    /\ \A i \in 1 .. Len(s) : i # k => t[i] = s[i]
    /\ \A i \in k + 1 .. Len(s) : s[i] = <<>>

LEMMA FlatAppend ==
    ASSUME NEW S, NEW s \in Seq(Seq(S)), NEW t \in Seq(Seq(S)), NEW k, NEW e \in S, HasOneMore(s, t, k, e)
    PROVE  Flat(t) = Append(Flat(s), e)
<1>. USE DEF HasOneMore
<1>0. AppendsAfter(S, e)
  BY ConcatAppends
<1>1. PICK f : /\ Flat(s) = f[Len(s)] /\ f[0] = <<>> /\ \A n \in 0 .. Len(s) : f[n] \in Seq(S)
               /\ \A n \in 1 .. Len(s) : f[n] = f[n - 1] \o s[n]
  BY FlatSteps
<1>2. PICK g : /\ Flat(t) = g[Len(t)] /\ g[0] = <<>> /\ \A n \in 0 .. Len(t) : g[n] \in Seq(S)
               /\ \A n \in 1 .. Len(t) : g[n] = g[n - 1] \o t[n]
  BY FlatSteps
<1>3. PICK n \in Nat : n = Len(s)
  OBVIOUS
<1>4. \A m \in 1 .. n : s[m] \in Seq(S)
  BY <1>3
<1>5. k \in Nat /\ 1 <= k /\ k <= n
  BY <1>3
<1>. DEFINE Related(m, v, y) == (m < k => y = v) /\ (k <= m => y = Append(v, e))
            T == {m \in Nat : m <= n => Related(m, f[m], g[m])}
<1>6. 0 \in T
  <2>1. 0 < k /\ ~(k <= 0) /\ f[0] = g[0]
    BY <1>1, <1>2, <1>5
  <2>. QED  BY <2>1
<1>7. ASSUME NEW m \in T PROVE m + 1 \in T
  <2>. SUFFICES ASSUME m + 1 <= n PROVE Related(m + 1, f[m + 1], g[m + 1])
    OBVIOUS
  <2>1. m \in Nat /\ m + 1 \in 1 .. n /\ (m + 1) - 1 = m /\ m <= n /\ m \in 0 .. n
    BY <1>3
  <2>p. PICK y, b : y = g[m] /\ b = t[m + 1]
    OBVIOUS
  <2>2. PICK v \in Seq(S), a \in Seq(S) : v = f[m] /\ a = s[m + 1] /\ y = g[m] /\ b = t[m + 1]
    BY <1>1, <1>3, <1>4, <2>1, <2>p
  <2>3. f[m + 1] = v \o a
    BY <1>1, <1>3, <2>1, <2>2
  <2>4. g[m + 1] = y \o b
    BY <1>2, <1>3, <2>1, <2>2
  <2>5. Related(m, v, y)
    <3>1. Related(m, f[m], g[m])
      <4>. HIDE DEF Related
      <4>. QED  BY <2>1
    <3>. QED  BY <2>2, <3>1
  <2>6. CASE m + 1 < k
    <3>1. m < k /\ m + 1 # k /\ m + 1 \in 1 .. Len(s)
      BY <1>3, <1>5, <2>1, <2>6
    <3>2. b = a /\ y = v
      BY <2>2, <2>5, <3>1
    <3>. QED  BY <1>5, <2>1, <2>3, <2>4, <2>6, <3>2
  <2>7. CASE m + 1 = k
    <3>1. b = Append(a, e) /\ y = v
      <4>1. m < k
        BY <2>1, <2>7
      <4>. QED  BY <2>2, <2>5, <2>7, <4>1
    <3>2. g[m + 1] = Append(v \o a, e)
      <4>1. v \o Append(a, e) = Append(v \o a, e)
        BY <1>0 DEF AppendsAfter
      <4>. QED  BY <2>4, <3>1, <4>1
    <3>. QED  BY <1>5, <2>1, <2>3, <2>7, <3>2
  <2>8. CASE k < m + 1
    <3>1. a = <<>> /\ b = <<>>
      <4>1. m + 1 \in k + 1 .. Len(s) /\ m + 1 \in 1 .. Len(s) /\ m + 1 # k
        BY <1>3, <1>5, <2>1, <2>8
      <4>. QED  BY <2>2, <4>1
    <3>2. y = Append(v, e) /\ y \in Seq(S)
      <4>1. k <= m
        BY <1>5, <2>1, <2>8
      <4>2. y = Append(v, e)
        BY <2>5, <4>1
      <4>. QED  BY <4>2, AppendProperties
    <3>3. g[m + 1] = y /\ f[m + 1] = v
      BY <2>3, <2>4, <3>1, <3>2, ConcatEmptySeq
    <3>. QED  BY <1>5, <2>1, <2>8, <3>2, <3>3
  <2>9. m + 1 < k \/ m + 1 = k \/ k < m + 1
    BY <1>5, <2>1
  <2>. HIDE DEF Related
  <2>. QED  BY <2>6, <2>7, <2>8, <2>9
<1>8. T \in SUBSET Nat
  OBVIOUS
<1>. HIDE DEF T
<1>9. n \in T
  BY <1>6, <1>7, <1>8, NumberInduction
<1>10. g[n] = Append(f[n], e)
  <2>1. Related(n, f[n], g[n])
    <3>. HIDE DEF Related
    <3>. QED  BY <1>9 DEF T
  <2>. QED  BY <1>5, <2>1
<1>. QED  BY <1>1, <1>2, <1>3, <1>10


\* What a class collected from the first n of its declarations.
CollectedOf(ds, n, c, e) ==
    Select([i \in 1 .. n |-> Entry(c, ds[i])], {i \in 1 .. n : Performs(ds[i], e)})

LEMMA CollectedStep ==
    ASSUME NEW ds \in Seq(Declaration), NEW n \in Nat, n < Len(ds), NEW c \in Classes, NEW e
    PROVE  CollectedOf(ds, n + 1, c, e) =
               IF Performs(ds[n + 1], e) THEN Append(CollectedOf(ds, n, c, e), Entry(c, ds[n + 1]))
                                         ELSE CollectedOf(ds, n, c, e)
<1>. DEFINE s == [i \in 1 .. n |-> Entry(c, ds[i])]
            t == [i \in 1 .. n + 1 |-> Entry(c, ds[i])]
            I == {i \in 1 .. n + 1 : Performs(ds[i], e)}
            J == {i \in 1 .. n : Performs(ds[i], e)}
            x == Entry(c, ds[n + 1])
<1>1. \A i \in 1 .. n + 1 : Entry(c, ds[i]) \in DeclarationEntries
  <2>1. SUFFICES ASSUME NEW i \in 1 .. n + 1 PROVE Entry(c, ds[i]) \in DeclarationEntries
    OBVIOUS
  <2>2. ds[i] \in Declaration
    <3>1. i \in 1 .. Len(ds)
      OBVIOUS
    <3>. QED  BY <3>1
  <2>. QED  BY <2>2 DEF Entry, DeclarationEntries
<1>2. n + 1 \in 1 .. n + 1
  OBVIOUS
<1>3. x \in DeclarationEntries
  BY <1>1, <1>2
<1>4. s \in Seq(DeclarationEntries) /\ Len(s) = n
  BY <1>1
<1>5. t = Append(s, x)
  <2>. HIDE DEF x
  <2>1. t \in Seq(DeclarationEntries) /\ Len(t) = n + 1
    BY <1>1
  <2>2. PICK u \in Seq(DeclarationEntries) : u = Append(s, x)
    BY <1>3, <1>4, AppendProperties
  <2>3. Len(u) = n + 1 /\ u[n + 1] = x /\ \A i \in 1 .. n : u[i] = s[i]
    BY <1>3, <1>4, <2>2, AppendProperties
  <2>4. \A i \in 1 .. n + 1 : t[i] = u[i]
    <3>1. SUFFICES ASSUME NEW i \in 1 .. n + 1 PROVE t[i] = u[i]
      OBVIOUS
    <3>2. CASE i \in 1 .. n
      <4>1. s[i] = t[i]
        BY <3>2
      <4>. QED  BY <2>3, <3>2, <4>1
    <3>3. CASE i = n + 1
      <4>1. t[i] = Entry(c, ds[n + 1])
        BY <3>3
      <4>. QED  BY <2>3, <3>3, <4>1 DEF x
    <3>. QED  BY <3>2, <3>3
  <2>. HIDE DEF s, t
  <2>5. t = u
    BY <2>1, <2>2, <2>3, <2>4, SeqEqual
  <2>. QED  BY <2>2, <2>5
<1>6. \A i \in 1 .. n : i \in I <=> i \in J
  OBVIOUS
<1>7. n + 1 \in I <=> Performs(ds[n + 1], e)
  BY <1>2
<1>8. Select(Append(s, x), I) = IF n + 1 \in I THEN Append(Select(s, J), x) ELSE Select(s, J)
  <2>. HIDE DEF s, I, J, x
  <2>. QED  BY <1>3, <1>4, <1>6, SelectAppend
<1>9. CollectedOf(ds, n, c, e) = Select(s, J) /\ CollectedOf(ds, n + 1, c, e) = Select(t, I)
  BY DEF CollectedOf
<1>. HIDE DEF s, t, I, J
<1>. QED  BY <1>5, <1>7, <1>8, <1>9

LEMMA CollectedIs ==
    ASSUME NEW ds \in Seq(Declaration), NEW n \in Nat, n <= Len(ds), NEW c \in Classes, NEW e
    PROVE  /\ CollectedOf(ds, n, c, e) \in Seq(DeclarationEntries)
           /\ \A i \in 1 .. n : Performs(ds[i], e) => DOMAIN CollectedOf(ds, n, c, e) # {}
<1>. DEFINE s == [i \in 1 .. n |-> Entry(c, ds[i])]
            J == {i \in 1 .. n : Performs(ds[i], e)}
<1>1. \A i \in 1 .. n : Entry(c, ds[i]) \in DeclarationEntries
  <2>1. SUFFICES ASSUME NEW i \in 1 .. n PROVE Entry(c, ds[i]) \in DeclarationEntries
    OBVIOUS
  <2>2. ds[i] \in Declaration
    <3>1. i \in 1 .. Len(ds)
      OBVIOUS
    <3>. QED  BY <3>1
  <2>. QED  BY <2>2 DEF Entry, DeclarationEntries
<1>2. s \in Seq(DeclarationEntries) /\ DOMAIN s = 1 .. n /\ \A i \in 1 .. n : s[i] = Entry(c, ds[i])
  BY <1>1
<1>3. \A i \in 1 .. n : i \in J <=> Performs(ds[i], e)
  OBVIOUS
<1>4. PICK t : t = CollectedOf(ds, n, c, e)
  OBVIOUS
<1>5. t = Select(s, J)
  BY <1>4 DEF CollectedOf
<1>. HIDE DEF s, J
<1>6. t \in Seq(DeclarationEntries) /\ \A i \in DOMAIN s \cap J : \E k \in DOMAIN t : t[k] = s[i]
  <2>1. /\ Select(s, J) \in Seq(DeclarationEntries)
        /\ \A k \in DOMAIN Select(s, J) : \E i \in DOMAIN s \cap J : Select(s, J)[k] = s[i]
        /\ \A i \in DOMAIN s \cap J : \E k \in DOMAIN Select(s, J) : Select(s, J)[k] = s[i]
    <3>1. s \in Seq(DeclarationEntries)
      BY <1>2
    <3>. QED  BY <3>1, SelectHas
  <2>. QED  BY <1>5, <2>1, Zenon
<1>7. ASSUME NEW i \in 1 .. n, Performs(ds[i], e) PROVE DOMAIN t # {}
  <2>1. i \in DOMAIN s \cap J
    BY <1>2, <1>3, <1>7
  <2>. QED  BY <1>6, <2>1
<1>. QED  BY <1>4, <1>6, <1>7

LEMMA CollectedNone ==
    ASSUME NEW ds, NEW c, NEW e
    PROVE  CollectedOf(ds, 0, c, e) = <<>>
<1>1. PICK J : J = {i \in 1 .. 0 : Performs(ds[i], e)}
  OBVIOUS
<1>2. [i \in 1 .. 0 |-> Entry(c, ds[i])] = <<>>
  OBVIOUS
<1>. QED  BY <1>1, <1>2, SelectEmpty DEF CollectedOf

\* What a class has from those of its chain when they collected what f says.
Reversed(f, c) == [i \in DOMAIN Chain[c] |-> f[Chain[c][Len(Chain[c]) + 1 - i]]]

IsReversed(s, f, c) ==
    /\ s \in Seq(Seq(DeclarationEntries)) /\ Len(s) = Len(Chain[c])
    /\ \A i \in 1 .. Len(Chain[c]) : s[i] = f[Chain[c][Len(Chain[c]) + 1 - i]]

LEMMA ReversedIs ==
    ASSUME NEW f \in [Classes -> Seq(DeclarationEntries)], NEW c \in Classes
    PROVE  IsReversed(Reversed(f, c), f, c)
<1>1. PICK n \in Nat \ {0} : n = Len(Chain[c]) /\ DOMAIN Chain[c] = 1 .. n /\ \A i \in 1 .. n : Chain[c][i] \in Classes
  BY ChainTypes
<1>2. \A i \in 1 .. n : n + 1 - i \in 1 .. n
  OBVIOUS
<1>3. \A i \in 1 .. n : f[Chain[c][n + 1 - i]] \in Seq(DeclarationEntries)
  BY <1>1, <1>2
<1>4. Reversed(f, c) = [i \in 1 .. n |-> f[Chain[c][n + 1 - i]]]
  BY <1>1 DEF Reversed
<1>. QED  BY <1>1, <1>3, <1>4 DEF IsReversed

\* x collects e, and no class that extends it has collected anything.
Collects(f, g, x, e) ==
    /\ f \in [Classes -> Seq(DeclarationEntries)] /\ g \in [Classes -> Seq(DeclarationEntries)]
    /\ g[x] = Append(f[x], e) /\ \A y \in Classes \ {x} : g[y] = f[y]
    /\ \A y \in Classes \ {x} : Extends(y, x) => f[y] = <<>>

LEMMA InheritedStep ==
    ASSUME NEW f, NEW g, NEW x \in Classes, NEW e \in DeclarationEntries,
           Collects(f, g, x, e), NEW c \in Classes
    PROVE  Flat(Reversed(g, c)) = IF Extends(c, x) THEN Append(Flat(Reversed(f, c)), e) ELSE Flat(Reversed(f, c))
<1>. USE DEF Collects
<1>1. PICK n \in Nat \ {0} : n = Len(Chain[c]) /\ DOMAIN Chain[c] = 1 .. n /\ \A i \in 1 .. n : Chain[c][i] \in Classes
  BY ChainTypes
<1>2. PICK s \in Seq(Seq(DeclarationEntries)) : s = Reversed(f, c) /\ Len(s) = n /\ \A i \in 1 .. n : s[i] = f[Chain[c][n + 1 - i]]
  <2>1. IsReversed(Reversed(f, c), f, c)
    BY ReversedIs
  <2>. QED  BY <1>1, <2>1 DEF IsReversed
<1>3. PICK t \in Seq(Seq(DeclarationEntries)) : t = Reversed(g, c) /\ Len(t) = n /\ \A i \in 1 .. n : t[i] = g[Chain[c][n + 1 - i]]
  <2>1. IsReversed(Reversed(g, c), g, c)
    BY ReversedIs
  <2>. QED  BY <1>1, <2>1 DEF IsReversed
<1>4. CASE Extends(c, x)
  <2>1. PICK j \in 1 .. n : Chain[c][j] = x
    BY <1>1, <1>4 DEF Extends
  <2>2. PICK k \in 1 .. n : k = n + 1 - j /\ n + 1 - k = j
    OBVIOUS
  <2>3. t[k] = Append(s[k], e)
    BY <1>2, <1>3, <2>1, <2>2
  <2>4. ASSUME NEW i \in 1 .. n, i # k PROVE t[i] = s[i] /\ (i > k => s[i] = <<>>)
    <3>1. PICK l \in 1 .. n : l = n + 1 - i
      OBVIOUS
    <3>2. l # j /\ (i > k => l < j)
      BY <2>2, <2>4, <3>1
    <3>3. Chain[c][l] \in Classes /\ Chain[c][l] # x
      <4>1. CASE l < j
        <5>1. l \in 1 .. j - 1
          BY <4>1
        <5>. QED  BY <1>1, <2>1, <5>1, BeforeInChain
      <4>2. CASE j < l
        <5>1. j \in 1 .. l - 1
          BY <4>2
        <5>. QED  BY <1>1, <2>1, <5>1, BeforeInChain
      <4>. QED  BY <3>2, <4>1, <4>2
    <3>4. i > k => Extends(Chain[c][l], x)
      <4>1. i > k => l \in 1 .. j - 1
        BY <3>2
      <4>. QED  BY <1>1, <2>1, <4>1, BeforeInChain
    <3>5. s[i] = f[Chain[c][l]] /\ t[i] = g[Chain[c][l]]
      BY <1>2, <1>3, <3>1
    <3>. QED  BY <3>3, <3>4, <3>5
  <2>5. \A i \in k + 1 .. n : s[i] = <<>>
    <3>1. SUFFICES ASSUME NEW i \in k + 1 .. n PROVE s[i] = <<>>
      OBVIOUS
    <3>2. i \in 1 .. n /\ i # k /\ i > k
      OBVIOUS
    <3>. QED  BY <2>4, <3>2
  <2>6. Flat(t) = Append(Flat(s), e)
    <3>1. HasOneMore(s, t, k, e)
      BY <1>2, <1>3, <2>3, <2>4, <2>5 DEF HasOneMore
    <3>. QED  BY <3>1, FlatAppend
  <2>. QED  BY <1>2, <1>3, <1>4, <2>6
<1>5. CASE ~Extends(c, x)
  <2>1. ASSUME NEW i \in 1 .. n PROVE t[i] = s[i]
    <3>1. PICK l \in 1 .. n : l = n + 1 - i
      OBVIOUS
    <3>2. Chain[c][l] \in Classes \ {x}
      BY <1>1, <1>5 DEF Extends
    <3>. QED  BY <1>2, <1>3, <3>1, <3>2
  <2>2. t = s
    BY <1>2, <1>3, <2>1, SeqEqual
  <2>. QED  BY <1>2, <1>3, <1>5, <2>2
<1>. QED  BY <1>4, <1>5

AllCollected(ds, a, e) == [y \in Classes |-> CollectedOf(ds[y], a[y], y, e)]

\* The same in the order of a chain, from the class that extends nothing.
InChainOrder(ds, a, c, e) ==
    [i \in DOMAIN Chain[c] |-> LET y == Chain[c][Len(Chain[c]) + 1 - i] IN CollectedOf(ds[y], a[y], y, e)]

LEMMA InOrderIs ==
    ASSUME NEW ds, NEW a, NEW c \in Classes, NEW e
    PROVE  InChainOrder(ds, a, c, e) = Reversed(AllCollected(ds, a, e), c)
<1>1. PICK n \in Nat \ {0} : n = Len(Chain[c]) /\ DOMAIN Chain[c] = 1 .. n /\ \A i \in 1 .. n : Chain[c][i] \in Classes
  BY ChainTypes
<1>2. \A i \in 1 .. n : n + 1 - i \in 1 .. n
  OBVIOUS
<1>3. \A i \in 1 .. n : Chain[c][n + 1 - i] \in Classes
  BY <1>1, <1>2
<1>. QED  BY <1>1, <1>3 DEF Reversed, AllCollected, InChainOrder

LEMMA InheritedIs ==
    ASSUME NEW c \in Classes, NEW e
    PROVE  /\ Inherited(c, e) = Flat(Reversed(AllCollected(program, applied, e), c))
           /\ Inherited(c, e)' = Flat(Reversed(AllCollected(program', applied', e), c))
<1>1. Inherited(c, e) = Flat(InChainOrder(program, applied, c, e))
  BY Zenon DEF Inherited, Collected, CollectedOf, InChainOrder
<1>2. Inherited(c, e)' = Flat(InChainOrder(program', applied', c, e))
  BY Zenon DEF Inherited, Collected, CollectedOf, InChainOrder
<1>. QED  BY <1>1, <1>2, InOrderIs

LEMMA ProgramTypes ==
    ASSUME LoadTypeOK, NEW c \in Classes
    PROVE  program[c] \in Seq(Declaration) /\ applied[c] \in Nat /\ applied[c] <= Len(program[c])
BY DeclarationsAssumptions DEF LoadTypeOK

LEMMA AllCollectedIs ==
    ASSUME LoadTypeOK, NEW e
    PROVE  AllCollected(program, applied, e) \in [Classes -> Seq(DeclarationEntries)]
<1>1. SUFFICES ASSUME NEW y \in Classes PROVE CollectedOf(program[y], applied[y], y, e) \in Seq(DeclarationEntries)
  BY DEF AllCollected
<1>. QED  BY ProgramTypes, CollectedIs

LEMMA StoreOkForMore ==
    ASSUME NEW s, NEW A, NEW B, StoreOk(s, A), A \subseteq B
    PROVE  StoreOk(s, B)
BY DEF StoreOk

-----------------------------------------------------------------------------
(* The invariant.                                                          *)

LEMMA LoadInitOk == LoadInit => LoadInv
<1>. SUFFICES ASSUME LoadInit PROVE LoadInv
  OBVIOUS
<1>. USE DEF LoadInit
<1>1. LoadTypeOK /\ Started = {} /\ BasesAreApplied
  <2>1. \A c \in Classes : Len(program[c]) \in Nat
    BY DeclarationsAssumptions
  <2>. QED  BY <2>1 DEF LoadTypeOK, Started, BasesAreApplied
<1>2. \A key, c, p : ~HasOwn(store, key, c, p)
  BY DEF HasOwn
<1>3. PICK none : none = <<>>
  OBVIOUS
<1>4. store.lists = none /\ store.registry = none /\ none \in Seq(Seq(DeclarationEntries)) /\ none \in Seq(Classes) /\ Len(none) = 0
  BY <1>3
<1>5. StoreOk(store, Started)
  <2>1. 1 .. 0 = {}
    OBVIOUS
  <2>2. store = [lists |-> store.lists, metadata |-> store.metadata, registry |-> store.registry]
    OBVIOUS
  <2>. QED  BY <1>2, <1>4, <2>1, <2>2 DEF StoreOk
<1>6. LinksInv
  <2>1. SUFFICES ASSUME NEW c \in Classes, NEW key \in CollectingKeys, NEW p \in Members
        PROVE  Linked(store, c, key, p) = Inherited(c, Pushes(key, p))
    BY DEF LinksInv
  <2>2. Linked(store, c, key, p) = <<>>
    BY <1>2, HasIs DEF Linked
  <2>3. PICK f : f = AllCollected(program, applied, Pushes(key, p))
    OBVIOUS
  <2>4. f \in [Classes -> Seq(DeclarationEntries)] /\ \A y \in Classes : f[y] = <<>>
    BY <1>1, <2>3, AllCollectedIs, CollectedNone DEF AllCollected
  <2>5. PICK s \in Seq(Seq(DeclarationEntries)) : s = Reversed(f, c) /\ \A i \in 1 .. Len(s) : s[i] = <<>>
    <3>1. PICK s : s = Reversed(f, c)
      OBVIOUS
    <3>2. IsReversed(s, f, c)
      BY <2>4, <3>1, ReversedIs
    <3>3. PICK n \in Nat \ {0} : n = Len(Chain[c]) /\ \A i \in 1 .. n : Chain[c][i] \in Classes
      BY ChainTypes
    <3>4. \A i \in 1 .. n : n + 1 - i \in 1 .. n
      OBVIOUS
    <3>5. \A i \in 1 .. n : f[Chain[c][n + 1 - i]] = <<>>
      BY <2>4, <3>3, <3>4
    <3>. QED  BY <3>1, <3>2, <3>3, <3>5 DEF IsReversed
  <2>6. Flat(s) = <<>>
    BY <2>5, FlatOfEmpty
  <2>. QED  BY <2>2, <2>3, <2>5, <2>6, InheritedIs
<1>7. RegistryInv
  <2>1. 1 .. 0 = {} /\ \A c \in Classes : applied[c] = 0
    OBVIOUS
  <2>. QED  BY <1>4, <2>1 DEF RegistryInv, NamesDiffer
<1>. QED  BY <1>1, <1>5, <1>6, <1>7 DEF LoadInv

LEMMA ApplyKeeps ==
    ASSUME LoadInv, NEW x \in Classes, Apply(x)
    PROVE  LoadInv'
<1>1. /\ program' = program /\ removed' = removed /\ applied' = [applied EXCEPT ![x] = @ + 1]
      /\ ~IsApplied(x) /\ \A i \in DOMAIN Chain[x] \ {1} : IsApplied(Chain[x][i])
  BY DEF Apply
<1>2. LoadTypeOK /\ BasesAreApplied /\ StoreOk(store, Started) /\ LinksInv /\ RegistryInv
  BY DEF LoadInv
<1>3. PICK ds \in Seq(Declaration), n \in Nat : ds = program[x] /\ n = applied[x] /\ n <= Len(ds)
  BY <1>2, ProgramTypes
<1>4. n < Len(ds) /\ n + 1 \in 1 .. Len(ds)
  BY <1>1, <1>3 DEF IsApplied
<1>5. PICK d \in Declaration : d = ds[n + 1]
  BY <1>4
<1>6. store' = Performed(store, Effects(d), x, d)
  BY <1>3, <1>5 DEF Apply
<1>7. applied' \in [Classes -> Nat] /\ applied'[x] = n + 1 /\ \A y \in Classes \ {x} : applied'[y] = applied[y]
  BY <1>1, <1>2, <1>3 DEF LoadTypeOK
<1>8. LoadTypeOK'
  <2>1. \A c \in Classes : applied'[c] <= Len(program[c])
    BY <1>2, <1>3, <1>4, <1>7 DEF LoadTypeOK
  <2>. QED  BY <1>1, <1>2, <1>7, <2>1 DEF LoadTypeOK
<1>9. Started' = Started \cup {x}
  BY <1>2, <1>7 DEF Started, LoadTypeOK
<1>10. ASSUME NEW y \in Classes, y # x, Extends(y, x) PROVE y \notin Started
  <2>1. PICK i \in 1 .. Len(Chain[y]) : Chain[y][i] = x
    BY <1>10 DEF Extends
  <2>2. i \in DOMAIN Chain[y] \ {1}
    BY <1>10, <2>1, ChainTypes
  <2>. QED  BY <1>1, <1>2, <2>1, <2>2 DEF BasesAreApplied
<1>11. BasesAreApplied'
  <2>1. SUFFICES ASSUME NEW c \in Started \cup {x}, NEW i \in DOMAIN Chain[c] \ {1}
        PROVE  applied'[Chain[c][i]] = Len(program[Chain[c][i]])
    BY <1>1, <1>9 DEF BasesAreApplied, IsApplied
  <2>2. c \in Classes
    BY DEF Started
  <2>3. IsApplied(Chain[c][i])
    BY <1>1, <1>2, <2>1 DEF BasesAreApplied
  <2>4. Chain[c][i] \in Classes
    BY <2>2, ChainTypes
  <2>. QED  BY <1>1, <1>7, <2>3, <2>4 DEF IsApplied
<1>12. PICK T : T = Started'
  OBVIOUS
<1>13. IsLatest(x, T)
  BY <1>9, <1>10, <1>12 DEF IsLatest
<1>14. StoreOk(store, T) /\ NamesDiffer(store.registry)
  BY <1>2, <1>9, <1>12, StoreOkForMore DEF RegistryInv
<1>15. /\ StoreOk(store', T) /\ Keeps(store, store')
       /\ Finds(store, store', x, d, {Effects(d)[i] : i \in 1 .. Len(Effects(d))})
       /\ \A i \in 1 .. Len(Effects(d)) : IsDone(store', Effects(d)[i], x)
  <2>1. PICK s, t : s = store /\ t = store'
    OBVIOUS
  <2>2. StoreOk(s, T) /\ NamesDiffer(s.registry) /\ t = Performed(s, Effects(d), x, d)
    BY <1>6, <1>14, <2>1
  <2>3. /\ StoreOk(t, T) /\ Keeps(s, t)
        /\ Finds(s, t, x, d, {Effects(d)[i] : i \in 1 .. Len(Effects(d))})
        /\ \A i \in 1 .. Len(Effects(d)) : IsDone(t, Effects(d)[i], x)
    BY <1>13, <2>2, DecoratorStep
  <2>. QED  BY <2>1, <2>3
<1>16. EffectsOk(Effects(d))
  BY DecoratorsOk
<1>17. PICK effects : effects = Effects(d)
  OBVIOUS
<1>18. DOMAIN effects = 1 .. Len(effects)
  BY <1>16, <1>17 DEF EffectsOk
<1>19. LinksInv'
  <2>1. SUFFICES ASSUME NEW c \in Classes, NEW key \in CollectingKeys, NEW p \in Members, KeepsList(key, p)
        PROVE  Linked(store', c, key, p) = Inherited(c, Pushes(key, p))'
    BY DEF LinksInv
  <2>2. PICK e : e = Pushes(key, p)
    OBVIOUS
  <2>3. PICK f, g : f = AllCollected(program, applied, e) /\ g = AllCollected(program', applied', e)
    OBVIOUS
  <2>4. /\ Linked(store, c, key, p) = Flat(Reversed(f, c))
        /\ Inherited(c, e)' = Flat(Reversed(g, c))
    <3>1. Linked(store, c, key, p) = Inherited(c, Pushes(key, p))
      BY <1>2, <2>1 DEF LinksInv
    <3>2. Linked(store, c, key, p) = Inherited(c, e)
      BY <2>2, <3>1
    <3>3. Inherited(c, e) = Flat(Reversed(AllCollected(program, applied, e), c))
      BY InheritedIs
    <3>4. Inherited(c, e)' = Flat(Reversed(AllCollected(program', applied', e), c))
      BY InheritedIs
    <3>. QED  BY <2>3, <3>2, <3>3, <3>4
  <2>5. f \in [Classes -> Seq(DeclarationEntries)]
    BY <1>2, <2>3, AllCollectedIs
  <2>6. \A y \in Classes \ {x} : g[y] = f[y]
    BY <1>1, <1>7, <2>3 DEF AllCollected
  <2>7. f[x] = CollectedOf(ds, n, x, e) /\ g[x] = CollectedOf(ds, n + 1, x, e)
    BY <1>1, <1>3, <1>7, <2>3 DEF AllCollected
  <2>8. g[x] = IF Performs(d, e) THEN Append(f[x], Entry(x, d)) ELSE f[x]
    BY <1>4, <1>5, <2>7, CollectedStep
  <2>9. e \in {effects[i] : i \in 1 .. Len(effects)} <=> Performs(d, e)
    BY <1>17, <1>18 DEF Performs
  <2>10. Linked(store', c, key, p) =
            IF Performs(d, e) /\ Extends(c, x) THEN Append(Linked(store, c, key, p), Entry(x, d)) ELSE Linked(store, c, key, p)
    BY <1>15, <1>17, <2>1, <2>2, <2>9 DEF Finds
  <2>11. CASE Performs(d, e)
    <3>1. Entry(x, d) \in DeclarationEntries
      BY DEF Entry, DeclarationEntries
    <3>2. g \in [Classes -> Seq(DeclarationEntries)]
      <4>1. g[x] \in Seq(DeclarationEntries)
        BY <2>5, <2>8, <2>11, <3>1
      <4>2. g = [y \in Classes |-> g[y]]
        BY <2>3 DEF AllCollected
      <4>3. \A y \in Classes : g[y] \in Seq(DeclarationEntries)
        BY <2>5, <2>6, <4>1
      <4>. QED  BY <4>2, <4>3
    <3>3. \A y \in Classes \ {x} : Extends(y, x) => f[y] = <<>>
      <4>1. SUFFICES ASSUME NEW y \in Classes \ {x}, Extends(y, x) PROVE f[y] = <<>>
        OBVIOUS
      <4>2. applied[y] = 0
        BY <1>2, <1>10, <4>1 DEF Started, LoadTypeOK
      <4>. QED  BY <2>3, <4>2, CollectedNone DEF AllCollected
    <3>4. g[x] = Append(f[x], Entry(x, d))
      BY <2>8, <2>11
    <3>5. Flat(Reversed(g, c)) =
            IF Extends(c, x) THEN Append(Flat(Reversed(f, c)), Entry(x, d)) ELSE Flat(Reversed(f, c))
      <4>1. Collects(f, g, x, Entry(x, d))
        BY <2>5, <2>6, <3>2, <3>3, <3>4 DEF Collects
      <4>2. PICK v \in DeclarationEntries : v = Entry(x, d)
        BY <3>1
      <4>3. Collects(f, g, x, v)
        BY <4>1, <4>2
      <4>4. Flat(Reversed(g, c)) = IF Extends(c, x) THEN Append(Flat(Reversed(f, c)), v) ELSE Flat(Reversed(f, c))
        BY <4>3, InheritedStep
      <4>. QED  BY <4>2, <4>4
    <3>. QED  BY <2>2, <2>4, <2>10, <2>11, <3>5
  <2>12. CASE ~Performs(d, e)
    <3>1. \A y \in Classes : g[y] = f[y]
      BY <2>6, <2>8, <2>12
    <3>2. g = f
      BY <2>3, <3>1 DEF AllCollected
    <3>. QED  BY <2>2, <2>4, <2>10, <2>12, <3>2
  <2>. QED  BY <2>11, <2>12
<1>20. RegistryInv'
  <2>1. NamesDiffer(store'.registry)
    BY <1>15 DEF Keeps
  <2>2. SUFFICES ASSUME NEW c \in Classes, NEW i \in 1 .. applied'[c], Effects(program[c][i])[1] = Registers
        PROVE  /\ \A j \in 2 .. Len(Effects(program[c][i])) : HasOwn(store', Effects(program[c][i])[j].key, c, Class)
               /\ IsUnique(c) /\ c \notin removed => IsAmong(c, store'.registry)
    BY <1>1, <2>1 DEF RegistryInv
  <2>3. CASE c = x /\ i = n + 1
    <3>1. Effects(program[c][i]) = effects
      BY <1>3, <1>5, <1>17, <2>3
    <3>2. /\ Len(effects) \in Nat \ {0} /\ effects[1] = Registers
          /\ \A j \in 2 .. Len(effects) : effects[j] # Registers /\ effects[j].property = Class
      BY <1>16, <1>17, <2>2, <3>1 DEF EffectsOk
    <3>3. 1 \in 1 .. Len(effects) /\ \A j \in 2 .. Len(effects) : j \in 1 .. Len(effects)
      BY <3>2
    <3>4. \A j \in 1 .. Len(effects) : IsDone(store', effects[j], x)
      BY <1>15, <1>17
    <3>. QED  BY <2>3, <3>1, <3>2, <3>3, <3>4 DEF IsDone
  <2>4. CASE ~(c = x /\ i = n + 1)
    <3>1. i \in 1 .. applied[c]
      BY <1>3, <1>7, <2>2, <2>4
    <3>2. /\ \A j \in 2 .. Len(Effects(program[c][i])) : HasOwn(store, Effects(program[c][i])[j].key, c, Class)
          /\ IsUnique(c) /\ c \notin removed => IsAmong(c, store.registry)
      BY <1>2, <2>2, <3>1 DEF RegistryInv
    <3>. QED  BY <1>15, <3>2 DEF Keeps
  <2>. QED  BY <2>3, <2>4
<1>. QED  BY <1>8, <1>11, <1>12, <1>15, <1>19, <1>20 DEF LoadInv

\* The places that a selection has its elements from are different ones.
ArePlaces(g, s, I, t) ==
    /\ \A k \in 1 .. Len(t) : g[k] \in 1 .. Len(s) /\ g[k] \in I /\ t[k] = s[g[k]]
    /\ \A j, k \in 1 .. Len(t) : g[j] = g[k] => j = k
    /\ \A i \in 1 .. Len(s) : i \in I => \E k \in 1 .. Len(t) : g[k] = i

LEMMA PlacesOf ==
    ASSUME NEW S, NEW s \in Seq(S), NEW I, NEW t, t = Select(s, I)
    PROVE  t \in Seq(S) /\ \E g : ArePlaces(g, s, I, t)
<1>1. t \in Seq(S)
  BY SelectPlaces
<1>2. PICK M, L : M = 1 .. Len(s) /\ L = 1 .. Len(t) /\ L \subseteq Nat /\ M \subseteq Nat
  BY <1>1
<1>3. PICK g \in [L -> M \cap I] :
        /\ \A k \in L : t[k] = s[g[k]]
        /\ \A j, k \in L : j < k => g[j] < g[k]
        /\ \A i \in M \cap I : \E k \in L : g[k] = i
  BY <1>2, SelectPlaces
<1>4. \A k \in L : g[k] \in M /\ g[k] \in I
  OBVIOUS
<1>5. \A j, k \in L : g[j] = g[k] => j = k
  <2>1. SUFFICES ASSUME NEW j \in L, NEW k \in L, j # k PROVE g[j] # g[k]
    OBVIOUS
  <2>2. g[j] \in Nat /\ g[k] \in Nat /\ j \in Nat /\ k \in Nat
    BY <1>2, <1>4
  <2>3. CASE j < k
    BY <1>3, <2>2, <2>3
  <2>4. CASE k < j
    BY <1>3, <2>2, <2>4
  <2>. QED  BY <2>1, <2>2, <2>3, <2>4
<1>6. ArePlaces(g, s, I, t)
  <2>1. 1 .. Len(t) = L /\ 1 .. Len(s) = M
    BY <1>2
  <2>. QED  BY <1>3, <1>4, <1>5, <2>1 DEF ArePlaces
<1>. QED  BY <1>1, <1>6

LEMMA DisableKeeps ==
    ASSUME LoadInv, NEW x \in Classes, Disable(x)
    PROVE  LoadInv'
<1>1. /\ program' = program /\ applied' = applied /\ removed' = removed \cup {x}
      /\ store' = Unregistered(store, x)
  BY DEF Disable
<1>2. LoadTypeOK /\ BasesAreApplied /\ StoreOk(store, Started) /\ LinksInv /\ RegistryInv
  BY DEF LoadInv
<1>3. LoadTypeOK' /\ BasesAreApplied' /\ Started' = Started
  BY <1>1, <1>2 DEF LoadTypeOK, BasesAreApplied, Started, IsApplied
<1>0. PICK s : s = store
  OBVIOUS
<1>4. PICK q \in Seq(Classes), n \in Nat :
        s = store /\ q = s.registry /\ n = Len(q) /\ DOMAIN q = 1 .. n
  <2>1. s.registry \in Seq(Classes)
    BY <1>0, <1>2 DEF StoreOk
  <2>. QED  BY <1>0, <2>1
<1>. DEFINE I == {i \in 1 .. n : ~SameName(x, q[i])}
<1>5. PICK r : r = Select(q, I)
  OBVIOUS
<1>6. store' = [lists |-> s.lists, metadata |-> s.metadata, registry |-> r]
  <2>1. s = [lists |-> s.lists, metadata |-> s.metadata, registry |-> s.registry]
    BY <1>2, <1>4 DEF StoreOk
  <2>2. store' = [s EXCEPT !.registry = r]
    BY <1>1, <1>4, <1>5 DEF Unregistered
  <2>. QED  BY <2>1, <2>2
<1>7. \A i \in 1 .. n : i \in I <=> ~SameName(x, q[i])
  OBVIOUS
<1>. HIDE DEF I
<1>8. r \in Seq(Classes)
  BY <1>4, <1>5, PlacesOf
<1>9. PICK m \in Nat : m = Len(r)
  BY <1>8
<1>p10. PICK g : ArePlaces(g, q, I, r)
  BY <1>5, PlacesOf
<1>10. /\ \A k \in 1 .. m : g[k] \in 1 .. n /\ r[k] = q[g[k]]
       /\ \A j, k \in 1 .. m : g[j] = g[k] => j = k
       /\ \A i \in 1 .. n : i \in I => \E k \in 1 .. m : g[k] = i
  BY <1>4, <1>9, <1>p10 DEF ArePlaces
<1>11. NamesDiffer(r)
  <2>1. SUFFICES ASSUME NEW j \in 1 .. m, NEW k \in 1 .. m, SameName(r[j], r[k]) PROVE j = k
    BY <1>9 DEF NamesDiffer
  <2>2. g[j] \in 1 .. n /\ g[k] \in 1 .. n /\ r[j] = q[g[j]] /\ r[k] = q[g[k]]
    BY <1>10
  <2>3. g[j] = g[k]
    BY <1>2, <1>4, <2>1, <2>2 DEF RegistryInv, NamesDiffer
  <2>. QED  BY <1>10, <2>2, <2>3
<1>12. ASSUME NEW c \in Classes, IsUnique(c), c \notin removed', IsAmong(c, q) PROVE IsAmong(c, r)
  <2>1. PICK i \in 1 .. n : q[i] = c
    BY <1>4, <1>12 DEF IsAmong
  <2>2. ~SameName(x, c)
    BY <1>1, <1>12 DEF IsUnique, SameName
  <2>3. PICK k \in 1 .. m : g[k] = i
    BY <1>7, <1>10, <2>1, <2>2
  <2>. QED  BY <1>9, <1>10, <2>1, <2>3 DEF IsAmong
<1>13. PICK t : t = store'
  OBVIOUS
<1>14. /\ StoreOk(t, Started) /\ t.registry = r
       /\ \A k \in ListKeys, p \in Members : KeepsList(k, p) => AsBefore(s, t, k, p)
       /\ \A k, y, p : HasOwn(s, k, y, p) => HasOwn(t, k, y, p)
  <2>1. StoreOk(s, Started) /\ t = [lists |-> s.lists, metadata |-> s.metadata, registry |-> r]
    BY <1>2, <1>4, <1>6, <1>13
  <2>. QED  BY <1>8, <2>1, RegisterStep
<1>15. StoreOk(store, Started)'
  BY <1>3, <1>13, <1>14
<1>16. LinksInv'
  <2>1. SUFFICES ASSUME NEW c \in Classes, NEW key \in CollectingKeys, NEW p \in Members, KeepsList(key, p)
        PROVE  Linked(store', c, key, p) = Inherited(c, Pushes(key, p))'
    BY DEF LinksInv
  <2>2. Linked(store', c, key, p) = Linked(store, c, key, p)
    BY <1>4, <1>13, <1>14, <2>1 DEF AsBefore, ListKeys
  <2>3. Linked(store, c, key, p) = Inherited(c, Pushes(key, p))
    BY <1>2, <2>1 DEF LinksInv
  <2>4. Inherited(c, Pushes(key, p))' = Inherited(c, Pushes(key, p))
    BY <1>1, InheritedIs
  <2>. QED  BY <2>2, <2>3, <2>4
<1>17. RegistryInv'
  <2>1. store'.registry = r /\ store.registry = q
    BY <1>4, <1>13, <1>14
  <2>2. SUFFICES ASSUME NEW c \in Classes, NEW i \in 1 .. applied[c], Effects(program[c][i])[1] = Registers
        PROVE  /\ \A j \in 2 .. Len(Effects(program[c][i])) : HasOwn(store', Effects(program[c][i])[j].key, c, Class)
               /\ IsUnique(c) /\ c \notin removed' => IsAmong(c, r)
    BY <1>1, <1>11, <2>1 DEF RegistryInv
  <2>3. /\ \A j \in 2 .. Len(Effects(program[c][i])) : HasOwn(store, Effects(program[c][i])[j].key, c, Class)
        /\ IsUnique(c) /\ c \notin removed => IsAmong(c, q)
    BY <1>2, <2>1, <2>2 DEF RegistryInv
  <2>4. c \notin removed' => c \notin removed
    BY <1>1
  <2>. QED  BY <1>4, <1>12, <1>13, <1>14, <2>3, <2>4
<1>. QED  BY <1>3, <1>15, <1>16, <1>17 DEF LoadInv

LEMMA LoadNextOk == LoadInv /\ [LoadNext]_loadVars => LoadInv'
<1>. SUFFICES ASSUME LoadInv, [LoadNext]_loadVars PROVE LoadInv'
  OBVIOUS
<1>1. ASSUME NEW x \in Classes, Apply(x) PROVE LoadInv'
  BY <1>1, ApplyKeeps
<1>2. ASSUME NEW x \in Classes, Disable(x) PROVE LoadInv'
  BY <1>2, DisableKeeps
<1>3. CASE UNCHANGED loadVars
  <2>. USE <1>3 DEF loadVars
  <2>1. LoadTypeOK' /\ BasesAreApplied' /\ StoreOk(store, Started)' /\ RegistryInv'
    <3>1. LoadTypeOK' /\ BasesAreApplied' /\ Started' = Started
      BY DEF LoadInv, LoadTypeOK, BasesAreApplied, Started, IsApplied
    <3>2. RegistryInv'
      BY DEF LoadInv, RegistryInv
    <3>. QED  BY <3>1, <3>2 DEF LoadInv
  <2>2. LinksInv'
    <3>1. \A c \in Classes : \A e : Inherited(c, e)' = Inherited(c, e)
      BY InheritedIs
    <3>. QED  BY <3>1 DEF LoadInv, LinksInv
  <2>. QED  BY <2>1, <2>2 DEF LoadInv
<1>. QED  BY <1>1, <1>2, <1>3 DEF LoadNext

LEMMA ListsFollow ==
    ASSUME LoadInv
    PROVE  ListsAreKept
<1>1. SUFFICES ASSUME NEW c \in Classes, NEW i \in DOMAIN Chain[c], NEW effect \in PushedTo(Chain[c][i])
      PROVE  /\ HasList(c, effect.key, effect.property)
             /\ Found(c, effect.key, effect.property) = Inherited(c, effect)
  BY DEF ListsAreKept
<1>2. LoadTypeOK /\ StoreOk(store, Started) /\ LinksInv
  BY DEF LoadInv
<1>3. PICK n \in Nat \ {0}, y \in Classes : n = Len(Chain[c]) /\ i \in 1 .. n /\ y = Chain[c][i]
  BY ChainTypes
<1>4. PICK ds \in Seq(Declaration), a \in Nat : ds = program[y] /\ a = applied[y] /\ a <= Len(ds)
  BY <1>2, ProgramTypes
<1>5. PICK m \in 1 .. a : effect \in {e \in {Effects(ds[m])[j] : j \in DOMAIN Effects(ds[m])} : e.effect = "push"}
  <2>1. effect \in PushedTo(y)
    BY <1>1, <1>3
  <2>2. effect \in UNION {{e \in {Effects(program[y][m])[j] : j \in DOMAIN Effects(program[y][m])} : e.effect = "push"} :
                         m \in 1 .. applied[y]}
    BY <2>1 DEF PushedTo
  <2>3. \E m \in 1 .. applied[y] :
            effect \in {e \in {Effects(program[y][m])[j] : j \in DOMAIN Effects(program[y][m])} : e.effect = "push"}
    BY <2>2
  <2>. QED  BY <1>4, <2>3
<1>6. PICK d \in Declaration : d = ds[m]
  BY <1>4
<1>7. PICK j \in DOMAIN Effects(d) : effect = Effects(d)[j] /\ effect.effect = "push"
  BY <1>5, <1>6
<1>8. Performs(d, effect)
  BY <1>7 DEF Performs
<1>9. effect \in Pushing
  <2>1. effect \in AllEffects
    BY <1>7, DecoratorsOk DEF EffectsOk
  <2>. QED  BY <1>7, <2>1, EffectKinds DEF AllEffects, Listing
<1>10. PICK key \in CollectingKeys, p \in Members :
        key = effect.key /\ p = effect.property /\ effect = Pushes(key, p) /\ KeepsList(key, p)
  BY <1>9, EffectKinds
<1>11. Linked(store, c, key, p) = Inherited(c, effect)
  BY <1>2, <1>10 DEF LinksInv
<1>12. Inherited(c, effect) # <<>>
  <2>1. PICK f : f = AllCollected(program, applied, effect)
    OBVIOUS
  <2>2. f \in [Classes -> Seq(DeclarationEntries)]
    BY <1>2, <2>1, AllCollectedIs
  <2>3. PICK s : s = Reversed(f, c)
    OBVIOUS
  <2>r. IsReversed(s, f, c)
    BY <2>2, <2>3, ReversedIs
  <2>o. PICK o \in 1 .. n : o = n + 1 - i /\ n + 1 - o = i
    <3>1. n \in Nat /\ i \in Nat /\ 1 <= i /\ i <= n
      BY <1>3
    <3>2. n + 1 - i \in 1 .. n /\ n + 1 - (n + 1 - i) = i
      BY <3>1
    <3>. QED  BY <3>2
  <2>p. s \in Seq(Seq(DeclarationEntries)) /\ Len(s) = n /\ s[o] = f[Chain[c][n + 1 - o]]
    BY <1>3, <2>r DEF IsReversed
  <2>q. s[o] = f[y] /\ o \in DOMAIN s
    BY <1>3, <2>o, <2>p
  <2>4. f[y] = CollectedOf(ds, a, y, effect)
    BY <1>4, <2>1 DEF AllCollected
  <2>5. DOMAIN f[y] # {}
    <3>1. DOMAIN CollectedOf(ds, a, y, effect) # {}
      BY <1>4, <1>6, <1>8, CollectedIs
    <3>. QED  BY <2>4, <3>1
  <2>6. PICK k : k \in DOMAIN f[y]
    BY <2>5
  <2>7. PICK flat : flat = Flat(s)
    OBVIOUS
  <2>8. flat \in Seq(DeclarationEntries) /\ DOMAIN flat # {}
    BY <2>6, <2>7, <2>p, <2>q, FlatHas
  <2>9. flat # <<>>
    BY <2>8
  <2>. QED  BY <2>1, <2>3, <2>7, <2>9, InheritedIs
<1>13. Has(store, key, c, p)
  BY <1>11, <1>12 DEF Linked
<1>14. PICK l : Get(store, key, c, p) = Reference(l)
  <2>1. PICK k \in 1 .. Len(Chain[c]) :
            IsFirstOwner(store, key, c, p, k) /\ Get(store, key, c, p) = Owned(store, key, Chain[c][k], p)
    BY <1>13, FirstOwner
  <2>2. Chain[c][k] \in Classes /\ HasOwn(store, key, Chain[c][k], p) /\ key \in ListKeys
    BY <2>1, ChainTypes DEF IsFirstOwner, ListKeys
  <2>. QED  BY <1>2, <1>10, <2>1, <2>2 DEF StoreOk
<1>15. HasList(c, key, p)
  BY <1>13, <1>14 DEF HasList, Reference
<1>16. Found(c, key, p) = Linked(store, c, key, p)
  BY <1>13, Zenon DEF Found, Linked, OfClass
<1>. QED  BY <1>10, <1>11, <1>15, <1>16

LEMMA RolesFollow ==
    ASSUME LoadInv
    PROVE  RolesAreFound
<1>1. SUFFICES ASSUME NEW c \in Classes \ removed, \A other \in Classes \ {c} : ~SameName(c, other), NEW key \in RolesOf(c)
      PROVE  Cardinality({i \in DOMAIN GetWithMetadata(store, key) : GetWithMetadata(store, key)[i] = c}) = 1
  BY DEF RolesAreFound
<1>2. LoadTypeOK /\ StoreOk(store, Started) /\ RegistryInv
  BY DEF LoadInv
<1>3. PICK ds \in Seq(Declaration), a \in Nat : ds = program[c] /\ a = applied[c] /\ a <= Len(ds)
  BY <1>2, ProgramTypes
<1>4. PICK m \in 1 .. a : key \in LET effects == Effects(ds[m]) IN
            IF effects[1].effect = "register" THEN {effects[j].key : j \in DOMAIN effects \ {1}} ELSE {}
  BY <1>1, <1>3 DEF RolesOf
<1>5. PICK d \in Declaration : d = ds[m]
  BY <1>3
<1>d. PICK effects : effects = Effects(d)
  OBVIOUS
<1>6. effects[1].effect = "register" /\ \E j \in DOMAIN effects \ {1} : key = effects[j].key
  BY <1>4, <1>5, <1>d
<1>7. PICK l \in Nat \ {0} : l = Len(effects) /\ DOMAIN effects = 1 .. l /\ \A j \in 1 .. l : effects[j] \in AllEffects
  BY <1>d, DecoratorsOk DEF EffectsOk
<1>8. effects[1] = Registers
  <2>1. effects[1] \in AllEffects
    BY <1>7
  <2>. QED  BY <1>6, <2>1, EffectKinds DEF AllEffects, Listing
<1>9. HasOwn(store, key, c, Class) /\ IsAmong(c, store.registry)
  <2>1. m \in 1 .. applied[c] /\ Effects(program[c][m]) = effects
    BY <1>3, <1>5, <1>d
  <2>2. \A j \in 2 .. l : HasOwn(store, effects[j].key, c, Class)
    BY <1>2, <1>7, <1>8, <2>1 DEF RegistryInv
  <2>3. PICK j \in 2 .. l : key = effects[j].key
    BY <1>6, <1>7
  <2>4. IsUnique(c)
    BY <1>1 DEF IsUnique
  <2>. QED  BY <1>2, <1>8, <2>1, <2>2, <2>3, <2>4 DEF RegistryInv
<1>10. Has(store, key, c, Class)
  <2>1. 1 \in 1 .. Len(Chain[c]) /\ Chain[c][1] = c
    BY ChainTypes
  <2>. QED  BY <1>9, <2>1, HasIs
<1>11. PICK q \in Seq(Classes), n \in Nat : q = store.registry /\ n = Len(q) /\ DOMAIN q = 1 .. n
  BY <1>2 DEF StoreOk
<1>. DEFINE I == {i \in 1 .. n : Has(store, key, q[i], Class)}
<1>12. PICK r : r = Select(q, I)
  OBVIOUS
<1>13. GetWithMetadata(store, key) = r
  BY <1>11, <1>12 DEF GetWithMetadata
<1>14. \A i \in 1 .. n : q[i] = c => i \in I
  BY <1>10
<1>. HIDE DEF I
<1>15. r \in Seq(Classes)
  BY <1>12, PlacesOf
<1>16. PICK h \in Nat : h = Len(r) /\ DOMAIN r = 1 .. h
  BY <1>15
<1>p17. PICK g : ArePlaces(g, q, I, r)
  BY <1>12, PlacesOf
<1>17. /\ \A k \in 1 .. h : g[k] \in 1 .. n /\ r[k] = q[g[k]]
       /\ \A j, k \in 1 .. h : g[j] = g[k] => j = k
       /\ \A i \in 1 .. n : i \in I => \E k \in 1 .. h : g[k] = i
  BY <1>11, <1>16, <1>p17 DEF ArePlaces
<1>18. PICK o \in 1 .. n : q[o] = c
  BY <1>9, <1>11 DEF IsAmong
<1>19. PICK k \in 1 .. h : g[k] = o /\ r[k] = c
  <2>1. o \in I
    BY <1>14, <1>18
  <2>2. PICK k \in 1 .. h : g[k] = o
    BY <1>17, <2>1
  <2>3. r[k] = q[g[k]]
    BY <1>17
  <2>. QED  BY <1>18, <2>2, <2>3
<1>20. ASSUME NEW j \in 1 .. h, r[j] = c PROVE j = k
  <2>1. g[j] \in 1 .. n /\ q[g[j]] = c
    BY <1>17, <1>20
  <2>2. g[j] = o
    BY <1>2, <1>11, <1>18, <2>1 DEF RegistryInv, NamesDiffer, SameName
  <2>. QED  BY <1>17, <1>19, <2>2
<1>21. {j \in DOMAIN r : r[j] = c} = {k}
  BY <1>16, <1>19, <1>20
<1>. QED  BY <1>13, <1>21, FS_Singleton

\* DeclarationsAreKept of every set of classes, whatever they extend and in
\* whatever order their modules are loaded and their decorators applied
\* (MetadataStatic, ClassRegistry and the decorators of every package).
THEOREM DeclarationsAreKeptCorrect == LoadSpec => []DeclarationsAreKept
<1>1. LoadInv => DeclarationsAreKept
  BY ListsFollow, RolesFollow DEF DeclarationsAreKept
<1>. QED  BY <1>1, LoadInitOk, LoadNextOk, PTL DEF LoadSpec

-----------------------------------------------------------------------------
(* Derived queries: the engines.                                           *)

\* What the operators are, one by one.
LEMMA OperatorCases ==
    ASSUME NEW o \in Operators
    PROVE  \/ o.name \in {"IsNull", "IsNotNull"} /\ o.arity = 0
           \/ o.name \in {"GreaterThanEqual", "LessThanEqual", "GreaterThan", "LessThan", "In", "Like", "Equal"} /\ o.arity = 1
           \/ o.name = "Between" /\ o.arity = 2
BY DEF Operators, OPERATORS, Operator, Equal

LEMMA SameWithoutArguments ==
    ASSUME NEW v, NEW a, NEW name \in {"IsNull", "IsNotNull"}
    PROVE  ToSql(name, v, a) <=> ToMongoPredicate(name, v, Nth(a, 1), Nth(a, 2))
<1>1. CASE name = "IsNull"
  BY <1>1 DEF ToSql, ToMongoPredicate
<1>2. CASE name = "IsNotNull"
  BY <1>2 DEF ToSql, ToMongoPredicate
<1>. QED  BY <1>1, <1>2

LEMMA SameWithOne ==
    ASSUME NEW v \in Nat \cup {Null}, NEW a \in Seq(Nat), Len(a) = 1,
           NEW name \in {"GreaterThanEqual", "LessThanEqual", "GreaterThan", "LessThan", "In", "Like", "Equal"}
    PROVE  ToSql(name, v, a) <=> ToMongoPredicate(name, v, Nth(a, 1), Nth(a, 2))
<1>1. PICK x \in Nat : x = a[1]
  OBVIOUS
<1>2. Nth(a, 1) = x
  BY <1>1 DEF Nth
<1>3. (\A i \in DOMAIN a : a[i] # Null) /\ x # Null
  BY <1>1, QueriesAssumptions
<1>4. v # Null => v \in Nat
  OBVIOUS
<1>5. v = Null => v # x
  BY <1>3
<1>. DEFINE known == v # Null
<1>6. CASE name = "GreaterThanEqual"
  <2>1. ToSql(name, v, a) <=> known /\ v >= x
    BY <1>1, <1>3, <1>6 DEF ToSql
  <2>2. ToMongoPredicate(name, v, x, Nth(a, 2)) <=> (v = x \/ (known /\ v >= x))
    BY <1>3, <1>6 DEF ToMongoPredicate
  <2>3. v = x => known /\ v >= x
    BY <1>3
  <2>. QED  BY <1>2, <2>1, <2>2, <2>3
<1>7. CASE name = "LessThanEqual"
  <2>1. ToSql(name, v, a) <=> known /\ v <= x
    BY <1>1, <1>3, <1>7 DEF ToSql
  <2>2. ToMongoPredicate(name, v, x, Nth(a, 2)) <=> (v = x \/ (known /\ v <= x))
    BY <1>3, <1>7 DEF ToMongoPredicate
  <2>3. v = x => known /\ v <= x
    BY <1>3
  <2>. QED  BY <1>2, <2>1, <2>2, <2>3
<1>8. CASE name = "GreaterThan"
  BY <1>1, <1>2, <1>3, <1>8 DEF ToSql, ToMongoPredicate
<1>9. CASE name = "LessThan"
  BY <1>1, <1>2, <1>3, <1>9 DEF ToSql, ToMongoPredicate
<1>10. CASE name = "In"
  <2>1. ToSql(name, v, a) <=> known /\ IsListed(v, x)
    BY <1>1, <1>3, <1>10 DEF ToSql
  <2>2. ToMongoPredicate(name, v, x, Nth(a, 2)) <=> IsListed(v, x)
    BY <1>3, <1>10 DEF ToMongoPredicate
  <2>3. IsListed(v, x) => known
    BY QueriesAssumptions DEF IsListed
  <2>. QED  BY <1>2, <2>1, <2>2, <2>3
<1>11. CASE name = "Like"
  BY <1>1, <1>2, <1>3, <1>11 DEF ToSql, ToMongoPredicate
<1>12. CASE name = "Equal"
  BY <1>1, <1>2, <1>3, <1>5, <1>12 DEF ToSql, ToMongoPredicate
<1>. QED  BY <1>6, <1>7, <1>8, <1>9, <1>10, <1>11, <1>12

LEMMA SameWithTwo ==
    ASSUME NEW v \in Nat \cup {Null}, NEW a \in Seq(Nat), Len(a) = 2
    PROVE  ToSql("Between", v, a) <=> ToMongoPredicate("Between", v, Nth(a, 1), Nth(a, 2))
<1>1. PICK x, y \in Nat : x = a[1] /\ y = a[2]
  <2>1. DOMAIN a = 1 .. 2 /\ a \in [1 .. Len(a) -> Nat]
    BY LenProperties
  <2>2. 1 \in DOMAIN a /\ 2 \in DOMAIN a
    BY <2>1
  <2>. QED  BY <2>1, <2>2
<1>2. Nth(a, 1) = x /\ Nth(a, 2) = y
  BY <1>1 DEF Nth
<1>3. (\A i \in DOMAIN a : a[i] # Null) /\ x # Null /\ y # Null
  BY <1>1, QueriesAssumptions
<1>4. ToSql("Between", v, a) <=> v # Null /\ x <= v /\ v <= y
  BY <1>1, <1>3 DEF ToSql
<1>5. ToMongoPredicate("Between", v, x, y) <=>
        /\ v = x \/ (v # Null /\ v >= x)
        /\ v = y \/ (v # Null /\ v <= y)
  BY <1>3 DEF ToMongoPredicate
<1>6. CASE v = Null
  BY <1>2, <1>3, <1>4, <1>5, <1>6
<1>7. CASE v \in Nat
  <2>1. v # Null
    BY <1>7, QueriesAssumptions
  <2>2. (v = x \/ v >= x) <=> x <= v
    BY <1>7
  <2>3. (v = y \/ v <= y) <=> v <= y
    BY <1>7
  <2>. QED  BY <1>2, <1>4, <1>5, <2>1, <2>2, <2>3
<1>. QED  BY <1>6, <1>7

\* For arguments that are not null both engines select the same rows.
LEMMA SamePredicate ==
    ASSUME NEW o \in Operators, NEW v \in Nat \cup {Null}, NEW a \in Seq(Nat), Len(a) = o.arity
    PROVE  ToSql(o.name, v, a) <=> ToMongoPredicate(o.name, v, Nth(a, 1), Nth(a, 2))
BY OperatorCases, SameWithoutArguments, SameWithOne, SameWithTwo

-----------------------------------------------------------------------------
(* Derived queries: which arguments a predicate takes.                     *)

LEMMA FiniteFamily ==
    ASSUME NEW I, IsFiniteSet(I), NEW f, \A i \in I : IsFiniteSet(f[i]),
           NEW U, \A x \in U : \E i \in I : x \in f[i]
    PROVE  IsFiniteSet(U)
<1>. DEFINE S == {f[i] : i \in I}
            g == [i \in I |-> f[i]]
<1>1. g \in Surjection(I, S)
  BY DEF Surjection
<1>. HIDE DEF g
<1>2. IsFiniteSet(S)
  <2>. HIDE DEF S
  <2>. QED  BY <1>1, FS_Surjection
<1>3. \A s \in S : IsFiniteSet(s)
  OBVIOUS
<1>4. U \subseteq UNION S
  OBVIOUS
<1>. HIDE DEF S
<1>5. IsFiniteSet(UNION S)
  BY <1>2, <1>3, FS_UNION
<1>. QED  BY <1>4, <1>5, FS_Subset

\* n arguments for the predicate at a place.
Own(at, n) == {<<at, k>> : k \in 1 .. n}

LEMMA OwnCount ==
    ASSUME NEW at, NEW n \in Nat
    PROVE  IsFiniteSet(Own(at, n)) /\ Cardinality(Own(at, n)) = n
<1>. DEFINE f == [k \in 1 .. n |-> <<at, k>>]
<1>1. f \in Bijection(1 .. n, Own(at, n))
  <2>1. f \in [1 .. n -> Own(at, n)]
    BY DEF Own
  <2>2. \A i, j \in 1 .. n : f[i] = f[j] => i = j
    OBVIOUS
  <2>3. \A x \in Own(at, n) : \E k \in 1 .. n : f[k] = x
    BY DEF Own
  <2>. QED  BY <2>1, <2>2, <2>3, Zenon DEF Bijection, Injection, IsInjective, Surjection
<1>. HIDE DEF f
<1>2. ExistsBijection(1 .. n, Own(at, n))
  BY <1>1 DEF ExistsBijection
<1>3. IsFiniteSet(1 .. n) /\ Cardinality(1 .. n) = n
  BY FS_Interval
<1>. QED  BY <1>2, <1>3, FS_Bijection

LEMMA ArityType ==
    ASSUME NEW groups \in Seq(Seq(Predicate)), NEW at \in PredicatePlaces(groups)
    PROVE  /\ at = <<at[1], at[2]>> /\ at[1] \in DOMAIN groups /\ at[2] \in DOMAIN groups[at[1]]
           /\ groups[at[1]][at[2]] \in Predicate /\ groups[at[1]][at[2]].operator \in Operators
           /\ groups[at[1]][at[2]].operator.arity \in Nat
<1>0. PICK g \in DOMAIN groups : \E p \in DOMAIN groups[g] : at = <<g, p>>
  BY DEF PredicatePlaces
<1>1. PICK p \in DOMAIN groups[g] : at = <<g, p>>
  BY <1>0
<1>2. groups[g] \in Seq(Predicate)
  OBVIOUS
<1>3. groups[g][p] \in Predicate
  BY <1>2
<1>4. groups[g][p].operator \in Operators
  BY <1>3 DEF Predicate
<1>5. groups[g][p].operator.arity \in Nat
  <2>1. PICK o \in Operators : o = groups[g][p].operator
    BY <1>4
  <2>2. o.arity \in {0, 1, 2}
    BY OperatorCases
  <2>. QED  BY <2>1, <2>2
<1>. QED  BY <1>1, <1>3, <1>4, <1>5

LEMMA TakenIsFinite ==
    ASSUME NEW groups \in Seq(Seq(Predicate))
    PROVE  IsFiniteSet(Taken(groups, PredicatePlaces(groups)))
<1>1. IsFiniteSet(PredicatePlaces(groups))
  <2>. DEFINE f == [g \in DOMAIN groups |-> {<<g, p>> : p \in DOMAIN groups[g]}]
  <2>1. IsFiniteSet(DOMAIN groups)
    BY FS_Interval
  <2>2. ASSUME NEW g \in DOMAIN groups PROVE IsFiniteSet(f[g])
    <3>0. groups[g] \in Seq(Predicate)
      OBVIOUS
    <3>1. PICK n \in Nat : DOMAIN groups[g] = 1 .. n
      BY <3>0
    <3>2. f[g] = Own(g, n)
      BY <3>1 DEF Own
    <3>. QED  BY <3>2, OwnCount
  <2>3. \A x \in PredicatePlaces(groups) : \E g \in DOMAIN groups : x \in f[g]
    BY DEF PredicatePlaces
  <2>. HIDE DEF f
  <2>. QED  BY <2>1, <2>2, <2>3, FiniteFamily
<1>. DEFINE P == PredicatePlaces(groups)
            h == [at \in P |-> Own(at, groups[at[1]][at[2]].operator.arity)]
<1>2. ASSUME NEW at \in P PROVE IsFiniteSet(h[at])
  <2>1. PICK n \in Nat : n = groups[at[1]][at[2]].operator.arity
    BY ArityType
  <2>2. h[at] = Own(at, n)
    BY <2>1
  <2>. QED  BY <2>2, OwnCount
<1>3. \A x \in Taken(groups, P) : \E at \in P : x \in h[at]
  BY DEF Taken, Own
<1>. HIDE DEF h
<1>4. IsFiniteSet(Taken(groups, P))
  BY <1>1, <1>2, <1>3, FiniteFamily
<1>. QED  BY <1>4

\* What a predicate takes is left for it, by those before it and by the whole.
LEMMA ArgumentsSuffice ==
    ASSUME NEW groups \in Seq(Seq(Predicate)), NEW g \in DOMAIN groups, NEW p \in DOMAIN groups[g]
    PROVE  /\ TakenBefore(groups, g, p) \in Nat /\ Arity(groups) \in Nat
           /\ groups[g][p].operator \in Operators /\ groups[g][p].operator.arity \in Nat
           /\ TakenBefore(groups, g, p) + groups[g][p].operator.arity <= Arity(groups)
<1>. DEFINE P == PredicatePlaces(groups)
            at == <<g, p>>
            n == groups[g][p].operator.arity
            B == {b \in P : b[1] < g \/ (b[1] = g /\ b[2] < p)}
<1>1. at \in P
  BY DEF PredicatePlaces
<1>2. n \in Nat /\ groups[g][p].operator \in Operators
  <2>1. /\ groups[at[1]][at[2]].operator \in Operators
        /\ groups[at[1]][at[2]].operator.arity \in Nat
    BY <1>1, ArityType, Zenon
  <2>. QED  BY <2>1
<1>3. Taken(groups, B) \subseteq Taken(groups, P)
  BY DEF Taken
<1>4. Own(at, n) \subseteq Taken(groups, P)
  BY <1>1 DEF Taken, Own
<1>5. at \notin B
  <2>1. g \in Nat /\ p \in Nat
    OBVIOUS
  <2>. QED  BY <2>1
<1>6. Taken(groups, B) \cap Own(at, n) = {}
  BY <1>5 DEF Taken, Own
<1>7. IsFiniteSet(Taken(groups, P))
  BY TakenIsFinite
<1>8. TakenBefore(groups, g, p) = Cardinality(Taken(groups, B)) /\ Arity(groups) = Cardinality(Taken(groups, P))
  BY DEF TakenBefore, Arity
<1>. HIDE DEF P, at, n, B
<1>9. IsFiniteSet(Taken(groups, B))
  BY <1>3, <1>7, FS_Subset
<1>10. IsFiniteSet(Own(at, n)) /\ Cardinality(Own(at, n)) = n
  BY <1>2, OwnCount
<1>11. Cardinality(Taken(groups, B) \cup Own(at, n)) = Cardinality(Taken(groups, B)) + n
  <2>1. Cardinality({}) = 0
    BY FS_EmptySet
  <2>2. PICK X, Y : X = Taken(groups, B) /\ Y = Own(at, n)
    BY Zenon
  <2>3. IsFiniteSet(X) /\ IsFiniteSet(Y) /\ Cardinality(Y) = n /\ X \cap Y = {}
    BY <1>6, <1>9, <1>10, <2>2, Zenon
  <2>4. Cardinality(X) \in Nat
    BY <2>3, FS_CardinalityType
  <2>5. Cardinality(X \cap Y) = 0
    BY <2>1, <2>3
  <2>6. Cardinality(X \cup Y) = Cardinality(X) + Cardinality(Y) - Cardinality(X \cap Y)
    BY <2>3, FS_Union
  <2>7. Cardinality(X \cup Y) = Cardinality(X) + n
    BY <1>2, <2>3, <2>4, <2>5, <2>6
  <2>. QED  BY <2>2, <2>7, Zenon
<1>12. Taken(groups, B) \cup Own(at, n) \subseteq Taken(groups, P)
  BY <1>3, <1>4
<1>13. Cardinality(Taken(groups, B) \cup Own(at, n)) <= Cardinality(Taken(groups, P))
  BY <1>7, <1>12, FS_Subset
<1>14. Cardinality(Taken(groups, B)) \in Nat /\ Cardinality(Taken(groups, P)) \in Nat
  BY <1>7, <1>9, FS_CardinalityType
<1>. QED  BY <1>2, <1>8, <1>11, <1>13, <1>14 DEF n

LEMMA SameRows ==
    ASSUME NEW groups \in Seq(Seq(Predicate)), NEW args \in Seq(Nat \cup {Null}), Len(args) = Arity(groups),
           \A i \in DOMAIN args : args[i] # Null,
           \A row \in Rows, g \in DOMAIN groups : \A p \in DOMAIN groups[g] : row[groups[g][p].path] \in Nat \cup {Null}
    PROVE  ApplyPredicates(groups, args) = BuildFilter(groups, args)
<1>. DEFINE bound == WithArguments(groups, args)
<1>1. ASSUME NEW row \in Rows, NEW g \in DOMAIN groups, NEW p \in DOMAIN groups[g]
      PROVE  ToSql(bound[g][p].operator, row[bound[g][p].path], bound[g][p].args)
             <=> ToMongoPredicate(bound[g][p].operator, row[bound[g][p].path],
                                  Nth(bound[g][p].args, 1), Nth(bound[g][p].args, 2))
  <2>1. PICK i, n \in Nat : i = TakenBefore(groups, g, p) /\ n = groups[g][p].operator.arity
    BY ArgumentsSuffice
  <2>0. PICK m \in Nat : m = Len(args) /\ DOMAIN args = 1 .. m
    OBVIOUS
  <2>2. i + n <= m
    BY <2>0, <2>1, ArgumentsSuffice
  <2>3. \A k \in i + 1 .. i + n : args[k] \in Nat
    <3>1. \A k \in i + 1 .. i + n : k \in 1 .. m
      BY <2>2
    <3>2. \A k \in 1 .. m : args[k] \in Nat \cup {Null} /\ args[k] # Null
      BY <2>0
    <3>. QED  BY <3>1, <3>2
  <2>4. PICK a \in Seq(Nat) : a = SubSeq(args, i + 1, i + n) /\ Len(a) = n
    <3>1. /\ Len(SubSeq(args, i + 1, i + n)) = IF i + 1 <= i + n THEN i + n - (i + 1) + 1 ELSE 0
          /\ SubSeq(args, i + 1, i + n) \in Seq(Nat)
      BY <2>3, SubSeqProperties
    <3>2. Len(SubSeq(args, i + 1, i + n)) = n
      BY <3>1
    <3>. QED  BY <3>1, <3>2
  <2>5. bound[g][p] = [path |-> groups[g][p].path, operator |-> groups[g][p].operator.name, args |-> a]
    BY <2>1, <2>4 DEF WithArguments
  <2>6. PICK v \in Nat \cup {Null} : v = row[groups[g][p].path]
    OBVIOUS
  <2>7. PICK o \in Operators : o = groups[g][p].operator
    BY ArgumentsSuffice
  <2>8. ToSql(o.name, v, a) <=> ToMongoPredicate(o.name, v, Nth(a, 1), Nth(a, 2))
    BY <2>1, <2>4, <2>7, SamePredicate
  <2>. HIDE DEF bound
  <2>9. bound[g][p].operator = o.name /\ row[bound[g][p].path] = v /\ bound[g][p].args = a
    BY <2>5, <2>6, <2>7
  <2>. QED  BY <2>8, <2>9, Zenon
<1>2. DOMAIN bound = DOMAIN groups /\ \A g \in DOMAIN groups : DOMAIN bound[g] = DOMAIN groups[g]
  BY DEF WithArguments
<1>. HIDE DEF bound
<1>3. ASSUME NEW row \in Rows
      PROVE  (\E g \in DOMAIN bound : \A p \in DOMAIN bound[g] :
                ToSql(bound[g][p].operator, row[bound[g][p].path], bound[g][p].args))
             <=> (\E g \in DOMAIN bound : \A p \in DOMAIN bound[g] :
                    ToMongoPredicate(bound[g][p].operator, row[bound[g][p].path],
                                     Nth(bound[g][p].args, 1), Nth(bound[g][p].args, 2)))
  BY <1>1, <1>2, Zenon
<1>. QED  BY <1>3, Zenon DEF ApplyPredicates, BuildFilter, bound

-----------------------------------------------------------------------------
(* Derived queries: what the parser takes a segment for.                   *)

\* The fragments of names: the provers do not know of a literal that it is a string.
Words == STRING \cup {"Or", "And", "der", "By", "Asc", "Desc", "Is", "Not", "Null", "Greater", "Less", "Than",
                      "Equal", "Between", "In", "Like"}

LEMMA SuffixCases ==
    ASSUME NEW o \in Operators
    PROVE  \/ o = Equal /\ o.suffix = <<>>
           \/ /\ o \in OPERATORS
              /\ o.suffix \in {<<"Is", "Not", "Null">>, <<"Is", "Null">>, <<"Greater", "Than", "Equal">>,
                               <<"Less", "Than", "Equal">>, <<"Greater", "Than">>, <<"Less", "Than">>,
                               <<"Between">>, <<"In">>, <<"Like">>}
BY DEF Operators, OPERATORS, Operator, Equal

LEMMA SuffixType ==
    ASSUME NEW o \in Operators
    PROVE  o.suffix \in Seq(Words)
<1>1. ASSUME NEW x \in Words, NEW y \in Words, NEW z \in Words
      PROVE  <<x>> \in Seq(Words) /\ <<x, y>> \in Seq(Words) /\ <<x, y, z>> \in Seq(Words)
  OBVIOUS
<1>2. /\ "Is" \in Words /\ "Not" \in Words /\ "Null" \in Words /\ "Greater" \in Words /\ "Less" \in Words
      /\ "Than" \in Words /\ "Equal" \in Words /\ "Between" \in Words /\ "In" \in Words /\ "Like" \in Words
  BY DEF Words
<1>3. <<>> \in Seq(Words)
  OBVIOUS
<1>4. /\ <<"Between">> \in Seq(Words) /\ <<"In">> \in Seq(Words) /\ <<"Like">> \in Seq(Words)
      /\ <<"Is", "Null">> \in Seq(Words) /\ <<"Greater", "Than">> \in Seq(Words) /\ <<"Less", "Than">> \in Seq(Words)
  BY <1>1, <1>2, Zenon
<1>5. /\ <<"Is", "Not", "Null">> \in Seq(Words)
      /\ <<"Greater", "Than", "Equal">> \in Seq(Words) /\ <<"Less", "Than", "Equal">> \in Seq(Words)
  BY <1>1, <1>2, Zenon
<1>6. PICK t : t = o.suffix
  OBVIOUS
<1>. QED  BY <1>3, <1>4, <1>5, <1>6, SuffixCases

LEMMA SuffixNamesOperator ==
    ASSUME NEW o \in Operators, NEW u \in Operators, o.suffix = u.suffix
    PROVE  o = u
<1>1. ASSUME NEW p \in Operators
      PROVE  \/ p.suffix = <<>> /\ p = Equal
             \/ p.suffix = <<"Is", "Not", "Null">> /\ p = Operator("IsNotNull", <<"Is", "Not", "Null">>, 0)
             \/ p.suffix = <<"Is", "Null">> /\ p = Operator("IsNull", <<"Is", "Null">>, 0)
             \/ p.suffix = <<"Greater", "Than", "Equal">> /\ p = Operator("GreaterThanEqual", <<"Greater", "Than", "Equal">>, 1)
             \/ p.suffix = <<"Less", "Than", "Equal">> /\ p = Operator("LessThanEqual", <<"Less", "Than", "Equal">>, 1)
             \/ p.suffix = <<"Greater", "Than">> /\ p = Operator("GreaterThan", <<"Greater", "Than">>, 1)
             \/ p.suffix = <<"Less", "Than">> /\ p = Operator("LessThan", <<"Less", "Than">>, 1)
             \/ p.suffix = <<"Between">> /\ p = Operator("Between", <<"Between">>, 2)
             \/ p.suffix = <<"In">> /\ p = Operator("In", <<"In">>, 1)
             \/ p.suffix = <<"Like">> /\ p = Operator("Like", <<"Like">>, 1)
  BY DEF Operators, OPERATORS, Operator, Equal
<1>. DEFINE Spelled(p, n, w) ==
                \/ n = 0 /\ p = Equal
                \/ n = 3 /\ w = "Is" /\ p = Operator("IsNotNull", <<"Is", "Not", "Null">>, 0)
                \/ n = 2 /\ w = "Is" /\ p = Operator("IsNull", <<"Is", "Null">>, 0)
                \/ n = 3 /\ w = "Greater" /\ p = Operator("GreaterThanEqual", <<"Greater", "Than", "Equal">>, 1)
                \/ n = 3 /\ w = "Less" /\ p = Operator("LessThanEqual", <<"Less", "Than", "Equal">>, 1)
                \/ n = 2 /\ w = "Greater" /\ p = Operator("GreaterThan", <<"Greater", "Than">>, 1)
                \/ n = 2 /\ w = "Less" /\ p = Operator("LessThan", <<"Less", "Than">>, 1)
                \/ n = 1 /\ w = "Between" /\ p = Operator("Between", <<"Between">>, 2)
                \/ n = 1 /\ w = "In" /\ p = Operator("In", <<"In">>, 1)
                \/ n = 1 /\ w = "Like" /\ p = Operator("Like", <<"Like">>, 1)
<1>2. ASSUME NEW p \in Operators PROVE Spelled(p, Len(p.suffix), p.suffix[1])
  <2>1. PICK t : t = p.suffix
    OBVIOUS
  <2>. QED  BY <1>1, <2>1
<1>3. PICK n, w : n = Len(o.suffix) /\ n = Len(u.suffix) /\ w = o.suffix[1] /\ w = u.suffix[1]
  OBVIOUS
<1>4. Spelled(o, n, w) /\ Spelled(u, n, w)
  <2>. HIDE DEF Spelled
  <2>. QED  BY <1>2, <1>3
<1>5. \A p, q : Spelled(p, n, w) /\ Spelled(q, n, w) => p = q
  OBVIOUS
<1>. HIDE DEF Spelled
<1>. QED  BY <1>4, <1>5

LEMMA SuffixNotEmpty ==
    ASSUME NEW u \in OPERATORS
    PROVE  u.suffix # <<>>
<1>1. PICK v : v = u.suffix
  OBVIOUS
<1>2. v \in {<<"Is", "Not", "Null">>, <<"Is", "Null">>, <<"Greater", "Than", "Equal">>, <<"Less", "Than", "Equal">>,
            <<"Greater", "Than">>, <<"Less", "Than">>, <<"Between">>, <<"In">>, <<"Like">>}
  BY <1>1 DEF OPERATORS, Operator
<1>3. Len(v) = 1 \/ Len(v) = 2 \/ Len(v) = 3
  BY <1>2
<1>4. Len(<<>>) = 0
  OBVIOUS
<1>5. Len(v) # 0
  BY <1>3
<1>. QED  BY <1>1, <1>4, <1>5, Zenon

\* No suffix ends with another: both end with the same word only when they are as long.
LEMMA SuffixesDiffer ==
    ASSUME NEW o \in Operators, NEW u \in OPERATORS, Len(u.suffix) < Len(o.suffix),
           \A k \in 1 .. Len(u.suffix) : o.suffix[Len(o.suffix) - Len(u.suffix) + k] = u.suffix[k]
    PROVE  FALSE
<1>1. PICK s, t : s = o.suffix /\ t = u.suffix
  OBVIOUS
<1>2. t # <<>> /\ u \in Operators
  <2>1. u \in Operators
    BY DEF Operators
  <2>. QED  BY <1>1, <2>1, SuffixNotEmpty
<1>. DEFINE One == {<<"Between">>, <<"In">>, <<"Like">>}
            Two == {<<"Is", "Null">>, <<"Greater", "Than">>, <<"Less", "Than">>}
            Three == {<<"Is", "Not", "Null">>, <<"Greater", "Than", "Equal">>, <<"Less", "Than", "Equal">>}
<1>3. s = <<>> \/ s \in One \/ s \in Two \/ s \in Three
  BY <1>1, SuffixCases
<1>4. t \in One \/ t \in Two \/ t \in Three
  BY <1>1, <1>2, SuffixCases
<1>5. \A x \in One : Len(x) = 1 /\ x[1] \in {"Between", "In", "Like"}
  OBVIOUS
<1>6. \A x \in Two : Len(x) = 2 /\ x[2] \in {"Null", "Than"} /\ x[1] \in {"Is", "Greater", "Less"}
  OBVIOUS
<1>7. \A x \in Three : Len(x) = 3 /\ x[3] \in {"Null", "Equal"} /\ x[2] \in {"Not", "Than"} /\ (x[3] = "Null" => x[2] = "Not")
  OBVIOUS
<1>8. Len(t) < Len(s) /\ \A k \in 1 .. Len(t) : s[Len(s) - Len(t) + k] = t[k]
  BY <1>1
<1>. HIDE DEF One, Two, Three
<1>9. CASE t \in One
  <2>1. s[Len(s)] = t[1] /\ (s \in Two \/ s \in Three)
    <3>1. Len(t) = 1 /\ 1 \in 1 .. 1
      BY <1>5, <1>9
    <3>2. s \in Two \/ s \in Three
      BY <1>3, <1>5, <1>8, <3>1
    <3>3. Len(s) \in {2, 3}
      BY <1>6, <1>7, <3>2
    <3>4. s[Len(s) - 1 + 1] = t[1] /\ Len(s) - 1 + 1 = Len(s)
      BY <1>8, <3>1, <3>3
    <3>. QED  BY <3>2, <3>4
  <2>. QED  BY <1>5, <1>6, <1>7, <1>9, <2>1
<1>10. CASE t \in Two
  <2>1. Len(t) = 2 /\ 1 \in 1 .. 2 /\ 2 \in 1 .. 2
    BY <1>6, <1>10
  <2>2. s \in Three
    BY <1>3, <1>5, <1>6, <1>8, <2>1
  <2>3. Len(s) = 3
    BY <1>7, <2>2
  <2>4. s[3 - 2 + 1] = t[1] /\ s[3 - 2 + 2] = t[2]
    BY <1>8, <2>1, <2>3
  <2>5. s[2] = t[1] /\ s[3] = t[2]
    BY <2>4
  <2>. QED  BY <1>6, <1>7, <1>10, <2>2, <2>5
<1>11. CASE t \in Three
  <2>1. Len(t) = 3
    BY <1>7, <1>11
  <2>. QED  BY <1>3, <1>5, <1>6, <1>7, <1>8, <2>1
<1>. QED  BY <1>4, <1>9, <1>10, <1>11

LEMMA SchemaType ==
    ASSUME columns \in Schemas
    PROVE  /\ columns \in Seq(Column)
           /\ \A i, j \in DOMAIN columns : columns[i].path = columns[j].path => i = j
           /\ \A row \in Rows, i \in DOMAIN columns : row[columns[i].path] \in Nat \cup {Null}
BY QueriesAssumptions, Zenon

LEMMA ColumnType ==
    ASSUME columns \in Schemas, NEW i \in DOMAIN columns
    PROVE  /\ i \in Nat /\ columns[i].length \in Nat /\ columns[i].path \in STRING
           /\ columns[i].tag \in Seq(Words) /\ columns[i].tag # <<>> /\ columns[i].tag[1] # "der"
<1>1. columns \in Seq(Column)
  BY SchemaType
<1>2. i \in Nat /\ columns[i] \in Column
  BY <1>1
<1>3. columns[i].tag \in ColumnTag
  BY <1>2 DEF Column
<1>4. columns[i].tag \in Seq(Words)
  <2>1. STRING \subseteq Words
    BY DEF Words
  <2>. QED  BY <1>3, <2>1, SeqMonotonic DEF ColumnTag
<1>. QED  BY <1>2, <1>3, <1>4 DEF Column, ColumnTag

LEMMA LongestMatchExists ==
    ASSUME columns \in Schemas, NEW M \in SUBSET DOMAIN columns, M # {}
    PROVE  \E i \in M : LongestMatch(M) = columns[i]
<1>. DEFINE Better(i, j) == \/ columns[j].length < columns[i].length
                            \/ (columns[j].length = columns[i].length /\ i <= j)
            Best(i, N) == \A j \in N : Better(i, j)
            T == {m \in Nat : \A N \in SUBSET ((1 .. m) \cap DOMAIN columns) : N # {} => \E i \in N : Best(i, N)}
<1>1. 0 \in T
  <2>1. (1 .. 0) \cap DOMAIN columns = {}
    OBVIOUS
  <2>. HIDE DEF Best
  <2>. QED  BY <2>1
<1>2. ASSUME NEW m \in T PROVE m + 1 \in T
  <2>1. m \in Nat
    OBVIOUS
  <2>. SUFFICES ASSUME NEW N \in SUBSET ((1 .. m + 1) \cap DOMAIN columns), N # {}
                PROVE  \E i \in N : Best(i, N)
    BY <2>1
  <2>2. \A i \in N : i \in Nat /\ columns[i].length \in Nat /\ i <= m + 1
    BY <2>1, ColumnType
  <2>. DEFINE K == N \ {m + 1}
  <2>3. K \in SUBSET ((1 .. m) \cap DOMAIN columns)
    BY <2>1
  <2>4. CASE K = {}
    <3>1. N = {m + 1}
      BY <2>4
    <3>. QED  BY <2>1, <3>1
  <2>5. CASE K # {}
    <3>1. PICK i \in K : Best(i, K)
      BY <2>3, <2>5, Zenon
    <3>2. i \in Nat /\ columns[i].length \in Nat /\ i <= m + 1
      BY <2>2
    <3>3. CASE m + 1 \in N /\ columns[m + 1].length > columns[i].length
      <4>1. columns[m + 1].length \in Nat
        BY <2>2, <3>3
      <4>2. ASSUME NEW j \in N, j # m + 1 PROVE columns[j].length < columns[m + 1].length
        <5>1. j \in K /\ columns[j].length \in Nat
          BY <2>2, <4>2
        <5>. QED  BY <3>1, <3>2, <3>3, <4>1, <5>1
      <4>. QED  BY <2>1, <3>3, <4>2
    <3>4. CASE m + 1 \in N /\ ~(columns[m + 1].length > columns[i].length)
      <4>1. columns[m + 1].length \in Nat
        BY <2>2, <3>4
      <4>. QED  BY <2>1, <3>1, <3>2, <3>4, <4>1
    <3>5. CASE m + 1 \notin N
      <4>1. K = N
        BY <3>5
      <4>. QED  BY <3>1, <4>1, Zenon
    <3>. QED  BY <3>3, <3>4, <3>5
  <2>. QED  BY <2>4, <2>5
<1>. HIDE DEF T
<1>3. T = Nat
  <2>1. T \in SUBSET Nat
    BY DEF T
  <2>. QED  BY <1>1, <1>2, <2>1, NumberInduction
<1>4. PICK n \in Nat : DOMAIN columns = 1 .. n
  BY SchemaType
<1>5. \E i \in M : Best(i, M)
  BY <1>3, <1>4 DEF T
<1>. QED  BY <1>5 DEF LongestMatch

LEMMA ReadsPredicate ==
    ASSUME columns \in Schemas, NEW segment, ReadPredicate(segment) # {}
    PROVE  \E i \in DOMAIN columns, o \in Operators :
               /\ segment = columns[i].tag \o o.suffix
               /\ ParsePredicate(segment) = [path |-> columns[i].path, operator |-> o]
<1>1. PICK i \in ReadPredicate(segment) : LongestMatch(ReadPredicate(segment)) = columns[i]
  BY LongestMatchExists DEF ReadPredicate
<1>2. i \in DOMAIN columns /\ \E o \in Operators : segment = columns[i].tag \o o.suffix
  BY DEF ReadPredicate
<1>3. PICK o \in Operators : o = CHOOSE p \in Operators : segment = columns[i].tag \o p.suffix
  BY <1>2, Zenon
<1>4. segment = columns[i].tag \o o.suffix
  BY <1>2, <1>3, Zenon
<1>. QED  BY <1>1, <1>2, <1>3, <1>4 DEF ParsePredicate

LEMMA ReadsOrder ==
    ASSUME columns \in Schemas, NEW segment, ReadOrder(segment) # {}
    PROVE  \E i \in DOMAIN columns, d \in Directions :
               /\ segment = columns[i].tag \o d
               /\ ParseOrder(segment) = [path |-> columns[i].path,
                                         direction |-> IF segment = columns[i].tag \o <<"Desc">> THEN "DESC" ELSE "ASC"]
<1>1. PICK i \in ReadOrder(segment) : LongestMatch(ReadOrder(segment)) = columns[i]
  BY LongestMatchExists DEF ReadOrder
<1>2. i \in DOMAIN columns /\ \E d \in Directions : segment = columns[i].tag \o d
  BY DEF ReadOrder
<1>. QED  BY <1>1, <1>2 DEF ParseOrder

LEMMA TagOfColumn ==
    ASSUME columns \in Schemas, NEW i \in DOMAIN columns
    PROVE  Tag(columns[i].path) = columns[i].tag
<1>1. \A j \in DOMAIN columns : columns[j].path = columns[i].path => j = i
  BY SchemaType
<1>. QED  BY <1>1 DEF Tag

-----------------------------------------------------------------------------
(* Derived queries: what is read is what the name says.                    *)

LEMMA PredicateAgain ==
    ASSUME columns \in Schemas, NEW segment, ReadPredicate(segment) # {}
    PROVE  /\ ParsePredicate(segment) \in Predicate /\ ParsePredicate(segment).path \in Paths
           /\ PrintPredicate(ParsePredicate(segment)) = segment
<1>1. PICK i \in DOMAIN columns, o \in Operators :
          /\ segment = columns[i].tag \o o.suffix
          /\ ParsePredicate(segment) = [path |-> columns[i].path, operator |-> o]
  BY ReadsPredicate
<1>2. Tag(columns[i].path) = columns[i].tag /\ columns[i].path \in STRING
  BY TagOfColumn, ColumnType
<1>3. ParsePredicate(segment).path = columns[i].path /\ ParsePredicate(segment).operator = o
  BY <1>1
<1>4. PrintPredicate(ParsePredicate(segment)) = segment
  BY <1>1, <1>2, <1>3 DEF PrintPredicate
<1>. QED  BY <1>1, <1>2, <1>3, <1>4 DEF Predicate, Paths

LEMMA OrderAgain ==
    ASSUME columns \in Schemas, NEW segment, ReadOrder(segment) # {}, FreeOf(segment, "Asc")
    PROVE  PrintOrder(ParseOrder(segment)) = segment
<1>1. PICK i \in DOMAIN columns, d \in Directions :
          /\ segment = columns[i].tag \o d
          /\ ParseOrder(segment) = [path |-> columns[i].path,
                                    direction |-> IF segment = columns[i].tag \o <<"Desc">> THEN "DESC" ELSE "ASC"]
  BY ReadsOrder
<1>2. PICK t \in Seq(Words) : t = columns[i].tag /\ Tag(columns[i].path) = t
  BY TagOfColumn, ColumnType
<1>3. d # <<"Asc">>
  <2>. SUFFICES ASSUME d = <<"Asc">> PROVE FALSE
    OBVIOUS
  <2>1. segment = Append(t, "Asc")
    <3>1. Append(t, "Asc") = t \o <<"Asc">>
      BY AppendIsConcat DEF Words
    <3>. QED  BY <1>1, <1>2, <3>1
  <2>2. FreeOf(Append(t, "Asc"), "Asc") <=> FreeOf(t, "Asc") /\ "Asc" # "Asc"
    BY WithoutAppend DEF Words
  <2>. QED  BY <2>1, <2>2
<1>4. CASE segment = t \o <<"Desc">>
  <2>1. ParseOrder(segment).direction = "DESC" /\ ParseOrder(segment).path = columns[i].path
    BY <1>1, <1>2, <1>4
  <2>. QED  BY <1>2, <1>4, <2>1 DEF PrintOrder
<1>5. CASE segment # t \o <<"Desc">>
  <2>1. d = <<>>
    BY <1>1, <1>2, <1>3, <1>5 DEF Directions
  <2>2. ParseOrder(segment).direction = "ASC" /\ ParseOrder(segment).path = columns[i].path
    BY <1>1, <1>2, <1>5
  <2>. QED  BY <1>1, <1>2, <2>1, <2>2 DEF PrintOrder
<1>. QED  BY <1>4, <1>5

LEMMA SegmentsType ==
    ASSUME NEW text \in Seq(Words)
    PROVE  /\ Split(text, "Or") \in Splits(Words) /\ Split(text, "And") \in Splits(Words)
           /\ Join(Split(text, "Or"), "Or") = text /\ Join(Split(text, "And"), "And") = text
<1>1. "Or" \in Words /\ "And" \in Words
  BY DEF Words
<1>. QED  BY <1>1, SplitType, JoinSplit

\* What is read from each segment of a text.
LEMMA GroupsAgain ==
    ASSUME columns \in Schemas, NEW text \in Seq(Words),
           \A g \in DOMAIN GroupsOf(text) : \A p \in DOMAIN GroupsOf(text)[g] : ReadPredicate(GroupsOf(text)[g][p]) # {}
    PROVE  \E groups \in Seq(Seq(Predicate)) :
               /\ groups = [g \in DOMAIN GroupsOf(text) |-> [p \in DOMAIN GroupsOf(text)[g] |->
                               ParsePredicate(GroupsOf(text)[g][p])]]
               /\ \A g \in DOMAIN groups : \A p \in DOMAIN groups[g] : groups[g][p].path \in Paths
               /\ PrintGroups(groups) = text
<1>1. PICK ors \in Seq(Seq(Words)) : ors = Split(text, "Or") /\ Join(ors, "Or") = text
  BY SegmentsType DEF Splits
<1>2. PICK n \in Nat : DOMAIN ors = 1 .. n
  OBVIOUS
<1>. DEFINE segments == GroupsOf(text)
            groups == [g \in DOMAIN segments |-> [p \in DOMAIN segments[g] |-> ParsePredicate(segments[g][p])]]
<1>3. segments = [g \in 1 .. n |-> Split(ors[g], "And")]
  BY <1>1, <1>2 DEF GroupsOf
<1>. HIDE DEF segments
<1>4. DOMAIN segments = 1 .. n
  BY <1>3
<1>5. ASSUME NEW g \in 1 .. n
      PROVE  /\ segments[g] \in Seq(Seq(Words)) /\ Join(segments[g], "And") = ors[g]
             /\ groups[g] \in Seq(Predicate) /\ DOMAIN groups[g] = DOMAIN segments[g]
             /\ [p \in DOMAIN groups[g] |-> PrintPredicate(groups[g][p])] = segments[g]
             /\ \A p \in DOMAIN groups[g] : groups[g][p].path \in Paths
  <2>1. ors[g] \in Seq(Words)
    BY <1>2
  <2>2. PICK s \in Seq(Seq(Words)) : s = segments[g] /\ Join(s, "And") = ors[g]
    BY <1>3, <2>1, SegmentsType DEF Splits
  <2>3. PICK m \in Nat : DOMAIN s = 1 .. m /\ Len(s) = m
    OBVIOUS
  <2>4. \A p \in 1 .. m : ReadPredicate(s[p]) # {}
    BY <1>4, <2>2, <2>3 DEF segments
  <2>5. \A p \in 1 .. m : /\ ParsePredicate(s[p]) \in Predicate /\ ParsePredicate(s[p]).path \in Paths
                          /\ PrintPredicate(ParsePredicate(s[p])) = s[p]
    BY <2>4, PredicateAgain
  <2>6. groups[g] = [p \in 1 .. m |-> ParsePredicate(s[p])]
    BY <1>4, <2>2, <2>3
  <2>. HIDE DEF groups
  <2>7. DOMAIN groups[g] = 1 .. m /\ \A p \in 1 .. m : groups[g][p] = ParsePredicate(s[p])
    BY <2>6
  <2>8. groups[g] \in Seq(Predicate)
    BY <2>5, <2>6
  <2>9. [p \in 1 .. m |-> PrintPredicate(groups[g][p])] = s
    <3>1. \A p \in 1 .. m : PrintPredicate(groups[g][p]) = s[p]
      BY <2>5, <2>7
    <3>2. s = [p \in 1 .. m |-> s[p]]
      BY <2>3
    <3>. QED  BY <3>1, <3>2
  <2>10. \A p \in 1 .. m : groups[g][p].path \in Paths
    BY <2>5, <2>7
  <2>. QED  BY <2>2, <2>3, <2>7, <2>8, <2>9, <2>10
<1>6. DOMAIN groups = 1 .. n
  BY <1>4
<1>7. groups \in Seq(Seq(Predicate))
  <2>1. groups = [g \in 1 .. n |-> groups[g]]
    BY <1>4
  <2>2. \A g \in 1 .. n : groups[g] \in Seq(Predicate)
    BY <1>5
  <2>. HIDE DEF groups
  <2>3. [g \in 1 .. n |-> groups[g]] \in Seq(Seq(Predicate))
    BY <2>2
  <2>. QED  BY <2>1, <2>3
<1>. HIDE DEF groups
<1>8. PrintGroups(groups) = Join(ors, "Or")
  <2>1. \A g \in 1 .. n : Join([p \in DOMAIN groups[g] |-> PrintPredicate(groups[g][p])], "And") = ors[g]
    BY <1>5
  <2>2. ors = [g \in 1 .. n |-> ors[g]]
    BY <1>2
  <2>3. [g \in DOMAIN groups |-> Join([p \in DOMAIN groups[g] |-> PrintPredicate(groups[g][p])], "And")] = ors
    BY <1>6, <2>1, <2>2
  <2>. QED  BY <2>3 DEF PrintGroups
<1>9. \A g \in DOMAIN groups : \A p \in DOMAIN groups[g] : groups[g][p].path \in Paths
  BY <1>5, <1>6
<1>. QED  BY <1>1, <1>7, <1>8, <1>9 DEF groups, segments

LEMMA OrdersAgain ==
    ASSUME columns \in Schemas, NEW text \in Seq(Words), text # <<>>, FreeOf(text, "Asc"),
           \A i \in DOMAIN OrderOf(text) : ReadOrder(OrderOf(text)[i]) # {},
           NEW order, order = [i \in DOMAIN OrderOf(text) |-> ParseOrder(OrderOf(text)[i])]
    PROVE  PrintOrders(order) = OrderBy \o text
<1>1. PICK s \in Seq(Seq(Words)) : s = Split(text, "And") /\ s # <<>> /\ Join(s, "And") = text
  BY SegmentsType DEF Splits
<1>2. s = OrderOf(text)
  BY <1>1 DEF OrderOf
<1>3. PICK n \in Nat : DOMAIN s = 1 .. n /\ n # 0
  BY <1>1
<1>4. \A i \in DOMAIN s : FreeOf(s[i], "Asc")
  <2>1. "And" \in Words
    BY DEF Words
  <2>. QED  BY <1>1, <2>1, JoinWithout
<1>5. \A i \in 1 .. n : PrintOrder(ParseOrder(s[i])) = s[i]
  BY <1>2, <1>3, <1>4, OrderAgain
<1>6. DOMAIN order = 1 .. n /\ \A i \in 1 .. n : order[i] = ParseOrder(s[i])
  BY <1>2, <1>3
<1>7. [i \in DOMAIN order |-> PrintOrder(order[i])] = s
  <2>1. s = [i \in 1 .. n |-> s[i]]
    BY <1>3
  <2>. QED  BY <1>5, <1>6, <2>1
<1>8. order # <<>>
  BY <1>3, <1>6
<1>. QED  BY <1>1, <1>7, <1>8 DEF PrintOrders

LEMMA BodyParts ==
    ASSUME NEW body \in Seq(Words)
    PROVE  /\ PredicateText(body) \in Seq(Words) /\ OrderText(body) \in Seq(Words)
           /\ OrderBys(body) = {} => PredicateText(body) = body /\ OrderText(body) = <<>>
           /\ OrderBys(body) # {} => body = PredicateText(body) \o (OrderBy \o OrderText(body))
<1>1. CASE OrderBys(body) = {}
  BY <1>1 DEF PredicateText, OrderText
<1>2. CASE OrderBys(body) # {}
  <2>1. PICK n \in Nat : n = Len(body) /\ DOMAIN body = 1 .. n
    OBVIOUS
  <2>2. PICK first \in OrderBys(body) : \A j \in OrderBys(body) : first <= j
    <3>1. OrderBys(body) \in SUBSET Nat
      BY DEF OrderBys
    <3>. QED  BY <1>2, <3>1, LeastExists
  <2>3. FirstOrderBy(body) \in OrderBys(body)
    BY <2>2, Zenon DEF FirstOrderBy
  <2>4. PICK k \in OrderBys(body) : k = FirstOrderBy(body)
    BY <2>3
  <2>5. k \in Nat /\ 1 <= k /\ k + 2 <= n /\ SubSeq(body, k, k + 2) = OrderBy
    BY <2>1 DEF OrderBys
  <2>6. PredicateText(body) = SubSeq(body, 1, k - 1) /\ OrderText(body) = SubSeq(body, k + 3, n)
    BY <1>2, <2>1, <2>4 DEF PredicateText, OrderText
  <2>7. /\ SubSeq(body, 1, k - 1) \o SubSeq(body, (k - 1) + 1, n) = SubSeq(body, 1, n)
        /\ SubSeq(body, k, k + 2) \o SubSeq(body, (k + 2) + 1, n) = SubSeq(body, k, n)
    <3>1. 1 \in 1 .. n + 1 /\ k - 1 \in 1 - 1 .. n /\ n \in k - 1 .. n
      BY <2>5
    <3>2. k \in 1 .. n + 1 /\ k + 2 \in k - 1 .. n /\ n \in k + 2 .. n
      BY <2>5
    <3>3. \A m \in 1 .. n + 1 : \A j \in m - 1 .. n : \A l \in j .. n :
              SubSeq(body, m, j) \o SubSeq(body, j + 1, l) = SubSeq(body, m, l)
      BY <2>1, ConcatAdjacentSubSeq
    <3>. QED  BY <3>1, <3>2, <3>3
  <2>8. SubSeq(body, 1, n) = body
    BY <2>1, SubSeqFull
  <2>9. (k - 1) + 1 = k /\ (k + 2) + 1 = k + 3
    BY <2>5
  <2>10. body = SubSeq(body, 1, k - 1) \o (OrderBy \o SubSeq(body, k + 3, n))
    BY <2>5, <2>7, <2>8, <2>9
  <2>11. \A i \in 1 .. n : body[i] \in Words
    BY <2>1
  <2>12. SubSeq(body, 1, k - 1) \in Seq(Words) /\ SubSeq(body, k + 3, n) \in Seq(Words)
    <3>1. (\A i \in 1 .. k - 1 : body[i] \in Words) /\ \A i \in k + 3 .. n : body[i] \in Words
      BY <2>5, <2>11
    <3>2. 1 \in Int /\ k - 1 \in Int /\ k + 3 \in Int /\ n \in Int
      BY <2>5
    <3>. QED  BY <3>1, <3>2, SubSeqProperties
  <2>. QED  BY <1>2, <2>6, <2>10, <2>12
<1>. QED  BY <1>1, <1>2

LEMMA TailWithout ==
    ASSUME NEW S, NEW u \in Seq(S), NEW v \in Seq(S), NEW x, FreeOf(u \o v, x)
    PROVE  FreeOf(v, x)
<1>1. PICK m, n \in Nat : m = Len(u) /\ n = Len(v) /\ DOMAIN v = 1 .. n
  OBVIOUS
<1>2. PICK w : w = u \o v
  OBVIOUS
<1>3. /\ w \in Seq(S) /\ Len(w) = m + n
      /\ \A i \in 1 .. m + n : w[i] = IF i <= m THEN u[i] ELSE v[i - m]
  BY <1>1, <1>2, ConcatProperties
<1>4. \A i \in 1 .. m + n : w[i] # x
  <2>1. DOMAIN w = 1 .. m + n
    BY <1>3
  <2>. QED  BY <1>2, <2>1 DEF FreeOf
<1>5. ASSUME NEW i \in 1 .. n PROVE v[i] # x
  <2>1. m + i \in 1 .. m + n /\ ~(m + i <= m) /\ (m + i) - m = i
    OBVIOUS
  <2>2. w[m + i] = v[(m + i) - m]
    BY <1>3, <2>1
  <2>. QED  BY <1>4, <2>1, <2>2
<1>. QED  BY <1>1, <1>5 DEF FreeOf

LEMMA PrefixOfOperation ==
    ASSUME NEW prefix \in QueryPrefixes
    PROVE  /\ OperationOf(prefix) \in {"findOne", "findMany", "count", "exists"}
           /\ (CHOOSE p \in QueryPrefixes : OperationOf(p) = OperationOf(prefix)) = prefix
<1>1. \A p, q \in QueryPrefixes : OperationOf(p) = OperationOf(q) => p = q
  BY DEF QueryPrefixes, OperationOf
<1>2. OperationOf(prefix) \in {"findOne", "findMany", "count", "exists"}
  BY DEF QueryPrefixes, OperationOf
<1>. QED  BY <1>1, <1>2

LEMMA OrderByType == OrderBy \in Seq(Words) /\ Len(OrderBy) = 3
                     /\ OrderBy[1] = "Or" /\ OrderBy[2] = "der" /\ OrderBy[3] = "By"
<1>1. \A x, y, z \in Words : <<x, y, z>> \in Seq(Words)
  OBVIOUS
<1>2. "Or" \in Words /\ "der" \in Words /\ "By" \in Words
  BY DEF Words
<1>. QED  BY <1>1, <1>2 DEF OrderBy

LEMMA WhatIsRead ==
    ASSUME columns \in Schemas, NEW method, method.body \in Seq(Words),
           method = [prefix |-> method.prefix, body |-> method.body], Parse(method).ok
    PROVE  \E groups, order :
               /\ groups \in Seq(Seq(Predicate))
               /\ Parse(method) = [ok |-> TRUE, operation |-> OperationOf(method.prefix), groups |-> groups, order |-> order]
               /\ \A g \in DOMAIN groups : \A p \in DOMAIN groups[g] : groups[g][p].path \in Paths
               /\ FreeOf(method.body, "Asc") => PrintName(Parse(method)) = method
<1>1. PICK body, text, sorts : body = method.body /\ text = PredicateText(body) /\ sorts = OrderText(body)
  OBVIOUS
<1>2. /\ method.prefix \in QueryPrefixes
      /\ OrderBys(body) # {} => sorts # <<>>
      /\ Readable(GroupsOf(text), OrderOf(sorts))
      /\ Parse(method) =
            [ok |-> TRUE, operation |-> OperationOf(method.prefix),
             groups |-> [g \in DOMAIN GroupsOf(text) |-> [p \in DOMAIN GroupsOf(text)[g] |->
                            ParsePredicate(GroupsOf(text)[g][p])]],
             order |-> [i \in DOMAIN OrderOf(sorts) |-> ParseOrder(OrderOf(sorts)[i])]]
  BY <1>1 DEF Parse, ParseError
<1>3. /\ text \in Seq(Words) /\ sorts \in Seq(Words)
      /\ OrderBys(body) = {} => text = body /\ sorts = <<>>
      /\ OrderBys(body) # {} => body = text \o (OrderBy \o sorts)
  BY <1>1, BodyParts
<1>4. PICK groups \in Seq(Seq(Predicate)) :
          /\ groups = [g \in DOMAIN GroupsOf(text) |-> [p \in DOMAIN GroupsOf(text)[g] |->
                          ParsePredicate(GroupsOf(text)[g][p])]]
          /\ \A g \in DOMAIN groups : \A p \in DOMAIN groups[g] : groups[g][p].path \in Paths
          /\ PrintGroups(groups) = text
  BY <1>2, <1>3, GroupsAgain DEF Readable
<1>5. PICK order : order = [i \in DOMAIN OrderOf(sorts) |-> ParseOrder(OrderOf(sorts)[i])]
  OBVIOUS
<1>6. Parse(method) = [ok |-> TRUE, operation |-> OperationOf(method.prefix), groups |-> groups, order |-> order]
  BY <1>2, <1>4, <1>5, Zenon
<1>7. ASSUME FreeOf(body, "Asc") PROVE text \o PrintOrders(order) = body
  <2>1. CASE OrderBys(body) = {}
    <3>1. order = <<>>
      BY <1>3, <1>5, <2>1 DEF OrderOf
    <3>. QED  BY <1>3, <2>1, <3>1 DEF PrintOrders
  <2>2. CASE OrderBys(body) # {}
    <3>1. FreeOf(sorts, "Asc")
      <4>1. OrderBy \o sorts \in Seq(Words)
        BY <1>3, OrderByType, ConcatProperties
      <4>2. FreeOf(OrderBy \o sorts, "Asc")
        BY <1>3, <1>7, <2>2, <4>1, TailWithout
      <4>. QED  BY <1>3, <4>2, OrderByType, TailWithout
    <3>2. PrintOrders(order) = OrderBy \o sorts
      BY <1>2, <1>3, <1>5, <2>2, <3>1, OrdersAgain DEF Readable
    <3>. QED  BY <1>3, <2>2, <3>2
  <2>. QED  BY <2>1, <2>2
<1>8. (CHOOSE p \in QueryPrefixes : OperationOf(p) = OperationOf(method.prefix)) = method.prefix
  BY <1>2, PrefixOfOperation
<1>9. ASSUME FreeOf(body, "Asc") PROVE PrintName(Parse(method)) = method
  <2>1. PICK query : /\ query = Parse(method) /\ query.operation = OperationOf(method.prefix)
                     /\ query.groups = groups /\ query.order = order
    BY <1>6
  <2>2. PrintName(query) = [prefix |-> method.prefix, body |-> body]
    BY <1>4, <1>7, <1>8, <1>9, <2>1 DEF PrintName
  <2>. QED  BY <1>1, <2>1, <2>2
<1>10. FreeOf(method.body, "Asc") => PrintName(Parse(method)) = method
  BY <1>1, <1>9
<1>. QED  BY <1>4, <1>6, <1>10, Zenon

-----------------------------------------------------------------------------
(* Derived queries: a query that is written is read, with plain columns.   *)

\* The text w is a, followed by c.
IsFollowed(w, a, c) == w = a \o c

LEMMA EndsOf ==
    ASSUME NEW S, NEW a \in Seq(S), NEW c \in Seq(S), NEW w, IsFollowed(w, a, c)
    PROVE  /\ Len(w) = Len(a) + Len(c)
           /\ \A i \in 1 .. Len(a) : w[i] = a[i]
           /\ \A k \in 1 .. Len(c) : w[Len(a) + k] = c[k]
<1>0. PICK la, lc \in Nat : la = Len(a) /\ lc = Len(c) /\ w = a \o c
  BY DEF IsFollowed
<1>1. Len(w) = la + lc /\ \A i \in 1 .. la + lc : w[i] = IF i <= la THEN a[i] ELSE c[i - la]
  BY <1>0, ConcatProperties
<1>2. ASSUME NEW k \in 1 .. lc PROVE w[la + k] = c[k]
  <2>1. la + k \in 1 .. la + lc /\ ~(la + k <= la) /\ (la + k) - la = k
    OBVIOUS
  <2>2. w[la + k] = c[(la + k) - la]
    BY <1>1, <2>1
  <2>. QED  BY <2>1, <2>2
<1>3. ASSUME NEW i \in 1 .. la PROVE w[i] = a[i]
  <2>1. i \in 1 .. la + lc /\ i <= la
    OBVIOUS
  <2>. QED  BY <1>1, <2>1
<1>. QED  BY <1>0, <1>1, <1>2, <1>3

HasEnds(w, a, c) ==
    /\ Len(w) = Len(a) + Len(c) /\ (\A i \in 1 .. Len(a) : w[i] = a[i])
    /\ \A k \in 1 .. Len(c) : w[Len(a) + k] = c[k]

LEMMA FollowedHasEnds ==
    ASSUME NEW S, NEW a \in Seq(S), NEW c \in Seq(S), NEW w, IsFollowed(w, a, c)
    PROVE  HasEnds(w, a, c)
BY EndsOf DEF HasEnds

LEMMA SameEnds ==
    ASSUME NEW S, NEW a \in Seq(S), NEW b \in Seq(S), NEW c \in Seq(S), NEW d \in Seq(S),
           NEW w, IsFollowed(w, a, c), IsFollowed(w, b, d), Len(c) = Len(d)
    PROVE  a = b /\ c = d
<1>1. PICK la, lb, lc \in Nat : la = Len(a) /\ lb = Len(b) /\ lc = Len(c) /\ lc = Len(d)
  OBVIOUS
<1>2. /\ Len(w) = la + lc /\ (\A i \in 1 .. la : w[i] = a[i]) /\ \A k \in 1 .. lc : w[la + k] = c[k]
      /\ Len(w) = lb + lc /\ (\A i \in 1 .. lb : w[i] = b[i]) /\ \A k \in 1 .. lc : w[lb + k] = d[k]
  <2>1. HasEnds(w, a, c) /\ HasEnds(w, b, d)
    BY FollowedHasEnds
  <2>. QED  BY <1>1, <2>1 DEF HasEnds
<1>3. la = lb
  BY <1>2
<1>4. Len(a) = Len(b) /\ (\A i \in 1 .. Len(a) : a[i] = b[i]) /\ \A k \in 1 .. Len(c) : c[k] = d[k]
  BY <1>1, <1>2, <1>3
<1>. QED  BY <1>4, SeqEqual

LEMMA LongerEnd ==
    ASSUME NEW S, NEW a \in Seq(S), NEW b \in Seq(S), NEW c \in Seq(S), NEW d \in Seq(S),
           NEW w, IsFollowed(w, a, c), IsFollowed(w, b, d), Len(d) < Len(c), NEW k \in 1 .. Len(d)
    PROVE  c[Len(c) - Len(d) + k] = d[k]
<1>1. PICK la, lb, lc, ld \in Nat : la = Len(a) /\ lb = Len(b) /\ lc = Len(c) /\ ld = Len(d)
  OBVIOUS
<1>2. /\ Len(w) = la + lc /\ \A n \in 1 .. lc : w[la + n] = c[n]
      /\ Len(w) = lb + ld /\ \A n \in 1 .. ld : w[lb + n] = d[n]
  <2>1. HasEnds(w, a, c) /\ HasEnds(w, b, d)
    BY FollowedHasEnds
  <2>. QED  BY <1>1, <2>1 DEF HasEnds
<1>3. ld < lc /\ la + lc = lb + ld /\ k \in 1 .. ld
  BY <1>1, <1>2
<1>4. lc - ld + k \in 1 .. lc /\ la + (lc - ld + k) = lb + k
  BY <1>3
<1>5. w[lb + k] = d[k] /\ w[la + (lc - ld + k)] = c[lc - ld + k]
  BY <1>2, <1>3, <1>4
<1>. QED  BY <1>1, <1>4, <1>5

\* A segment is the tag of a column, followed by a suffix or by a direction.
IsTagged(w, i, end) == IsFollowed(w, columns[i].tag, end)

LEMMA ShorterSuffix ==
    ASSUME columns \in Schemas, PlainColumns, NEW i \in DOMAIN columns, NEW j \in DOMAIN columns,
           NEW o \in Operators, NEW u \in Operators, NEW w, IsTagged(w, i, o.suffix), IsTagged(w, j, u.suffix),
           Len(u.suffix) < Len(o.suffix)
    PROVE  FALSE
<1>1. /\ columns[i].tag \in Seq(Words) /\ columns[j].tag \in Seq(Words)
      /\ o.suffix \in Seq(Words) /\ u.suffix \in Seq(Words)
  BY ColumnType, SuffixType
<1>2. \A k \in 1 .. Len(u.suffix) : o.suffix[Len(o.suffix) - Len(u.suffix) + k] = u.suffix[k]
  <2>1. PICK a, b, c, d \in Seq(Words) :
            a = columns[i].tag /\ b = columns[j].tag /\ c = o.suffix /\ d = u.suffix
    BY <1>1
  <2>2. Len(d) < Len(c) /\ IsFollowed(w, a, c) /\ IsFollowed(w, b, d)
    BY <2>1 DEF IsTagged
  <2>3. \A k \in 1 .. Len(d) : c[Len(c) - Len(d) + k] = d[k]
    BY <2>2, LongerEnd
  <2>. QED  BY <2>1, <2>3
<1>3. u \notin OPERATORS
  BY <1>2, SuffixesDiffer
<1>4. u.suffix = <<>>
  BY <1>3, SuffixCases
<1>5. o \in OPERATORS
  <2>1. o.suffix # u.suffix
    OBVIOUS
  <2>. QED  BY <1>4, <2>1, SuffixCases
<1>6. columns[j].tag = columns[i].tag \o o.suffix
  <2>1. w = columns[i].tag \o o.suffix /\ w = columns[j].tag \o <<>>
    BY <1>4 DEF IsTagged, IsFollowed
  <2>. QED  BY <1>1, <2>1, ConcatEmptySeq
<1>. QED  BY <1>5, <1>6 DEF PlainColumns, Tags

LEMMA SameReading ==
    ASSUME columns \in Schemas, PlainColumns, NEW i \in DOMAIN columns, NEW j \in DOMAIN columns,
           NEW o \in Operators, NEW u \in Operators, NEW w, IsTagged(w, i, o.suffix), IsTagged(w, j, u.suffix)
    PROVE  i = j /\ o = u
<1>1. /\ columns[i].tag \in Seq(Words) /\ columns[j].tag \in Seq(Words)
      /\ o.suffix \in Seq(Words) /\ u.suffix \in Seq(Words)
  BY ColumnType, SuffixType
<1>2. ~(Len(u.suffix) < Len(o.suffix)) /\ ~(Len(o.suffix) < Len(u.suffix))
  BY ShorterSuffix
<1>3. Len(o.suffix) = Len(u.suffix)
  BY <1>1, <1>2
<1>4. columns[i].tag = columns[j].tag /\ o.suffix = u.suffix
  <2>1. PICK a, b, c, d \in Seq(Words) :
            a = columns[i].tag /\ b = columns[j].tag /\ c = o.suffix /\ d = u.suffix
    BY <1>1
  <2>2. Len(c) = Len(d) /\ IsFollowed(w, a, c) /\ IsFollowed(w, b, d)
    BY <1>3, <2>1 DEF IsTagged
  <2>3. a = b /\ c = d
    BY <2>2, SameEnds
  <2>. QED  BY <2>1, <2>3
<1>. QED  BY <1>4, SuffixNamesOperator DEF PlainColumns

LEMMA DirectionType ==
    ASSUME NEW d \in Directions
    PROVE  /\ d \in Seq(Words) /\ (d = <<>> \/ (Len(d) = 1 /\ d # <<>>))
           /\ FreeOf(d, "Or") /\ FreeOf(d, "And")
<1>1. "Asc" \in Words /\ "Desc" \in Words
  BY DEF Words
<1>2. \A x \in Words : <<x>> \in Seq(Words) /\ Len(<<x>>) = 1 /\ <<x>> # <<>> /\ DOMAIN <<x>> = 1 .. 1 /\ <<x>>[1] = x
  OBVIOUS
<1>3. CASE d = <<>>
  BY <1>3 DEF FreeOf
<1>4. CASE d = <<"Asc">>
  BY <1>1, <1>2, <1>4 DEF FreeOf
<1>5. CASE d = <<"Desc">>
  BY <1>1, <1>2, <1>5 DEF FreeOf
<1>. QED  BY <1>3, <1>4, <1>5 DEF Directions

LEMMA SameSorting ==
    ASSUME columns \in Schemas, PlainColumns, NEW i \in DOMAIN columns, NEW j \in DOMAIN columns,
           NEW d \in Directions, NEW e \in Directions, NEW w, IsTagged(w, i, d), IsTagged(w, j, e)
    PROVE  i = j /\ d = e
<1>1. /\ columns[i].tag \in Seq(Words) /\ columns[j].tag \in Seq(Words)
      /\ d \in Seq(Words) /\ e \in Seq(Words)
  BY ColumnType, DirectionType
<1>2. CASE Len(d) = Len(e)
  <2>1. columns[i].tag = columns[j].tag /\ d = e
    <3>1. PICK a, b \in Seq(Words) : a = columns[i].tag /\ b = columns[j].tag
      BY <1>1
    <3>2. IsFollowed(w, a, d) /\ IsFollowed(w, b, e)
      BY <3>1 DEF IsTagged
    <3>3. a = b /\ d = e
      BY <1>1, <1>2, <3>2, SameEnds
    <3>. QED  BY <3>1, <3>3
  <2>. QED  BY <2>1 DEF PlainColumns
<1>3. CASE d = <<>> /\ e # <<>>
  <2>1. columns[i].tag = columns[j].tag \o e
    <3>1. w = columns[i].tag \o <<>> /\ w = columns[j].tag \o e
      BY <1>3 DEF IsTagged, IsFollowed
    <3>. QED  BY <1>1, <3>1, ConcatEmptySeq
  <2>. QED  BY <1>3, <2>1 DEF PlainColumns, Tags
<1>4. CASE d # <<>> /\ e = <<>>
  <2>1. columns[j].tag = columns[i].tag \o d
    <3>1. w = columns[j].tag \o <<>> /\ w = columns[i].tag \o d
      BY <1>4 DEF IsTagged, IsFollowed
    <3>. QED  BY <1>1, <3>1, ConcatEmptySeq
  <2>. QED  BY <1>4, <2>1 DEF PlainColumns, Tags
<1>5. d # <<>> /\ e # <<>> => Len(d) = Len(e)
  BY DirectionType
<1>. QED  BY <1>2, <1>3, <1>4, <1>5

LEMMA SuffixWithout ==
    ASSUME NEW o \in Operators
    PROVE  FreeOf(o.suffix, "Or") /\ FreeOf(o.suffix, "And")
<1>1. PICK t : t = o.suffix
  OBVIOUS
<1>2. CASE t = <<>>
  BY <1>1, <1>2 DEF FreeOf
<1>3. CASE t \in {<<"Between">>, <<"In">>, <<"Like">>}
  <2>1. DOMAIN t = 1 .. 1 /\ t[1] \in {"Between", "In", "Like"}
    BY <1>3
  <2>. QED  BY <1>1, <2>1 DEF FreeOf
<1>4. CASE t \in {<<"Is", "Null">>, <<"Greater", "Than">>, <<"Less", "Than">>}
  <2>1. DOMAIN t = 1 .. 2 /\ t[1] \in {"Is", "Greater", "Less"} /\ t[2] \in {"Null", "Than"}
    BY <1>4
  <2>2. \A i \in 1 .. 2 : i = 1 \/ i = 2
    OBVIOUS
  <2>. QED  BY <1>1, <2>1, <2>2 DEF FreeOf
<1>5. CASE t \in {<<"Is", "Not", "Null">>, <<"Greater", "Than", "Equal">>, <<"Less", "Than", "Equal">>}
  <2>1. DOMAIN t = 1 .. 3 /\ t[1] \in {"Is", "Greater", "Less"} /\ t[2] \in {"Not", "Than"} /\ t[3] \in {"Null", "Equal"}
    BY <1>5
  <2>2. \A i \in 1 .. 3 : i = 1 \/ i = 2 \/ i = 3
    OBVIOUS
  <2>. QED  BY <1>1, <2>1, <2>2 DEF FreeOf
<1>. QED  BY <1>1, <1>2, <1>3, <1>4, <1>5, SuffixCases

\* A segment is the tag of a column and what may follow it.
LEMMA SegmentWords ==
    ASSUME columns \in Schemas, PlainColumns, NEW i \in DOMAIN columns, NEW t \in Seq(Words),
           FreeOf(t, "Or"), FreeOf(t, "And"), NEW segment, segment = columns[i].tag \o t
    PROVE  /\ segment \in Seq(Words) /\ StartsWithout(segment, "der")
           /\ FreeOf(segment, "Or") /\ FreeOf(segment, "And")
<1>1. PICK u \in Seq(Words) : u = columns[i].tag /\ u # <<>> /\ u[1] # "der"
  BY ColumnType
<1>2. FreeOf(u, "Or") /\ FreeOf(u, "And")
  BY <1>1 DEF PlainColumns, Tags, FreeOf
<1>3. PICK m, n \in Nat : m = Len(u) /\ n = Len(t) /\ DOMAIN u = 1 .. m /\ DOMAIN t = 1 .. n /\ m # 0
  <2>1. u # <<>>
    BY <1>1
  <2>2. PICK m \in Nat : m = Len(u) /\ DOMAIN u = 1 .. m /\ m # 0
    BY <2>1
  <2>3. PICK n \in Nat : n = Len(t) /\ DOMAIN t = 1 .. n
    OBVIOUS
  <2>. QED  BY <2>2, <2>3
<1>4. /\ segment \in Seq(Words) /\ Len(segment) = m + n /\ DOMAIN segment = 1 .. m + n
      /\ \A k \in 1 .. m + n : segment[k] = IF k <= m THEN u[k] ELSE t[k - m]
  BY <1>1, <1>3, ConcatProperties
<1>5. ASSUME NEW w, FreeOf(u, w), FreeOf(t, w) PROVE FreeOf(segment, w)
  <2>. SUFFICES ASSUME NEW k \in 1 .. m + n PROVE segment[k] # w
    BY <1>4 DEF FreeOf
  <2>1. CASE k <= m
    <3>1. k \in 1 .. m
      BY <2>1
    <3>2. segment[k] = u[k]
      BY <1>4, <2>1
    <3>. QED  BY <1>3, <1>5, <3>1, <3>2 DEF FreeOf
  <2>2. CASE ~(k <= m)
    <3>1. k - m \in 1 .. n
      BY <2>2
    <3>2. segment[k] = t[k - m]
      BY <1>4, <2>2
    <3>. QED  BY <1>3, <1>5, <3>1, <3>2 DEF FreeOf
  <2>. QED  BY <2>1, <2>2
<1>6. segment # <<>> /\ segment[1] = u[1]
  <2>1. 1 \in 1 .. m + n /\ 1 <= m
    BY <1>3
  <2>. QED  BY <1>4, <2>1
<1>. QED  BY <1>1, <1>2, <1>4, <1>5, <1>6 DEF StartsWithout

LEMMA PrintedPredicate ==
    ASSUME columns \in Schemas, PlainColumns, NEW p \in Predicate, p.path \in Paths
    PROVE  /\ PrintPredicate(p) \in Seq(Words) /\ StartsWithout(PrintPredicate(p), "der")
           /\ FreeOf(PrintPredicate(p), "Or") /\ FreeOf(PrintPredicate(p), "And")
           /\ ReadPredicate(PrintPredicate(p)) # {} /\ ParsePredicate(PrintPredicate(p)) = p
<1>1. PICK i \in DOMAIN columns : p.path = columns[i].path
  BY DEF Paths
<1>2. PICK o \in Operators : o = p.operator
  BY DEF Predicate
<1>3. PICK segment : segment = PrintPredicate(p) /\ segment = columns[i].tag \o o.suffix
  BY <1>1, <1>2, TagOfColumn DEF PrintPredicate
<1>4. /\ segment \in Seq(Words) /\ StartsWithout(segment, "der")
      /\ FreeOf(segment, "Or") /\ FreeOf(segment, "And")
  BY <1>3, SegmentWords, SuffixType, SuffixWithout
<1>5. ReadPredicate(segment) # {}
  BY <1>3 DEF ReadPredicate
<1>6. PICK j \in DOMAIN columns, u \in Operators :
          segment = columns[j].tag \o u.suffix /\ ParsePredicate(segment) = [path |-> columns[j].path, operator |-> u]
  BY <1>5, ReadsPredicate
<1>7. j = i /\ u = o
  <2>1. IsTagged(segment, i, o.suffix) /\ IsTagged(segment, j, u.suffix)
    BY <1>3, <1>6, Zenon DEF IsTagged, IsFollowed
  <2>. QED  BY <2>1, SameReading
<1>8. p = [path |-> p.path, operator |-> p.operator]
  BY DEF Predicate
<1>. QED  BY <1>1, <1>2, <1>3, <1>4, <1>5, <1>6, <1>7, <1>8

LEMMA PrintedOrder ==
    ASSUME columns \in Schemas, PlainColumns, NEW o \in OrderField, o.path \in Paths
    PROVE  /\ PrintOrder(o) \in Seq(Words) /\ StartsWithout(PrintOrder(o), "der")
           /\ FreeOf(PrintOrder(o), "Or") /\ FreeOf(PrintOrder(o), "And")
           /\ ReadOrder(PrintOrder(o)) # {} /\ ParseOrder(PrintOrder(o)) = o
<1>1. PICK i \in DOMAIN columns : o.path = columns[i].path
  BY DEF Paths
<1>2. PICK d \in Directions : d = IF o.direction = "DESC" THEN <<"Desc">> ELSE <<>>
  BY DEF Directions
<1>3. PICK segment : segment = PrintOrder(o) /\ segment = columns[i].tag \o d
  BY <1>1, <1>2, TagOfColumn DEF PrintOrder
<1>4. /\ segment \in Seq(Words) /\ StartsWithout(segment, "der")
      /\ FreeOf(segment, "Or") /\ FreeOf(segment, "And")
  BY <1>3, SegmentWords, DirectionType
<1>5. ReadOrder(segment) # {}
  BY <1>3 DEF ReadOrder
<1>6. PICK j \in DOMAIN columns, e \in Directions :
          /\ segment = columns[j].tag \o e
          /\ ParseOrder(segment) = [path |-> columns[j].path,
                                    direction |-> IF segment = columns[j].tag \o <<"Desc">> THEN "DESC" ELSE "ASC"]
  BY <1>5, ReadsOrder
<1>7. j = i
  <2>1. IsTagged(segment, i, d) /\ IsTagged(segment, j, e)
    BY <1>3, <1>6, Zenon DEF IsTagged, IsFollowed
  <2>. QED  BY <2>1, SameSorting
<1>8. segment = columns[i].tag \o <<"Desc">> <=> d = <<"Desc">>
  <2>1. PICK desc \in Directions : desc = <<"Desc">>
    BY DEF Directions
  <2>2. IsTagged(segment, i, d)
    BY <1>3, Zenon DEF IsTagged, IsFollowed
  <2>3. IsTagged(segment, i, desc) => d = desc
    BY <2>2, SameSorting
  <2>4. IsTagged(segment, i, desc) <=> segment = columns[i].tag \o desc
    BY Zenon DEF IsTagged, IsFollowed
  <2>5. d = desc => IsTagged(segment, i, desc)
    BY <2>2
  <2>. QED  BY <2>1, <2>3, <2>4, <2>5
<1>9. d = <<"Desc">> <=> o.direction = "DESC"
  <2>1. Len(<<"Desc">>) = 1 /\ Len(<<>>) = 0
    OBVIOUS
  <2>2. <<"Desc">> # <<>>
    BY DirectionType, <2>1 DEF Directions
  <2>. QED  BY <1>2, <2>2
<1>10. o = [path |-> o.path, direction |-> o.direction] /\ o.direction \in {"ASC", "DESC"}
  BY DEF OrderField
<1>11. ParseOrder(segment) = o
  BY <1>1, <1>6, <1>7, <1>8, <1>9, <1>10
<1>. QED  BY <1>3, <1>4, <1>5, <1>11

\* What is joined from segments can be split into them again.
LEMMA SegmentsAgain ==
    ASSUME NEW s \in Splits(Words),
           \A k \in DOMAIN s : StartsWithout(s[k], "der") /\ FreeOf(s[k], "Or") /\ FreeOf(s[k], "And")
    PROVE  /\ Join(s, "And") \in Seq(Words) /\ Split(Join(s, "And"), "And") = s
           /\ StartsWithout(Join(s, "And"), "der") /\ FreeOf(Join(s, "And"), "Or")
<1>1. "And" \in Words /\ s \in Seq(Seq(Words))
  BY DEF Words, Splits
<1>2. Join(s, "And") \in Seq(Words)
  BY <1>1, JoinType
<1>3. Split(Join(s, "And"), "And") = s
  BY <1>1, SplitJoin
<1>4. StartsWithout(Join(s, "And"), "der") /\ Separates(Join(s, "And"), "Or", "And", "der")
  BY <1>1, JoinSeparates
<1>5. FreeOf(Join(s, "And"), "Or")
  BY <1>4 DEF Separates, FreeOf
<1>. QED  BY <1>2, <1>3, <1>4, <1>5

LEMMA AlternativesAgain ==
    ASSUME NEW s \in Splits(Words), \A k \in DOMAIN s : StartsWithout(s[k], "der") /\ FreeOf(s[k], "Or")
    PROVE  /\ Join(s, "Or") \in Seq(Words) /\ Split(Join(s, "Or"), "Or") = s
           /\ StartsWithout(Join(s, "Or"), "der") /\ Separates(Join(s, "Or"), "Or", "Or", "der")
<1>1. "Or" \in Words /\ s \in Seq(Seq(Words))
  BY DEF Words, Splits
<1>. QED  BY <1>1, JoinType, SplitJoin, JoinSeparates

LEMMA SubSeqOf ==
    ASSUME NEW S, NEW s \in Seq(S), NEW p \in Nat, NEW n \in Nat, p + n <= Len(s)
    PROVE  /\ SubSeq(s, p + 1, p + n) \in Seq(S) /\ Len(SubSeq(s, p + 1, p + n)) = n
           /\ \A k \in 1 .. n : SubSeq(s, p + 1, p + n)[k] = s[p + k]
<1>1. \A i \in p + 1 .. p + n : s[i] \in S
  <2>1. \A i \in p + 1 .. p + n : i \in 1 .. Len(s)
    OBVIOUS
  <2>. QED  BY <2>1, ElementOfSeq
<1>2. PICK i, j \in Int : i = p + 1 /\ j = p + n
  OBVIOUS
<1>3. /\ SubSeq(s, i, j) \in Seq(S) /\ Len(SubSeq(s, i, j)) = (IF i <= j THEN j - i + 1 ELSE 0)
      /\ \A k \in 1 .. j - i + 1 : SubSeq(s, i, j)[k] = s[i + k - 1]
  BY <1>1, <1>2, SubSeqProperties
<1>4. Len(SubSeq(s, i, j)) = n
  BY <1>2, <1>3
<1>5. ASSUME NEW k \in 1 .. n PROVE SubSeq(s, i, j)[k] = s[p + k]
  <2>1. k \in 1 .. j - i + 1 /\ i + k - 1 = p + k
    BY <1>2
  <2>2. SubSeq(s, i, j)[k] = s[i + k - 1]
    BY <1>3, <2>1
  <2>. QED  BY <2>1, <2>2
<1>. QED  BY <1>2, <1>3, <1>4, <1>5

LEMMA SubSeqIs ==
    ASSUME NEW S, NEW s \in Seq(S), NEW t \in Seq(S), NEW p \in Nat, NEW n \in Nat, n = Len(t), p + n <= Len(s),
           \A k \in 1 .. n : s[p + k] = t[k]
    PROVE  SubSeq(s, p + 1, p + n) = t
<1>0. /\ SubSeq(s, p + 1, p + n) \in Seq(S) /\ Len(SubSeq(s, p + 1, p + n)) = n
      /\ \A k \in 1 .. n : SubSeq(s, p + 1, p + n)[k] = s[p + k]
  BY SubSeqOf
<1>1. PICK u \in Seq(S) : u = SubSeq(s, p + 1, p + n) /\ Len(u) = n /\ \A k \in 1 .. n : u[k] = s[p + k]
  BY <1>0, Zenon
<1>2. Len(u) = Len(t) /\ \A k \in 1 .. Len(u) : u[k] = t[k]
  BY <1>1
<1>. QED  BY <1>1, <1>2, SeqEqual

\* Where OrderBy is.
LEMMA OrderByAt ==
    ASSUME NEW s \in Seq(Words), NEW i \in OrderBys(s)
    PROVE  i \in 1 .. Len(s) - 2 /\ s[i] = "Or" /\ s[i + 1] = "der"
<1>1. i \in 1 .. Len(s) - 2 /\ SubSeq(s, i, i + 2) = OrderBy
  BY DEF OrderBys
<1>2. PICK p \in Nat : i = p + 1 /\ i + 2 = p + 3 /\ p + 3 <= Len(s)
  <2>1. i - 1 \in Nat /\ i = (i - 1) + 1 /\ i + 2 = (i - 1) + 3 /\ (i - 1) + 3 <= Len(s)
    <3>1. Len(s) \in Nat
      OBVIOUS
    <3>. QED  BY <1>1, <3>1
  <2>. QED  BY <2>1
<1>3. \A k \in 1 .. 3 : SubSeq(s, p + 1, p + 3)[k] = s[p + k]
  BY <1>2, SubSeqOf
<1>4. OrderBy[1] = s[p + 1] /\ OrderBy[2] = s[p + 2]
  <2>1. 1 \in 1 .. 3 /\ 2 \in 1 .. 3
    OBVIOUS
  <2>2. SubSeq(s, p + 1, p + 3) = OrderBy
    BY <1>1, <1>2
  <2>. QED  BY <1>3, <2>1, <2>2
<1>5. i + 1 = p + 2
  BY <1>2
<1>. QED  BY <1>1, <1>2, <1>4, <1>5, OrderByType

\* A name is a text, the three words of OrderBy, and the order.
IsOrdered(body, text, sorts) ==
    \E rest \in Seq(Words) : IsFollowed(body, text, rest) /\ IsFollowed(rest, OrderBy, sorts)

LEMMA OrderedName ==
    ASSUME NEW text \in Seq(Words), NEW sorts \in Seq(Words)
    PROVE  text \o (OrderBy \o sorts) \in Seq(Words) /\ IsOrdered(text \o (OrderBy \o sorts), text, sorts)
<1>1. OrderBy \o sorts \in Seq(Words)
  BY OrderByType, ConcatProperties
<1>2. text \o (OrderBy \o sorts) \in Seq(Words)
  BY <1>1, ConcatProperties
<1>3. IsFollowed(text \o (OrderBy \o sorts), text, OrderBy \o sorts) /\ IsFollowed(OrderBy \o sorts, OrderBy, sorts)
  BY Zenon DEF IsFollowed
<1>. QED  BY <1>1, <1>2, <1>3, Zenon DEF IsOrdered

LEMMA WordsOfName ==
    ASSUME NEW text \in Seq(Words), NEW sorts \in Seq(Words), NEW body \in Seq(Words), IsOrdered(body, text, sorts)
    PROVE  /\ Len(body) = Len(text) + 3 + Len(sorts)
           /\ \A i \in 1 .. Len(text) : body[i] = text[i]
           /\ body[Len(text) + 1] = "Or" /\ body[Len(text) + 2] = "der" /\ body[Len(text) + 3] = "By"
           /\ \A k \in 1 .. Len(sorts) : body[Len(text) + 3 + k] = sorts[k]
<1>0. PICK m, n \in Nat : m = Len(text) /\ n = Len(sorts)
  OBVIOUS
<1>1. PICK rest \in Seq(Words) : IsFollowed(body, text, rest) /\ IsFollowed(rest, OrderBy, sorts)
  BY DEF IsOrdered
<1>2. PICK by \in Seq(Words) : by = OrderBy /\ Len(by) = 3
  BY OrderByType
<1>2a. IsFollowed(rest, by, sorts)
  BY <1>1, <1>2
<1>3. HasEnds(rest, by, sorts)
  BY <1>2a, FollowedHasEnds
<1>5. HasEnds(body, text, rest)
  BY <1>1, FollowedHasEnds
<1>4. /\ Len(rest) = 3 + n /\ \A i \in 1 .. 3 : rest[i] = OrderBy[i]
      /\ \A k \in 1 .. n : rest[3 + k] = sorts[k]
  BY <1>0, <1>2, <1>3 DEF HasEnds
<1>6. /\ Len(body) = m + (3 + n) /\ \A i \in 1 .. m : body[i] = text[i]
      /\ \A k \in 1 .. 3 + n : body[m + k] = rest[k]
  BY <1>0, <1>4, <1>5 DEF HasEnds
<1>8. body[m + 1] = rest[1] /\ body[m + 2] = rest[2] /\ body[m + 3] = rest[3]
  <2>1. 1 \in 1 .. 3 + n /\ 2 \in 1 .. 3 + n /\ 3 \in 1 .. 3 + n
    OBVIOUS
  <2>. QED  BY <1>6, <2>1
<1>9. rest[1] = "Or" /\ rest[2] = "der" /\ rest[3] = "By"
  <2>1. 1 \in 1 .. 3 /\ 2 \in 1 .. 3 /\ 3 \in 1 .. 3
    OBVIOUS
  <2>. QED  BY <1>4, <2>1, OrderByType
<1>10. ASSUME NEW k \in 1 .. n PROVE body[m + 3 + k] = sorts[k]
  <2>1. 3 + k \in 1 .. 3 + n /\ m + (3 + k) = m + 3 + k
    OBVIOUS
  <2>2. body[m + (3 + k)] = rest[3 + k]
    BY <1>6, <2>1
  <2>. QED  BY <1>4, <2>1, <2>2
<1>. QED  BY <1>0, <1>6, <1>8, <1>9, <1>10

\* The only OrderBy of a name is the one between the predicates and the order.
LEMMA PlaceOfOrderBy ==
    ASSUME NEW text \in Seq(Words), Separates(text, "Or", "Or", "der"), NEW sorts \in Seq(Words), FreeOf(sorts, "Or"),
           NEW body \in Seq(Words), IsOrdered(body, text, sorts)
    PROVE  /\ OrderBys(text) = {} /\ OrderBys(body) = {Len(text) + 1}
           /\ PredicateText(body) = text /\ OrderText(body) = sorts
<1>1. PICK m, n \in Nat : m = Len(text) /\ n = Len(sorts) /\ DOMAIN text = 1 .. m /\ DOMAIN sorts = 1 .. n
  OBVIOUS
<1>2. /\ Len(body) = m + 3 + n
      /\ \A i \in 1 .. m : body[i] = text[i]
      /\ body[m + 1] = "Or" /\ body[m + 2] = "der" /\ body[m + 3] = "By"
      /\ \A k \in 1 .. n : body[m + 3 + k] = sorts[k]
  <2>1. /\ Len(body) = Len(text) + 3 + Len(sorts)
        /\ \A i \in 1 .. Len(text) : body[i] = text[i]
        /\ body[Len(text) + 1] = "Or" /\ body[Len(text) + 2] = "der" /\ body[Len(text) + 3] = "By"
        /\ \A k \in 1 .. Len(sorts) : body[Len(text) + 3 + k] = sorts[k]
    BY WordsOfName
  <2>. QED  BY <1>1, <2>1
<1>3. OrderBys(text) = {}
  <2>. SUFFICES ASSUME NEW i \in OrderBys(text) PROVE FALSE
    OBVIOUS
  <2>0. i \in 1 .. Len(text) - 2 /\ text[i] = "Or" /\ text[i + 1] = "der"
    BY OrderByAt
  <2>1. i \in 1 .. m /\ text[i] = "Or" /\ text[i + 1] = "der"
    BY <1>1, <2>0
  <2>. QED  BY <1>1, <2>1 DEF Separates
<1>4. ASSUME NEW i \in OrderBys(body) PROVE i = m + 1
  <2>0. i \in 1 .. Len(body) - 2 /\ body[i] = "Or" /\ body[i + 1] = "der"
    BY OrderByAt
  <2>1. i \in 1 .. m + 3 + n /\ body[i] = "Or" /\ body[i + 1] = "der"
    BY <1>2, <2>0
  <2>2. CASE i \in 1 .. m
    <3>1. text[i] = "Or"
      BY <1>2, <2>1, <2>2
    <3>2. i + 1 \in 1 .. m /\ text[i + 1] # "der"
      BY <1>1, <2>2, <3>1 DEF Separates
    <3>. QED  BY <1>2, <2>1, <3>2
  <2>3. CASE i \in m + 1 .. m + 3
    <3>1. i = m + 1 \/ i = m + 2 \/ i = m + 3
      BY <2>3
    <3>. QED  BY <1>2, <2>1, <3>1
  <2>4. CASE i > m + 3
    <3>1. PICK k \in 1 .. n : i = m + 3 + k
      <4>1. i - (m + 3) \in 1 .. n /\ i = m + 3 + (i - (m + 3))
        BY <2>1, <2>4
      <4>. QED  BY <4>1
    <3>2. body[i] = sorts[k]
      BY <1>2, <3>1
    <3>. QED  BY <1>1, <2>1, <3>2 DEF FreeOf
  <2>. QED  BY <2>1, <2>2, <2>3, <2>4
<1>5. SubSeq(body, m + 1, m + 3) = OrderBy
  <2>1. \A k \in 1 .. 3 : body[m + k] = OrderBy[k]
    <3>1. \A k \in 1 .. 3 : k = 1 \/ k = 2 \/ k = 3
      OBVIOUS
    <3>. QED  BY <1>2, <3>1, OrderByType
  <2>2. m + 3 <= Len(body) /\ 3 \in Nat /\ 3 = Len(OrderBy) /\ OrderBy \in Seq(Words)
    BY <1>2, OrderByType
  <2>. QED  BY <1>2, <2>1, <2>2, SubSeqIs
<1>6. OrderBys(body) = {m + 1}
  <2>1. m + 1 \in 1 .. Len(body) - 2 /\ (m + 1) + 2 = m + 3
    BY <1>2
  <2>2. m + 1 \in OrderBys(body)
    BY <1>5, <2>1 DEF OrderBys
  <2>. QED  BY <1>4, <2>2
<1>7. FirstOrderBy(body) = m + 1
  <2>1. FirstOrderBy(body) = CHOOSE i \in {m + 1} : \A j \in {m + 1} : i <= j
    BY <1>6 DEF FirstOrderBy
  <2>. QED  BY <2>1
<1>8. PredicateText(body) = SubSeq(body, 0 + 1, 0 + m) /\ OrderText(body) = SubSeq(body, (m + 3) + 1, (m + 3) + n)
  <2>1. (m + 1) - 1 = 0 + m /\ (m + 1) + 3 = (m + 3) + 1 /\ 0 + 1 = 1
    OBVIOUS
  <2>. QED  BY <1>2, <1>6, <1>7, <2>1 DEF PredicateText, OrderText
<1>9. SubSeq(body, 0 + 1, 0 + m) = text
  <2>1. \A k \in 1 .. m : body[0 + k] = text[k]
    BY <1>2
  <2>2. 0 + m <= Len(body) /\ 0 \in Nat
    BY <1>2
  <2>. QED  BY <1>1, <1>2, <2>1, <2>2, SubSeqIs
<1>10. SubSeq(body, (m + 3) + 1, (m + 3) + n) = sorts
  <2>1. m + 3 \in Nat /\ (m + 3) + n <= Len(body)
    BY <1>2
  <2>. QED  BY <1>1, <1>2, <2>1, SubSeqIs
<1>. QED  BY <1>1, <1>3, <1>6, <1>8, <1>9, <1>10


\* What is read from the text of the predicates that are printed.
LEMMA GroupSaid ==
    ASSUME columns \in Schemas, PlainColumns, NEW group \in Seq(Predicate) \ {<<>>},
           \A p \in DOMAIN group : group[p].path \in Paths
    PROVE  \E segments \in Splits(Words) :
               /\ segments = [p \in DOMAIN group |-> PrintPredicate(group[p])]
               /\ Split(Join(segments, "And"), "And") = segments
               /\ StartsWithout(Join(segments, "And"), "der") /\ FreeOf(Join(segments, "And"), "Or")
               /\ \A p \in DOMAIN segments : ReadPredicate(segments[p]) # {}
               /\ group = [p \in DOMAIN segments |-> ParsePredicate(segments[p])]
<1>1. PICK n \in Nat : DOMAIN group = 1 .. n /\ n # 0
  OBVIOUS
<1>2. \A p \in 1 .. n : group[p] \in Predicate
  BY <1>1
<1>3. PICK segments : segments = [p \in 1 .. n |-> PrintPredicate(group[p])]
  OBVIOUS
<1>4. \A p \in 1 .. n :
        /\ segments[p] \in Seq(Words) /\ StartsWithout(segments[p], "der")
        /\ FreeOf(segments[p], "Or") /\ FreeOf(segments[p], "And")
        /\ ReadPredicate(segments[p]) # {} /\ ParsePredicate(segments[p]) = group[p]
  <2>. SUFFICES ASSUME NEW p \in 1 .. n
                PROVE  /\ segments[p] \in Seq(Words) /\ StartsWithout(segments[p], "der")
                       /\ FreeOf(segments[p], "Or") /\ FreeOf(segments[p], "And")
                       /\ ReadPredicate(segments[p]) # {} /\ ParsePredicate(segments[p]) = group[p]
    OBVIOUS
  <2>1. PICK q \in Predicate : q = group[p] /\ q.path \in Paths
    BY <1>1, <1>2
  <2>2. segments[p] = PrintPredicate(q)
    BY <1>3, <2>1
  <2>3. /\ PrintPredicate(q) \in Seq(Words) /\ StartsWithout(PrintPredicate(q), "der")
        /\ FreeOf(PrintPredicate(q), "Or") /\ FreeOf(PrintPredicate(q), "And")
        /\ ReadPredicate(PrintPredicate(q)) # {} /\ ParsePredicate(PrintPredicate(q)) = q
    BY <2>1, PrintedPredicate
  <2>. QED  BY <2>1, <2>2, <2>3
<1>5. segments \in Splits(Words) /\ DOMAIN segments = 1 .. n
  <2>1. DOMAIN segments = 1 .. n /\ segments = [p \in 1 .. n |-> segments[p]]
    BY <1>3
  <2>2. [p \in 1 .. n |-> segments[p]] \in Seq(Seq(Words))
    BY <1>4
  <2>3. segments \in Seq(Seq(Words))
    BY <2>1, <2>2
  <2>4. segments # <<>>
    BY <1>1, <2>1
  <2>. QED  BY <2>1, <2>3, <2>4 DEF Splits
<1>6. /\ Split(Join(segments, "And"), "And") = segments
      /\ StartsWithout(Join(segments, "And"), "der") /\ FreeOf(Join(segments, "And"), "Or")
  BY <1>4, <1>5, SegmentsAgain
<1>7. group = [p \in DOMAIN segments |-> ParsePredicate(segments[p])]
  <2>1. group = [p \in 1 .. n |-> group[p]]
    BY <1>1
  <2>. QED  BY <1>4, <1>5, <2>1
<1>. QED  BY <1>1, <1>3, <1>4, <1>5, <1>6, <1>7

LEMMA GroupsSaid ==
    ASSUME columns \in Schemas, PlainColumns, NEW groups \in Seq(Seq(Predicate) \ {<<>>}) \ {<<>>},
           \A g \in DOMAIN groups : \A p \in DOMAIN groups[g] : groups[g][p].path \in Paths
    PROVE  \E text \in Seq(Words) :
               /\ text = PrintGroups(groups) /\ text # <<>> /\ Separates(text, "Or", "Or", "der")
               /\ \A g \in DOMAIN GroupsOf(text) : \A p \in DOMAIN GroupsOf(text)[g] :
                    ReadPredicate(GroupsOf(text)[g][p]) # {}
               /\ groups = [g \in DOMAIN GroupsOf(text) |-> [p \in DOMAIN GroupsOf(text)[g] |->
                               ParsePredicate(GroupsOf(text)[g][p])]]
<1>1. PICK n \in Nat : DOMAIN groups = 1 .. n /\ n # 0
  OBVIOUS
<1>2. \A g \in 1 .. n : groups[g] \in Seq(Predicate) \ {<<>>}
  BY <1>1
<1>. DEFINE Says(group, segments) ==
               /\ segments = [p \in DOMAIN group |-> PrintPredicate(group[p])]
               /\ Split(Join(segments, "And"), "And") = segments
               /\ StartsWithout(Join(segments, "And"), "der") /\ FreeOf(Join(segments, "And"), "Or")
               /\ \A p \in DOMAIN segments : ReadPredicate(segments[p]) # {}
               /\ group = [p \in DOMAIN segments |-> ParsePredicate(segments[p])]
            all == [g \in 1 .. n |-> [p \in DOMAIN groups[g] |-> PrintPredicate(groups[g][p])]]
<1>3. ASSUME NEW g \in 1 .. n PROVE all[g] \in Splits(Words) /\ Says(groups[g], all[g])
  <2>1. PICK group \in Seq(Predicate) \ {<<>>} : group = groups[g] /\ \A p \in DOMAIN group : group[p].path \in Paths
    BY <1>1, <1>2
  <2>2. PICK segments \in Splits(Words) : Says(group, segments)
    BY <2>1, GroupSaid
  <2>3. all[g] = segments
    BY <2>1, <2>2
  <2>. HIDE DEF all, Says
  <2>. QED  BY <2>1, <2>2, <2>3
<1>4. DOMAIN all = 1 .. n
  OBVIOUS
<1>5. PrintGroups(groups) = Join([g \in 1 .. n |-> Join(all[g], "And")], "Or")
  BY <1>1 DEF PrintGroups
<1>. HIDE DEF all
<1>6. PICK ors : ors = [g \in 1 .. n |-> Join(all[g], "And")]
  OBVIOUS
<1>7. \A g \in 1 .. n : /\ ors[g] \in Seq(Words) /\ Split(ors[g], "And") = all[g]
                        /\ StartsWithout(ors[g], "der") /\ FreeOf(ors[g], "Or")
  <2>. SUFFICES ASSUME NEW g \in 1 .. n
                PROVE  /\ ors[g] \in Seq(Words) /\ Split(ors[g], "And") = all[g]
                       /\ StartsWithout(ors[g], "der") /\ FreeOf(ors[g], "Or")
    OBVIOUS
  <2>1. all[g] \in Seq(Seq(Words)) /\ "And" \in Words
    BY <1>3 DEF Splits, Words
  <2>2. Join(all[g], "And") \in Seq(Words)
    BY <2>1, JoinType
  <2>. QED  BY <1>3, <1>6, <2>2
<1>8. ors \in Splits(Words) /\ DOMAIN ors = 1 .. n
  <2>1. DOMAIN ors = 1 .. n /\ ors = [g \in 1 .. n |-> ors[g]]
    BY <1>6
  <2>2. [g \in 1 .. n |-> ors[g]] \in Seq(Seq(Words))
    BY <1>7
  <2>3. ors \in Seq(Seq(Words))
    BY <2>1, <2>2
  <2>4. ors # <<>>
    BY <1>1, <2>1
  <2>. QED  BY <2>1, <2>3, <2>4 DEF Splits
<1>9. PICK text : text = Join(ors, "Or")
  OBVIOUS
<1>10. /\ text \in Seq(Words) /\ Split(text, "Or") = ors
       /\ StartsWithout(text, "der") /\ Separates(text, "Or", "Or", "der")
  BY <1>7, <1>8, <1>9, AlternativesAgain
<1>11. GroupsOf(text) = all
  <2>1. GroupsOf(text) = [g \in 1 .. n |-> Split(ors[g], "And")]
    BY <1>8, <1>10 DEF GroupsOf
  <2>2. all = [g \in 1 .. n |-> all[g]]
    BY DEF all
  <2>. QED  BY <1>7, <2>1, <2>2
<1>12. \A g \in DOMAIN all : \A p \in DOMAIN all[g] : ReadPredicate(all[g][p]) # {}
  BY <1>3, <1>4
<1>13. groups = [g \in DOMAIN all |-> [p \in DOMAIN all[g] |-> ParsePredicate(all[g][p])]]
  <2>1. groups = [g \in 1 .. n |-> groups[g]]
    BY <1>1
  <2>2. \A g \in 1 .. n : groups[g] = [p \in DOMAIN all[g] |-> ParsePredicate(all[g][p])]
    BY <1>3
  <2>. QED  BY <1>4, <2>1, <2>2
<1>14. text = PrintGroups(groups) /\ text # <<>>
  BY <1>5, <1>6, <1>9, <1>10 DEF StartsWithout
<1>. QED  BY <1>10, <1>11, <1>12, <1>13, <1>14

\* What is read from the text of the order that is printed.
LEMMA OrdersSaid ==
    ASSUME columns \in Schemas, PlainColumns, NEW order \in Seq(OrderField), order # <<>>,
           \A i \in DOMAIN order : order[i].path \in Paths
    PROVE  \E sorts \in Seq(Words) :
               /\ PrintOrders(order) = OrderBy \o sorts /\ sorts # <<>> /\ FreeOf(sorts, "Or")
               /\ \A i \in DOMAIN OrderOf(sorts) : ReadOrder(OrderOf(sorts)[i]) # {}
               /\ order = [i \in DOMAIN OrderOf(sorts) |-> ParseOrder(OrderOf(sorts)[i])]
<1>1. PICK n \in Nat : DOMAIN order = 1 .. n /\ n # 0
  OBVIOUS
<1>2. \A i \in 1 .. n : order[i] \in OrderField
  BY <1>1
<1>3. PICK segments : segments = [i \in 1 .. n |-> PrintOrder(order[i])]
  OBVIOUS
<1>4. \A i \in 1 .. n :
        /\ segments[i] \in Seq(Words) /\ StartsWithout(segments[i], "der")
        /\ FreeOf(segments[i], "Or") /\ FreeOf(segments[i], "And")
        /\ ReadOrder(segments[i]) # {} /\ ParseOrder(segments[i]) = order[i]
  <2>. SUFFICES ASSUME NEW i \in 1 .. n
                PROVE  /\ segments[i] \in Seq(Words) /\ StartsWithout(segments[i], "der")
                       /\ FreeOf(segments[i], "Or") /\ FreeOf(segments[i], "And")
                       /\ ReadOrder(segments[i]) # {} /\ ParseOrder(segments[i]) = order[i]
    OBVIOUS
  <2>1. PICK o \in OrderField : o = order[i] /\ o.path \in Paths
    BY <1>1, <1>2
  <2>2. segments[i] = PrintOrder(o)
    BY <1>3, <2>1
  <2>3. /\ PrintOrder(o) \in Seq(Words) /\ StartsWithout(PrintOrder(o), "der")
        /\ FreeOf(PrintOrder(o), "Or") /\ FreeOf(PrintOrder(o), "And")
        /\ ReadOrder(PrintOrder(o)) # {} /\ ParseOrder(PrintOrder(o)) = o
    BY <2>1, PrintedOrder
  <2>. QED  BY <2>1, <2>2, <2>3
<1>5. segments \in Splits(Words) /\ DOMAIN segments = 1 .. n
  <2>1. DOMAIN segments = 1 .. n /\ segments = [i \in 1 .. n |-> segments[i]]
    BY <1>3
  <2>2. [i \in 1 .. n |-> segments[i]] \in Seq(Seq(Words))
    BY <1>4
  <2>3. segments \in Seq(Seq(Words))
    BY <2>1, <2>2
  <2>4. segments # <<>>
    BY <1>1, <2>1
  <2>. QED  BY <2>1, <2>3, <2>4 DEF Splits
<1>6. PICK sorts : sorts = Join(segments, "And")
  OBVIOUS
<1>7. /\ sorts \in Seq(Words) /\ Split(sorts, "And") = segments
      /\ StartsWithout(sorts, "der") /\ FreeOf(sorts, "Or")
  BY <1>4, <1>5, <1>6, SegmentsAgain
<1>8. sorts # <<>> /\ OrderOf(sorts) = segments
  BY <1>7 DEF StartsWithout, OrderOf
<1>9. PrintOrders(order) = OrderBy \o sorts
  BY <1>1, <1>3, <1>6 DEF PrintOrders
<1>10. order = [i \in DOMAIN segments |-> ParseOrder(segments[i])]
  <2>1. order = [i \in 1 .. n |-> order[i]]
    BY <1>1
  <2>. QED  BY <1>4, <1>5, <2>1
<1>. QED  BY <1>4, <1>5, <1>7, <1>8, <1>9, <1>10

-----------------------------------------------------------------------------
(* Derived queries: what a call reads and selects.                         *)

\* Every query has a prefix.
LEMMA OperationHasPrefix ==
    ASSUME NEW operation \in {"findOne", "findMany", "count", "exists"}
    PROVE  \E prefix \in QueryPrefixes :
               /\ (CHOOSE p \in QueryPrefixes : OperationOf(p) = operation) = prefix
               /\ OperationOf(prefix) = operation
<1>1. PICK prefix \in QueryPrefixes : OperationOf(prefix) = operation
  BY DEF QueryPrefixes, OperationOf
<1>. QED  BY <1>1, PrefixOfOperation

LEMMA UsesPaths ==
    ASSUME NEW query \in Query, Uses(query) \subseteq Paths
    PROVE  /\ query.groups \in Seq(Seq(Predicate) \ {<<>>}) \ {<<>>} /\ query.order \in Seq(OrderField)
           /\ query.operation \in {"findOne", "findMany", "count", "exists"}
           /\ \A g \in DOMAIN query.groups : \A p \in DOMAIN query.groups[g] : query.groups[g][p].path \in Paths
           /\ \A i \in DOMAIN query.order : query.order[i].path \in Paths
<1>1. \A g \in DOMAIN query.groups : \A p \in DOMAIN query.groups[g] : query.groups[g][p].path \in Uses(query)
  <2>. SUFFICES ASSUME NEW g \in DOMAIN query.groups, NEW p \in DOMAIN query.groups[g]
                PROVE  query.groups[g][p].path \in Uses(query)
    OBVIOUS
  <2>1. <<g, p>> \in PredicatePlaces(query.groups)
    BY DEF PredicatePlaces
  <2>2. query.groups[<<g, p>>[1]][<<g, p>>[2]].path \in Uses(query)
    BY <2>1 DEF Uses
  <2>. QED  BY <2>2
<1>2. \A i \in DOMAIN query.order : query.order[i].path \in Uses(query)
  BY DEF Uses
<1>3. /\ query.groups \in Seq(Seq(Predicate) \ {<<>>}) \ {<<>>} /\ query.order \in Seq(OrderField)
      /\ query.operation \in {"findOne", "findMany", "count", "exists"}
  BY DEF Query
<1>. QED  BY <1>1, <1>2, <1>3

LEMMA WhatIsSaid ==
    ASSUME columns \in Schemas, PlainColumns, NEW query \in Query, Uses(query) \subseteq Paths
    PROVE  Parse(PrintName(query)) = Said(query)
<1>1. PICK groups, order, operation :
          /\ groups = query.groups /\ order = query.order /\ operation = query.operation
          /\ groups \in Seq(Seq(Predicate) \ {<<>>}) \ {<<>>} /\ order \in Seq(OrderField)
          /\ operation \in {"findOne", "findMany", "count", "exists"}
          /\ \A g \in DOMAIN groups : \A p \in DOMAIN groups[g] : groups[g][p].path \in Paths
          /\ \A i \in DOMAIN order : order[i].path \in Paths
  BY UsesPaths
<1>2. PICK prefix \in QueryPrefixes :
          /\ (CHOOSE p \in QueryPrefixes : OperationOf(p) = operation) = prefix
          /\ OperationOf(prefix) = operation
  BY <1>1, OperationHasPrefix
<1>3. PICK text \in Seq(Words) :
          /\ text = PrintGroups(groups) /\ text # <<>> /\ Separates(text, "Or", "Or", "der")
          /\ \A g \in DOMAIN GroupsOf(text) : \A p \in DOMAIN GroupsOf(text)[g] :
               ReadPredicate(GroupsOf(text)[g][p]) # {}
          /\ groups = [g \in DOMAIN GroupsOf(text) |-> [p \in DOMAIN GroupsOf(text)[g] |->
                          ParsePredicate(GroupsOf(text)[g][p])]]
  BY <1>1, GroupsSaid
<1>4. PICK method : method = PrintName(query)
  OBVIOUS
<1>5. PICK body \in Seq(Words), sorts \in Seq(Words) :
          /\ body = text \o PrintOrders(order) /\ body # <<>>
          /\ PredicateText(body) = text /\ OrderText(body) = sorts
          /\ \A i, j \in OrderBys(body) : i = j
          /\ OrderBys(body) # {} => sorts # <<>>
          /\ \A i \in DOMAIN OrderOf(sorts) : ReadOrder(OrderOf(sorts)[i]) # {}
          /\ order = [i \in DOMAIN OrderOf(sorts) |-> ParseOrder(OrderOf(sorts)[i])]
  <2>1. CASE order = <<>>
    <3>1. PICK none : none = PrintOrders(order) /\ none = <<>>
      BY <2>1 DEF PrintOrders
    <3>2. text \o none = text
      BY <3>1
    <3>3. PICK n \in Nat : n = Len(text)
      OBVIOUS
    <3>4. OrderBys(text) = {}
      <4>. SUFFICES ASSUME NEW i \in OrderBys(text) PROVE FALSE
        OBVIOUS
      <4>1. i \in 1 .. Len(text) - 2 /\ text[i] = "Or" /\ text[i + 1] = "der"
        BY OrderByAt
      <4>2. i \in DOMAIN text
        BY <3>3, <4>1
      <4>. QED  BY <1>3, <4>1, <4>2 DEF Separates
    <3>5. PredicateText(text) = text /\ OrderText(text) = <<>>
      BY <3>4 DEF PredicateText, OrderText
    <3>6. OrderOf(<<>>) = <<>> /\ <<>> \in Seq(Words)
      BY DEF OrderOf
    <3>7. order = [i \in DOMAIN OrderOf(<<>>) |-> ParseOrder(OrderOf(<<>>)[i])]
      <4>1. \A f : [i \in {} |-> f[i]] = <<>>
        OBVIOUS
      <4>2. DOMAIN OrderOf(<<>>) = {}
        BY <3>6
      <4>. QED  BY <2>1, <4>2
    <3>. QED  BY <1>3, <3>1, <3>2, <3>4, <3>5, <3>6, <3>7
  <2>2. CASE order # <<>>
    <3>1. PICK sorts \in Seq(Words) :
              /\ PrintOrders(order) = OrderBy \o sorts /\ sorts # <<>> /\ FreeOf(sorts, "Or")
              /\ \A i \in DOMAIN OrderOf(sorts) : ReadOrder(OrderOf(sorts)[i]) # {}
              /\ order = [i \in DOMAIN OrderOf(sorts) |-> ParseOrder(OrderOf(sorts)[i])]
      BY <1>1, <2>2, OrdersSaid
    <3>2. PICK body \in Seq(Words) : body = text \o PrintOrders(order) /\ IsOrdered(body, text, sorts)
      BY <3>1, OrderedName, Zenon
    <3>3. /\ OrderBys(body) = {Len(text) + 1} /\ PredicateText(body) = text /\ OrderText(body) = sorts
      <4>1. IsOrdered(body, text, sorts)
        BY <3>2
      <4>2. Separates(text, "Or", "Or", "der") /\ FreeOf(sorts, "Or")
        BY <1>3, <3>1
      <4>. QED  BY <4>1, <4>2, PlaceOfOrderBy
    <3>4. body # <<>>
      <4>1. IsOrdered(body, text, sorts)
        BY <3>2
      <4>2. Len(body) = Len(text) + 3 + Len(sorts)
        BY <4>1, WordsOfName
      <4>. QED  BY <4>2
    <3>5. \A i, j \in OrderBys(body) : i = j
      BY <3>3
    <3>. QED  BY <3>1, <3>2, <3>3, <3>4, <3>5, Zenon
  <2>. QED  BY <2>1, <2>2
<1>6. method = [prefix |-> prefix, body |-> body]
  <2>1. PrintGroups(query.groups) \o PrintOrders(query.order) = body
    BY <1>1, <1>3, <1>5
  <2>. QED  BY <1>1, <1>2, <1>4, <2>1 DEF PrintName
<1>7. Readable(GroupsOf(text), OrderOf(sorts))
  BY <1>3, <1>5 DEF Readable
<1>8. Parse(method) =
         [ok |-> TRUE, operation |-> OperationOf(prefix),
          groups |-> [g \in DOMAIN GroupsOf(text) |-> [p \in DOMAIN GroupsOf(text)[g] |->
                          ParsePredicate(GroupsOf(text)[g][p])]],
          order |-> [i \in DOMAIN OrderOf(sorts) |-> ParseOrder(OrderOf(sorts)[i])]]
  <2>1. method.prefix = prefix /\ method.body = body
    BY <1>6
  <2>2. /\ body # <<>> /\ PredicateText(body) = text /\ OrderText(body) = sorts /\ text # <<>>
        /\ \A i, j \in OrderBys(body) : i = j
        /\ OrderBys(body) # {} => sorts # <<>>
    BY <1>3, <1>5
  <2>. QED  BY <1>7, <2>1, <2>2, Zenon DEF Parse
<1>9. Parse(method) = [ok |-> TRUE, operation |-> operation, groups |-> groups, order |-> order]
  BY <1>2, <1>3, <1>5, <1>8, Zenon
<1>. QED  BY <1>1, <1>4, <1>9 DEF Said

\* Names are sequences of fragments.
LEMMA PrintedWords ==
    ASSUME columns \in Schemas, NEW query \in Query, Uses(query) \subseteq Paths
    PROVE  PrintName(query).body \in Seq(Words)
<1>1. PICK groups \in Seq(Seq(Predicate)), order \in Seq(OrderField) :
          /\ groups = query.groups /\ order = query.order
          /\ \A g \in DOMAIN groups : \A p \in DOMAIN groups[g] : groups[g][p].path \in Paths
          /\ \A i \in DOMAIN order : order[i].path \in Paths
  <2>1. \A s \in Seq(Seq(Predicate) \ {<<>>}) : s \in Seq(Seq(Predicate))
    OBVIOUS
  <2>. QED  BY <2>1, UsesPaths
<1>2. ASSUME NEW path \in Paths, NEW end \in Seq(Words) PROVE Tag(path) \o end \in Seq(Words)
  <2>1. PICK i \in DOMAIN columns : path = columns[i].path
    BY DEF Paths
  <2>2. Tag(path) \in Seq(Words)
    BY <2>1, TagOfColumn, ColumnType
  <2>. QED  BY <2>2, ConcatProperties
<1>3. "And" \in Words /\ "Or" \in Words /\ <<"Desc">> \in Seq(Words) /\ <<>> \in Seq(Words)
  <2>1. "Desc" \in Words /\ "And" \in Words /\ "Or" \in Words
    BY DEF Words
  <2>. QED  BY <2>1
<1>4. PICK n \in Nat : DOMAIN groups = 1 .. n
  BY <1>1
<1>5. ASSUME NEW g \in 1 .. n
      PROVE  Join([p \in DOMAIN groups[g] |-> PrintPredicate(groups[g][p])], "And") \in Seq(Words)
  <2>0. groups[g] \in Seq(Predicate) /\ \A p \in DOMAIN groups[g] : groups[g][p].path \in Paths
    <3>1. groups[g] \in Seq(Predicate)
      BY <1>4
    <3>2. g \in DOMAIN groups
      BY <1>4
    <3>. QED  BY <1>1, <3>1, <3>2, Zenon
  <2>1. PICK group \in Seq(Predicate) : group = groups[g] /\ \A p \in DOMAIN group : group[p].path \in Paths
    BY <2>0
  <2>2. PICK m \in Nat : DOMAIN group = 1 .. m
    OBVIOUS
  <2>3. ASSUME NEW p \in 1 .. m PROVE PrintPredicate(group[p]) \in Seq(Words)
    <3>0. group[p] \in Predicate
      BY <2>2
    <3>1. group[p].path \in Paths /\ group[p].operator \in Operators
      BY <2>1, <2>2, <3>0 DEF Predicate
    <3>2. group[p].operator.suffix \in Seq(Words)
      BY <3>1, SuffixType
    <3>. QED  BY <1>2, <3>1, <3>2 DEF PrintPredicate
  <2>4. [p \in 1 .. m |-> PrintPredicate(group[p])] \in Seq(Seq(Words))
    BY <2>3
  <2>. QED  BY <1>3, <2>1, <2>2, <2>4, JoinType
<1>6. PrintGroups(groups) \in Seq(Words)
  <2>1. [g \in 1 .. n |-> Join([p \in DOMAIN groups[g] |-> PrintPredicate(groups[g][p])], "And")] \in Seq(Seq(Words))
    BY <1>5
  <2>. QED  BY <1>3, <1>4, <2>1, JoinType DEF PrintGroups
<1>7. PICK k \in Nat : DOMAIN order = 1 .. k
  BY <1>1
<1>8. PrintOrders(order) \in Seq(Words)
  <2>1. ASSUME NEW i \in 1 .. k PROVE PrintOrder(order[i]) \in Seq(Words)
    <3>1. order[i].path \in Paths
      BY <1>1, <1>7
    <3>. QED  BY <1>2, <1>3, <3>1 DEF PrintOrder
  <2>2. [i \in 1 .. k |-> PrintOrder(order[i])] \in Seq(Seq(Words))
    BY <2>1
  <2>3. Join([i \in DOMAIN order |-> PrintOrder(order[i])], "And") \in Seq(Words)
    BY <1>3, <1>7, <2>2, JoinType
  <2>4. OrderBy \o Join([i \in DOMAIN order |-> PrintOrder(order[i])], "And") \in Seq(Words)
    BY <2>3, OrderByType, ConcatProperties
  <2>. QED  BY <1>3, <2>4 DEF PrintOrders
<1>9. PrintGroups(groups) \o PrintOrders(order) \in Seq(Words)
  BY <1>6, <1>8, ConcatProperties
<1>. QED  BY <1>1, <1>9 DEF PrintName

\* What a method of the repository was called for.
IsCalled(query, method) ==
    \/ query = Null /\ method \in Malformed
    \/ query \in Queries /\ Uses(query) \subseteq Paths /\ method = PrintName(query)

QueriesInv ==
    /\ columns \in Schemas
    /\ call.status # "none" => IsCalled(call.query, call.method) /\ call.parsed = Parse(call.method)
    /\ call.status = "executed" =>
        \E input, type :
            /\ input \in Inputs
            /\ call.args = input.args /\ call.result = ExecuteQuery(type, call.parsed, input.args, input.page)

\* A name is a name.
LEMMA CalledName ==
    ASSUME columns \in Schemas, NEW query, NEW method, IsCalled(query, method)
    PROVE  method.body \in Seq(Words) /\ method = [prefix |-> method.prefix, body |-> method.body]
<1>1. CASE method \in Malformed
  <2>1. method \in [prefix : STRING, body : Seq(STRING)]
    BY <1>1, QueriesAssumptions, Zenon
  <2>2. method.body \in Seq(STRING) /\ method = [prefix |-> method.prefix, body |-> method.body]
    BY <2>1
  <2>3. Seq(STRING) \subseteq Seq(Words)
    <3>1. STRING \subseteq Words
      BY DEF Words
    <3>. QED  BY <3>1, SeqMonotonic
  <2>. QED  BY <2>2, <2>3
<1>2. CASE query \in Queries /\ Uses(query) \subseteq Paths /\ method = PrintName(query)
  <2>1. query \in Query
    BY <1>2, QueriesAssumptions, Zenon
  <2>2. method.body \in Seq(Words)
    BY <1>2, <2>1, PrintedWords
  <2>3. method = [prefix |-> method.prefix, body |-> method.body]
    BY <1>2 DEF PrintName
  <2>. QED  BY <2>2, <2>3
<1>. QED  BY <1>1, <1>2 DEF IsCalled

\* An engine that answers was given what the predicates need.
LEMMA AnswerOfEngine ==
    ASSUME NEW type, NEW parsed, NEW args, NEW page, ExecuteQuery(type, parsed, args, page).ok
    PROVE  /\ parsed.ok /\ Len(args) = Arity(parsed.groups)
           /\ ExecuteQuery(type, parsed, args, page).rows = Selected(type, parsed, args)
BY DEF ExecuteQuery, ParseError

LEMMA NamesOk ==
    ASSUME QueriesInv, call.status # "none"
    PROVE  NamesAreRead
<1>1. PICK query, method, parsed :
          /\ query = call.query /\ method = call.method /\ parsed = call.parsed
          /\ IsCalled(query, method) /\ parsed = Parse(method)
  BY DEF QueriesInv
<1>2. columns \in Schemas
  BY DEF QueriesInv
<1>3. ASSUME parsed.ok, ~(\E i \in DOMAIN method.body : method.body[i] = "Asc")
      PROVE  PrintName(parsed) = method
  <2>1. FreeOf(method.body, "Asc")
    BY <1>3 DEF FreeOf
  <2>2. Parse(method).ok
    BY <1>1, <1>3
  <2>3. method.body \in Seq(Words) /\ method = [prefix |-> method.prefix, body |-> method.body]
    BY <1>1, <1>2, CalledName
  <2>4. PrintName(Parse(method)) = method
    BY <1>2, <2>1, <2>2, <2>3, WhatIsRead
  <2>. QED  BY <1>1, <2>4
<1>4. ASSUME query # Null, PlainColumns PROVE parsed = Said(query)
  <2>1. query \in Queries /\ Uses(query) \subseteq Paths /\ method = PrintName(query)
    BY <1>1, <1>4 DEF IsCalled
  <2>2. query \in Query
    BY <2>1, QueriesAssumptions, Zenon
  <2>3. Parse(PrintName(query)) = Said(query)
    BY <1>2, <1>4, <2>1, <2>2, WhatIsSaid
  <2>. QED  BY <1>1, <2>1, <2>3
<1>. QED  BY <1>1, <1>3, <1>4 DEF NamesAreRead

LEMMA EnginesOk ==
    ASSUME QueriesInv, call.status = "executed", NamesAreRead
    PROVE  EnginesAgree
<1>. SUFFICES ASSUME call.result.ok, ~(\E i \in DOMAIN call.args : call.args[i] = Null)
              PROVE  /\ ApplyPredicates(call.parsed.groups, call.args) = BuildFilter(call.parsed.groups, call.args)
                     /\ call.query # Null /\ PlainColumns =>
                         call.result.rows = ApplyPredicates(call.query.groups, call.args)
  BY DEF EnginesAgree
<1>1. PICK query, method, parsed, args, result :
          /\ query = call.query /\ method = call.method /\ parsed = call.parsed
          /\ args = call.args /\ result = call.result
          /\ IsCalled(query, method) /\ parsed = Parse(method)
  BY DEF QueriesInv
<1>2. columns \in Schemas
  BY DEF QueriesInv
<1>3. PICK input, type : /\ input \in Inputs
                         /\ args = input.args /\ result = ExecuteQuery(type, parsed, input.args, input.page)
  BY <1>1 DEF QueriesInv
<1>4. args \in Seq(Nat \cup {Null}) /\ \A i \in DOMAIN args : args[i] # Null
  <2>1. args \in Seq(Nat \cup {Null})
    BY <1>3, QueriesAssumptions, Zenon
  <2>. QED  BY <1>1, <2>1
<1>5. parsed.ok /\ Len(args) = Arity(parsed.groups) /\ result.rows = Selected(type, parsed, args)
  <2>1. ExecuteQuery(type, parsed, args, input.page).ok
    BY <1>1, <1>3
  <2>. QED  BY <1>3, <2>1, AnswerOfEngine
<1>6. PICK groups \in Seq(Seq(Predicate)) :
          /\ groups = parsed.groups
          /\ \A g \in DOMAIN groups : \A p \in DOMAIN groups[g] : groups[g][p].path \in Paths
  <2>1. method.body \in Seq(Words) /\ method = [prefix |-> method.prefix, body |-> method.body]
    BY <1>1, <1>2, CalledName
  <2>2. Parse(method).ok
    BY <1>1, <1>5
  <2>3. PICK groups, order :
            /\ groups \in Seq(Seq(Predicate))
            /\ Parse(method) = [ok |-> TRUE, operation |-> OperationOf(method.prefix), groups |-> groups, order |-> order]
            /\ \A g \in DOMAIN groups : \A p \in DOMAIN groups[g] : groups[g][p].path \in Paths
    BY <1>2, <2>1, <2>2, WhatIsRead
  <2>4. Parse(method).groups = groups
    BY <2>3
  <2>. QED  BY <1>1, <2>3, <2>4
<1>7. \A row \in Rows, g \in DOMAIN groups : \A p \in DOMAIN groups[g] : row[groups[g][p].path] \in Nat \cup {Null}
  <2>1. \A row \in Rows, path \in Paths : row[path] \in Nat \cup {Null}
    BY <1>2, SchemaType DEF Paths
  <2>. QED  BY <1>6, <2>1
<1>8. ApplyPredicates(groups, args) = BuildFilter(groups, args)
  BY <1>4, <1>5, <1>6, <1>7, SameRows
<1>9. result.rows = ApplyPredicates(groups, args)
  BY <1>5, <1>6, <1>8 DEF Selected
<1>10. ASSUME query # Null, PlainColumns PROVE groups = query.groups
  <2>1. parsed = Said(query)
    BY <1>1, <1>10 DEF NamesAreRead
  <2>. QED  BY <1>6, <2>1 DEF Said
<1>. QED  BY <1>1, <1>6, <1>8, <1>9, <1>10

\* With the columns, what is read and printed stays.
LEMMA SameColumns ==
    ASSUME columns' = columns, NEW query, NEW method
    PROVE  /\ Parse(method)' = Parse(method)
           /\ IsCalled(query, method)' <=> IsCalled(query, method)
<1>1. (\A s : ReadPredicate(s)' = ReadPredicate(s)) /\ \A s : ReadOrder(s)' = ReadOrder(s)
  BY DEF ReadPredicate, ReadOrder
<1>2. \A m : LongestMatch(m)' = LongestMatch(m)
  BY DEF LongestMatch
<1>3. \A s : ParsePredicate(s)' = ParsePredicate(s)
  BY DEF ParsePredicate, LongestMatch, ReadPredicate
<1>4. \A s : ParseOrder(s)' = ParseOrder(s)
  BY DEF ParseOrder, LongestMatch, ReadOrder
<1>5. \A g, o : Readable(g, o)' <=> Readable(g, o)
  BY <1>1 DEF Readable
<1>6. Parse(method)' = Parse(method)
  BY <1>3, <1>4, <1>5, Zenon DEF Parse
<1>7. Paths' = Paths /\ \A p : Tag(p)' = Tag(p)
  BY DEF Paths, Tag
<1>8. (\A p : PrintPredicate(p)' = PrintPredicate(p)) /\ \A o : PrintOrder(o)' = PrintOrder(o)
  BY <1>7 DEF PrintPredicate, PrintOrder
<1>9. (\A g : PrintGroups(g)' = PrintGroups(g)) /\ \A o : PrintOrders(o)' = PrintOrders(o)
  BY <1>8 DEF PrintGroups, PrintOrders
<1>10. PrintName(query)' = PrintName(query)
  BY <1>9 DEF PrintName
<1>. QED  BY <1>6, <1>7, <1>10 DEF IsCalled

LEMMA QueriesInitOk == QueriesInit => QueriesInv
BY DEF QueriesInit, QueriesInv, NoCall

LEMMA QueriesNextOk == QueriesInv /\ [QueriesNext]_queryVars => QueriesInv'
<1>. SUFFICES ASSUME QueriesInv, [QueriesNext]_queryVars PROVE QueriesInv'
  OBVIOUS
<1>1. columns' = columns
  BY DEF QueriesNext, queryVars, Generate, CallMethod, ExecuteMethod
<1>2. columns \in Schemas /\ columns' \in Schemas
  BY <1>1 DEF QueriesInv
<1>3. CASE call' = call
  <2>1. \A query, method : IsCalled(query, method)' <=> IsCalled(query, method)
    BY <1>1, SameColumns
  <2>2. \A method : Parse(method)' = Parse(method)
    BY <1>1, SameColumns
  <2>. QED  BY <1>2, <1>3, <2>1, <2>2 DEF QueriesInv
<1>4. ASSUME NEW query, NEW method, IsCalled(query, method), CallMethod(query, method) PROVE QueriesInv'
  <2>1. call' = [status |-> "parsed", query |-> query, method |-> method, parsed |-> Parse(method)]
    BY <1>4 DEF CallMethod
  <2>2. IsCalled(query, method)' /\ Parse(method)' = Parse(method)
    BY <1>1, <1>4, SameColumns
  <2>3. /\ call'.status = "parsed" /\ call'.query = query /\ call'.method = method /\ call'.parsed = Parse(method)
    BY <2>1
  <2>. QED  BY <1>2, <2>2, <2>3 DEF QueriesInv
<1>5. ASSUME NEW repository, NEW input \in Inputs, ExecuteMethod(repository, input.args, input.page) PROVE QueriesInv'
  <2>1. PICK query, method, parsed, type :
            /\ query = call.query /\ method = call.method /\ parsed = call.parsed /\ type = definitions.type[repository]
            /\ IsCalled(query, method) /\ parsed = Parse(method)
    BY <1>5 DEF ExecuteMethod, QueriesInv
  <2>2. call' = [status |-> "executed", query |-> query, method |-> method, parsed |-> parsed, args |-> input.args,
                 result |-> ExecuteQuery(type, parsed, input.args, input.page)]
    BY <1>5, <2>1 DEF ExecuteMethod
  <2>3. IsCalled(query, method)' /\ Parse(method)' = Parse(method)
    BY <1>1, <2>1, SameColumns
  <2>4. /\ call'.status = "executed" /\ call'.query = query /\ call'.method = method /\ call'.parsed = parsed
        /\ call'.args = input.args /\ call'.result = ExecuteQuery(type, parsed, input.args, input.page)
    BY <2>2
  <2>. QED  BY <1>2, <2>1, <2>3, <2>4 DEF QueriesInv
<1>6. CASE QueriesNext
  <2>1. CASE Generate
    BY <1>3, <2>1 DEF Generate
  <2>2. CASE \E query \in {q \in Queries : Uses(q) \subseteq Paths} : CallMethod(query, PrintName(query))
    BY <1>4, <2>2 DEF IsCalled
  <2>3. CASE \E method \in Malformed : CallMethod(Null, method)
    BY <1>4, <2>3 DEF IsCalled
  <2>4. CASE \E repository \in DOMAIN Repositories, input \in Inputs : ExecuteMethod(repository, input.args, input.page)
    BY <1>5, <2>4
  <2>. QED  BY <1>6, <2>1, <2>2, <2>3, <2>4 DEF QueriesNext
<1>7. CASE UNCHANGED queryVars
  BY <1>3, <1>7 DEF queryVars
<1>. QED  BY <1>6, <1>7

\* What the parser reads is what the name says, and with columns that cannot be
\* taken for something else every name of a query is read; both engines select
\* the same rows. (QueryMethodParser, SQLQueryEngine, MongoQueryEngine.)
THEOREM QueriesMeanTheirNamesCorrect == QueriesSpec => []QueriesMeanTheirNames
<1>1. QueriesInv => QueriesMeanTheirNames
  BY NamesOk, EnginesOk DEF QueriesMeanTheirNames
<1>. QED  BY <1>1, QueriesInitOk, QueriesNextOk, PTL DEF QueriesSpec
=============================================================================
