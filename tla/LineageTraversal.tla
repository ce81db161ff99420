---------------------------- MODULE LineageTraversal ----------------------------
(***************************************************************************)
(* The downstream impact of a dataset, walked twice over one graph:        *)
(* `pipeline' is downstream_blast_radius (lineage/traversal.py), which     *)
(* asks the database for the edges of every node; `web' is                 *)
(* computeDownstreamImpact (apps/web/lib/lineage.ts) over the nodes and    *)
(* edges getLineage reads: those of the dataset, and a few shared ones.    *)
(* A step is one turn of the loop.  Nodes are numbered in the order of     *)
(* their keys, by which both walks sort.                                   *)
(***************************************************************************)
EXTENDS Integers, Sequences, FiniteSets, SequencesExt, Ordering

CONSTANT MaxDepth    \* max_depth, maxDepth (10)

ASSUME DepthAssumption == MaxDepth \in Nat \ {0}

VARIABLES
  edges,      \* lineage_edges as pairs of nodes; several types between two nodes are one pair
  start,      \* the node of the dataset
  listed,     \* the nodes getLineage reads
  walker,     \* who walks: "pipeline", then "web", and "nobody" before and after
  queue, visited,
  impact      \* walker -> what it found: node, distance and path

walkVars == <<edges, start, listed, walker, queue, visited, impact>>

Nobody == [pipeline |-> <<>>, web |-> <<>>]
Entry(node, distance, path) == [node |-> node, distance |-> distance, path |-> path]

WalkInit ==
  /\ edges = {} /\ start = 0 /\ listed = {} /\ walker = "nobody"
  /\ queue = <<>> /\ visited = {} /\ impact = Nobody

Begin(es, s, ls) ==
  /\ edges' = es /\ start' = s /\ listed' = ls
  /\ walker' = "pipeline"
  /\ queue' = <<Entry(s, 0, <<s>>)>> /\ visited' = {s}
  /\ UNCHANGED impact

\* Wrong on purpose: the web application walks over every edge.
WalkedAll == edges

\* repository.downstream; the edges getLineage reads.
Walked == IF walker = "web" THEN {e \in edges : {e[1], e[2]} \subseteq listed} ELSE edges

\* Wrong on purpose: one level further than allowed.
DeepByOne(entry) == entry.distance > MaxDepth

Deep(entry) == entry.distance >= MaxDepth

\* Wrong on purpose: a node counts as visited when its turn comes.
MarkedInTurn(seen, entry, next) == seen \cup {entry.node}

\* A node is marked when it is put into the queue.
Marked(seen, entry, next) == seen \cup ToSet(next)

\* The nodes below an entry that have not been seen, in the order of their keys.
Unseen(entry, pairs, seen) ==
  IF Deep(entry) THEN <<>>
  ELSE InOrder({e[2] : e \in {f \in pairs : f[1] = entry.node}} \ seen)

\* The entries of these nodes, reached through the given one.
Reached(entry, next) ==
  [i \in DOMAIN next |-> Entry(next[i], entry.distance + 1, Append(entry.path, next[i]))]

Visit ==
  /\ walker # "nobody" /\ queue # <<>>
  /\ LET entry == Head(queue)
         next == Unseen(entry, Walked, visited)
         found == Reached(entry, next)
     IN  /\ queue' = Tail(queue) \o found
         /\ visited' = Marked(visited, entry, next)
         /\ impact' = [impact EXCEPT ![walker] = @ \o found]
  /\ UNCHANGED <<edges, start, listed, walker>>

\* The pipeline has stored its snapshot, a reader opens the page.
Turn ==
  /\ walker = "pipeline" /\ queue = <<>>
  /\ walker' = "web"
  /\ queue' = <<Entry(start, 0, <<start>>)>> /\ visited' = {start}
  /\ UNCHANGED <<edges, start, listed, impact>>

Finish ==
  /\ walker = "web" /\ queue = <<>>
  /\ walker' = "nobody"
  /\ UNCHANGED <<edges, start, listed, queue, visited, impact>>

Walk == Visit \/ Turn \/ Finish

Walks == start # 0 /\ walker = "nobody"

-------------------------------------------------------------------------------
(***************************************************************************)
(* The graph seed_lineage writes, and the nodes getLineage reads of it.    *)
(***************************************************************************)
SeededKeys ==
  <<"api:quality", "dataset:earthquake-events", "dataset:hourly-weather",
    "process:quality-open-meteo", "process:quality-usgs", "source:open-meteo", "source:usgs",
    "ui:quality-dashboard">>

Numbered(pairs) ==
  {e \in (1..Len(SeededKeys)) \X (1..Len(SeededKeys)) :
     <<SeededKeys[e[1]], SeededKeys[e[2]]>> \in pairs}

SeededEdges ==
  Numbered({<<"source:open-meteo", "dataset:hourly-weather">>,
            <<"dataset:hourly-weather", "process:quality-open-meteo">>,
            <<"process:quality-open-meteo", "api:quality">>,
            <<"source:usgs", "dataset:earthquake-events">>,
            <<"dataset:earthquake-events", "process:quality-usgs">>,
            <<"process:quality-usgs", "api:quality">>,
            <<"api:quality", "ui:quality-dashboard">>})

ListedOf(keys) == {i \in DOMAIN SeededKeys : SeededKeys[i] \in keys \cup {"api:quality", "ui:quality-dashboard"}}

SeededWeather ==
  [edges |-> SeededEdges, start |-> 3,
   listed |-> ListedOf({"source:open-meteo", "dataset:hourly-weather", "process:quality-open-meteo"})]
SeededEarthquakes ==
  [edges |-> SeededEdges, start |-> 2,
   listed |-> ListedOf({"source:usgs", "dataset:earthquake-events", "process:quality-usgs"})]
===============================================================================
