------------------------------- MODULE GraphSearch -------------------------------
(***************************************************************************)
(* The read side of the knowledge graph: find_path of KnowledgeGraph and   *)
(* query_for_context of GraphQuery, over the graph as it is in memory.     *)
(***************************************************************************)
EXTENDS KnowledgeGraph, Ranking

CONSTANTS
    MaxEntities,        \* query_for_context: max_entities
    MaxRelationships    \* query_for_context: max_relationships

ASSUME ContextAssumption == MaxEntities \in Nat /\ MaxRelationships \in Nat

-----------------------------------------------------------------------------
Touches(i, id) == id \in {links[i].source, links[i].target}

\* get_relationships: where they are in the sequence, in its order.
Touching(id) == Only([i \in DOMAIN links |-> i], {i \in DOMAIN links : Touches(i, id)})

OtherEnd(i, id) == IF links[i].source = id THEN links[i].target ELSE links[i].source

\* A node met for the first time joins the queue with the path to it.
Reached(search, path, next) ==
    IF next \in search.seen THEN search
    ELSE [search EXCEPT !.seen = @ \cup {next}, !.queue = Append(@, Append(path, next))]

\* The neighbours of the last node of a path.
Explored(search, path) ==
    LET touching == Touching(Last(path))
        explored[n \in 0 .. Len(touching)] ==
            IF n = 0 THEN search
            ELSE Reached(explored[n - 1], path, OtherEnd(touching[n], Last(path)))
    IN  explored[Len(touching)]

\* One round of find_path: the first path of the queue is taken; it is the answer, or
\* its neighbours that are new are queued.
Round(search, end) ==
    IF search.found # <<>> \/ search.queue = <<>> THEN search
    ELSE LET path == Head(search.queue)
             taken == [search EXCEPT !.queue = Tail(@)]
         IN  IF Last(path) = end THEN [taken EXCEPT !.found = path] ELSE Explored(taken, path)

\* find_path: every node is taken at most once.
FindPath(start, end) ==
    LET search[n \in 0 .. MaxId] ==
            IF n = 0 THEN [queue |-> << <<start>> >>, seen |-> {start}, found |-> <<>>]
            ELSE Round(search[n - 1], end)
    IN  search[MaxId].found

\* Mutation: a relationship between two of the entities is listed for each of them.
Joined_Repeated(s, t) == s \o t

\* An entity's relationships, but for those that an earlier one has listed.
Joined(s, t) == s \o Only(t, DOMAIN links \ ToSet(s))

\* The relationships of the entities without repetition.
Gathered(entities) ==
    LET gathered[n \in 0 .. Len(entities)] ==
            IF n = 0 THEN <<>> ELSE Joined(gathered[n - 1], Touching(entities[n]))
    IN  gathered[Len(entities)]

\* query_for_context for the entities a search has found: their relationships, and the
\* paths between the first of them.
Context(found) ==
    LET entities == Cut(found, MaxEntities)
        pairs == {p \in (1 .. 3) \X (1 .. 4) : p[1] < p[2] /\ p[2] <= Len(entities)}
        path(p) == FindPath(entities[p[1]], entities[p[2]])
    IN  [entities |-> entities,
         relationships |-> Cut(Gathered(entities), MaxRelationships),
         paths |-> [p \in {q \in pairs : path(q) # <<>>} |-> path(p)]]

-----------------------------------------------------------------------------
(* Properties *)

\* Whenever the program ends, its files are a graph in which no two entities have the same
\* name and type, and whose relationships have their entities, unless those were in a file
\* that could not be read when the program started.
GraphClosed ==
    /\ \A i \in DOMAIN linkFile :
          {linkFile[i].source, linkFile[i].target} \subseteq Ids(nodeFile) \cup unread
    /\ \A i, j \in DOMAIN nodeFile : nodeFile[i].key = nodeFile[j].key => i = j

Linked(a, b) ==
    \E i \in DOMAIN links : {links[i].source, links[i].target} = {a, b}

\* The entities, and those there are only relationships of.
Vertices == Ids(nodes) \cup UNION {{links[i].source, links[i].target} : i \in DOMAIN links}

Around(near) == near \cup {b \in Vertices : \E a \in near : Linked(a, b)}

\* The nodes at a distance of at most n from `start`.
Within(start, n) ==
    LET near[i \in 0 .. n] == IF i = 0 THEN {start} ELSE Around(near[i - 1])
    IN  near[n]

\* For any entities a search may find, the context has each of their relationships
\* once, up to the limit; and between two entities there is a path exactly when they
\* are connected, along relationships and none longer than needed.
ContextSound ==
    /\ \A found \in SUBSET Ids(nodes) :
          LET context == Context(SetToSeq(found))
              touching == {i \in DOMAIN links : \E id \in ToSet(context.entities) :
                                Touches(i, id)}
          IN  /\ IsInjective(context.relationships)
              /\ ToSet(context.relationships) \subseteq touching
              /\ Len(context.relationships) = Min({Cardinality(touching), MaxRelationships})
    /\ \A a, b \in Ids(nodes) :
          LET path == FindPath(a, b)
          IN  /\ (path # <<>>) = (b \in Within(a, MaxId))
              /\ path # <<>> =>
                  /\ path[1] = a /\ Last(path) = b
                  /\ \A i \in 1 .. Len(path) - 1 : Linked(path[i], path[i + 1])
                  /\ \A n \in 0 .. Len(path) - 2 : b \notin Within(a, n)
=================================================================================
