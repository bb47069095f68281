----------------------------- MODULE KnowledgeGraph -----------------------------
(***************************************************************************)
(* The knowledge graph (src/mysti/integration/knowledge_graph.py), the two *)
(* extractors that fill it from text, and the context GraphQuery takes     *)
(* from it (src/mysti/engine/).  The graph is in memory and in two files,  *)
(* written one after the other at every change and every access.  An       *)
(* extraction stores entity after entity and then its relationships; after *)
(* the answer of the model it never gives up the event loop, but a write   *)
(* may fail and the program may end between any two of them.               *)
(*                                                                         *)
(* An entity is its id and its key, which is its name without case and its *)
(* type; a relationship is its ends, known by its place in the sequence.   *)
(* The observer `unread` has the entities that the program does without    *)
(* because their file could not be read when it started.                   *)
(***************************************************************************)
EXTENDS Naturals, Sequences, FiniteSets, SequencesExt, FiniteSetsExt

CONSTANTS
    Names,          \* names the extractions use
    Key,            \* Key[n]: the name without case, and the type
    Extractions,    \* answers of the model: [names, relations], relations between names
    MaxId,          \* bound on the entities created
    MaxLinks        \* bound on the relationships

ASSUME GraphAssumption ==
    /\ Extractions \subseteq [names : Seq(Names), relations : Seq([source : Names, target : Names])]
    /\ MaxId \in Nat /\ MaxLinks \in Nat

VARIABLES
    nodes,          \* KnowledgeGraph.entities
    links,          \* KnowledgeGraph.relationships
    nodeFile,       \* entities.json.enc
    linkFile,       \* relationships.json.enc
    nextId,         \* the next id: never used before
    job,            \* the extraction or access in progress
    unread          \* observer: entities that no start since they were saved has read

graphVars == <<nodes, links, nodeFile, linkFile, nextId, job, unread>>

NoJob == [names |-> <<>>, relations |-> <<>>, ids |-> <<>>, saving |-> "none", lenient |-> TRUE]

Ids(sequence) == {sequence[i].id : i \in DOMAIN sequence}

GraphTypeOK ==
    /\ {nodes, nodeFile} \subseteq Seq([id : 1 .. MaxId, key : {Key[n] : n \in Names}])
    /\ {links, linkFile} \subseteq Seq([source : 1 .. MaxId, target : 1 .. MaxId])
    /\ nextId \in 1 .. MaxId + 1 /\ unread \subseteq 1 .. MaxId
    /\ job.saving \in {"none", "entities", "relationships"}
    /\ Range(job.ids) \subseteq 1 .. MaxId /\ DOMAIN job.ids \subseteq Names

GraphInit ==
    /\ nodes = <<>> /\ links = <<>> /\ nodeFile = <<>> /\ linkFile = <<>>
    /\ nextId = 1 /\ unread = {}
    /\ job = NoJob

-----------------------------------------------------------------------------
(* KnowledgeGraph and EntityExtractor *)

Saving(phase) == job.saving = phase

Resting == job = NoJob

\* extract_and_store with an answer of the model; without one nothing is stored.  The
\* engine's extractor goes on after an entity that fails, that of integration/ ends.
\* Bounded by MaxId and MaxLinks.
Extract ==
    /\ Resting
    /\ \E e \in Extractions, lenient \in BOOLEAN :
        /\ nextId + Len(e.names) <= MaxId + 1
        /\ Len(links) + Len(e.relations) <= MaxLinks
        /\ job' = [names |-> e.names, relations |-> e.relations, ids |-> <<>>,
                   saving |-> "none", lenient |-> lenient]
    /\ UNCHANGED <<nodes, links, nodeFile, linkFile, nextId, unread>>

\* The entity of the same name and type.
Existing(key) == {i \in DOMAIN nodes : nodes[i].key = key}

\* add_entity, before the graph is saved.
AddEntity ==
    /\ Saving("none") /\ job.names # <<>>
    /\ LET key == Key[Head(job.names)]
       IN  IF Existing(key) # {} THEN UNCHANGED <<nodes, nextId>>
           ELSE /\ nodes' = Append(nodes, [id |-> nextId, key |-> key])
                /\ nextId' = nextId + 1
    /\ job' = [job EXCEPT !.saving = "entities"]
    /\ UNCHANGED <<links, nodeFile, linkFile, unread>>

\* add_relationship between two entities of this extraction; others are left out.
AddRelationship ==
    /\ Saving("none") /\ job.names = <<>> /\ job.relations # <<>>
    /\ LET r == Head(job.relations)
       IN  IF {r.source, r.target} \subseteq DOMAIN job.ids
           THEN /\ links' = Append(links, [source |-> job.ids[r.source],
                                           target |-> job.ids[r.target]])
                /\ job' = [job EXCEPT !.saving = "entities"]
           ELSE /\ job' = [job EXCEPT !.relations = Tail(@)]
                /\ UNCHANGED links
    /\ UNCHANGED <<nodes, nodeFile, linkFile, nextId, unread>>

\* get_entity and get_context save the graph for the time of the access.
Access ==
    /\ Resting /\ nodes # <<>>
    /\ job' = [job EXCEPT !.saving = "entities"]
    /\ UNCHANGED <<nodes, links, nodeFile, linkFile, nextId, unread>>

\* Mutation: the relationships are written first.
SaveEntities_Second ==
    \/ /\ Saving("entities")
       /\ linkFile' = links
       /\ job' = [job EXCEPT !.saving = "relationships"]
       /\ UNCHANGED <<nodes, links, nodeFile, nextId, unread>>
    \/ /\ Saving("relationships")
       /\ nodeFile' = nodes
       /\ job' = [job EXCEPT !.saving = "none", !.names = <<>>, !.relations = <<>>]
       /\ UNCHANGED <<nodes, links, linkFile, nextId, unread>>

\* _save, the first file: replaced as a whole.
SaveEntities ==
    /\ Saving("entities")
    /\ nodeFile' = nodes
    /\ job' = [job EXCEPT !.saving = "relationships"]
    /\ UNCHANGED <<nodes, links, linkFile, nextId, unread>>

\* What is left of the job when its operation has succeeded: the id of the entity is
\* known to the relationships that follow.
Succeeded ==
    IF job.names # <<>>
    THEN LET name == Head(job.names)
             id == nodes[CHOOSE i \in Existing(Key[name]) : TRUE].id
         IN  [job EXCEPT !.saving = "none", !.names = Tail(@),
                         !.ids = [n \in DOMAIN job.ids \cup {name} |->
                                    IF n = name THEN id ELSE job.ids[n]]]
    ELSE IF job.relations # <<>>
    THEN [job EXCEPT !.saving = "none", !.relations = Tail(@)]
    ELSE NoJob

Finished(left) == IF left.names = <<>> /\ left.relations = <<>> THEN NoJob ELSE left

\* _save, the second file, which ends the operation.
SaveRelationships ==
    /\ Saving("relationships")
    /\ linkFile' = links
    /\ job' = Finished(Succeeded)
    /\ UNCHANGED <<nodes, links, nodeFile, nextId, unread>>

\* Either write fails: the change stays in memory, the caller gets the exception.
SaveFails ==
    /\ ~Saving("none")
    /\ job' = Finished(
          IF ~job.lenient \/ (job.names = <<>> /\ job.relations = <<>>) THEN NoJob
          ELSE IF job.names # <<>> THEN [job EXCEPT !.saving = "none", !.names = Tail(@)]
          ELSE [job EXCEPT !.saving = "none", !.relations = Tail(@)])
    /\ UNCHANGED <<nodes, links, nodeFile, linkFile, nextId, unread>>

\* The program ends at any point and starts again from its files.  A file that cannot be
\* read is taken for an empty one (JsonStore.load), which the next save writes.
GraphRestart ==
    /\ nodes' \in {nodeFile, <<>>} /\ links' \in {linkFile, <<>>}
    /\ unread' = (unread \cup Ids(nodeFile)) \ Ids(nodes')
    /\ job' = NoJob
    /\ UNCHANGED <<nodeFile, linkFile, nextId>>

GraphNext ==
    \/ Extract \/ Access
    \/ AddEntity \/ AddRelationship
    \/ SaveEntities \/ SaveRelationships \/ SaveFails
    \/ GraphRestart

GraphSpec == GraphInit /\ [][GraphNext]_graphVars
=================================================================================
