------------------------------ MODULE SqlQueue ------------------------------
(***************************************************************************)
(* The queue of SQL class requests.  ensureSQL (index.js) writes what it   *)
(* asks for under ^globalsjs.sql("in",id), node by node; the Deamon of     *)
(* foo.ClassGen reads the requests, generates a class for each and moves   *)
(* the request to ^globalsjs.sql("out",id).  Neither takes a lock.  Each   *)
(* Set, Kill, Merge, $Order and increment is one step.  A request is the   *)
(* set of the nodes it has; their values are left out.                     *)
(***************************************************************************)
EXTENDS Integers, FiniteSets

CONSTANTS Callers,     \* the calls of ensureSQL, in any number of processes
          SqlProps,    \* the properties an object may have
          Inds,        \* the indexes a collection may have
          Shapes       \* the properties and indexes one call may ask for

ASSUME SqlAssumption ==
    /\ IsFiniteSet(Callers)
    /\ SqlProps \cap Inds = {}
    /\ Shapes \subseteq SUBSET (SqlProps \cup Inds)
    /\ {"classname", "globalname"} \cap (SqlProps \cup Inds) = {}

Requests == 1 .. Cardinality(Callers)

VARIABLES in,       \* in[i]: the nodes below ^globalsjs.sql("in",i)
          out,      \* out[i]: the nodes below ^globalsjs.sql("out",i)
          drawn,    \* ^globalsjs.sql("in"): the last number handed out
          marked,   \* is there a node ("in","lastid")?
          stop,     \* is there a node ("control","stop")?
          enabled,  \* is the node ("control","enabled") anything but 0?
          caller,   \* caller[c]: how far the call of ensureSQL has come
          deamon,   \* the Deamon and its local variables
          class,    \* class[i]: the fields of the class made in the last visit to i (history)
          whole     \* requests complete when the Deamon came to them (history)
sqlVars == <<in, out, drawn, marked, stop, enabled, caller, deamon, class, whole>>

Fields(nodes) == nodes \ {"classname", "globalname"}

NotMade == {"none"}
Fresh   == [at |-> "start", id |-> 0, fields |-> {}]

SqlInit ==
    /\ in = [i \in Requests |-> {}]
    /\ out = [i \in Requests |-> {}]
    /\ drawn = 0
    /\ marked = FALSE
    /\ stop = FALSE
    /\ enabled \in BOOLEAN
    /\ caller = [c \in Callers |-> [id |-> 0, todo |-> {}, asked |-> {}]]
    /\ deamon = [Fresh EXCEPT !.at = "off"]
    /\ class = [i \in Requests |-> NotMade]
    /\ whole = {}

Asked(i) == UNION {caller[c].asked : c \in {d \in Callers : caller[d].id = i}}
Complete(i) ==
    /\ i =< drawn
    /\ \A c \in Callers : caller[c].id = i => caller[c].todo = {}

-----------------------------------------------------------------------------
(* ensureSQL *)

\* The number is drawn first; the request has no node yet.
EnsureSQL(c, shape) ==
    /\ caller[c].id = 0
    /\ drawn' = drawn + 1
    /\ LET nodes == {"classname", "globalname"} \cup shape
       IN caller' = [caller EXCEPT ![c] = [id |-> drawn', todo |-> nodes, asked |-> nodes]]
    /\ UNCHANGED <<in, out, marked, stop, enabled, deamon, class, whole>>

\* The order of the nodes: the two names, the properties, the indexes.
Due(todo) ==
    IF "classname" \in todo THEN {"classname"}
    ELSE IF "globalname" \in todo THEN {"globalname"}
    ELSE IF todo \cap SqlProps # {} THEN todo \cap SqlProps
    ELSE todo

SetNode(c, node) ==
    /\ node \in Due(caller[c].todo)
    /\ in' = [in EXCEPT ![caller[c].id] = @ \cup {node}]
    /\ caller' = [caller EXCEPT ![c].todo = @ \ {node}]
    /\ UNCHANGED <<out, drawn, marked, stop, enabled, deamon, class, whole>>

-----------------------------------------------------------------------------
(* The Deamon *)

\* Someone starts it, also after it died, ends it, or asks it to stop.
StartDeamon ==
    /\ deamon.at \in {"off", "died"}
    /\ deamon' = Fresh
    /\ UNCHANGED <<in, out, drawn, marked, stop, enabled, caller, class, whole>>

EndDeamon ==
    /\ deamon.at \notin {"off", "died"}
    /\ deamon' = [Fresh EXCEPT !.at = "died"]
    /\ UNCHANGED <<in, out, drawn, marked, stop, enabled, caller, class, whole>>

StopDeamon ==
    /\ ~stop
    /\ stop' = TRUE
    /\ UNCHANGED <<in, out, drawn, marked, enabled, caller, deamon, class, whole>>

\* Someone writes the node that says whether it may start.
EnableDeamon ==
    /\ enabled' = ~enabled
    /\ UNCHANGED <<in, out, drawn, marked, stop, caller, deamon, class, whole>>

Become(at) == deamon' = [deamon EXCEPT !.at = at]

\* Mutant: each start visits one request.
ToNextOne(i) ==
    LET later == {k \in Requests : k > i /\ in[k] # {}}
    IN IF i = 0 /\ later # {}
       THEN LET k == CHOOSE n \in later : \A m \in later : n =< m
            IN deamon' = [deamon EXCEPT !.at = "classname", !.id = k]
       ELSE Become(IF marked' THEN "sleep" ELSE "died")

\* $Order of the numbers below "in"; "lastid" comes after all of them, and
\* without that node the answer is '', which no global takes as a subscript.
After(i) == {k \in Requests : k > i /\ in[k] # {}}
ToNext(i) ==
    IF After(i) # {}
    THEN LET k == CHOOSE n \in After(i) : \A m \in After(i) : n =< m
         IN deamon' = [deamon EXCEPT !.at = "classname", !.id = k]
    ELSE Become(IF marked' THEN "sleep" ELSE "died")

\* The control nodes (one that is not enabled leaves a stop where it is), then
\* the first request: the number the last start got
\* to is looked for in another global, so each start begins at the lowest.
DeamonStart ==
    /\ deamon.at = "start"
    /\ IF enabled THEN stop' = FALSE ELSE UNCHANGED stop
    /\ UNCHANGED marked
    /\ IF stop \/ ~enabled THEN Become("off") ELSE ToNext(0)
    /\ UNCHANGED <<in, out, drawn, enabled, caller, class, whole>>

\* A node that is not there ends the process.
ReadName(node, next) ==
    /\ deamon.at = node
    /\ Become(IF node \in in[deamon.id] THEN next ELSE "died")
    /\ UNCHANGED <<in, out, drawn, marked, stop, enabled, caller>>

ReadClassname ==
    /\ ReadName("classname", "globalname")
    /\ class' = [class EXCEPT ![deamon.id] = NotMade]
    /\ whole' = IF Complete(deamon.id) /\ in[deamon.id] = Asked(deamon.id)
                THEN whole \cup {deamon.id} ELSE whole

ReadGlobalname == ReadName("globalname", "properties") /\ UNCHANGED <<class, whole>>

\* Merge adds to what the local array holds; only a new start empties it.
MergeFields(at, next, nodes) ==
    /\ deamon.at = at
    /\ deamon' = [deamon EXCEPT !.at = next, !.fields = @ \cup (in[deamon.id] \cap nodes)]
    /\ UNCHANGED <<in, out, drawn, marked, stop, enabled, caller, class, whole>>

\* Mutant: the whole request is merged into the properties.
MergePropertiesAll ==
    MergeFields("properties", "indicies", {"classname", "globalname"} \cup SqlProps)

MergeProperties == MergeFields("properties", "indicies", SqlProps)
MergeIndicies   == MergeFields("indicies", "generate", Inds)

\* Mutant: the request is killed without having been moved.
GenerateClassKilling ==
    /\ deamon.at = "generate"
    /\ \/ /\ class' = [class EXCEPT ![deamon.id] = deamon.fields]
          /\ Become("kill")
       \/ UNCHANGED class /\ Become("mark")
    /\ UNCHANGED <<in, out, drawn, marked, stop, enabled, caller, whole>>

\* GenerateClass replaces the class of that name, or fails at some step.
GenerateClass ==
    /\ deamon.at = "generate"
    /\ \/ /\ class' = [class EXCEPT ![deamon.id] = deamon.fields]
          /\ Become("move")
       \/ UNCHANGED class /\ Become("mark")
    /\ UNCHANGED <<in, out, drawn, marked, stop, enabled, caller, whole>>

MoveOut ==
    /\ deamon.at = "move"
    /\ out' = [out EXCEPT ![deamon.id] = @ \cup in[deamon.id]]
    /\ Become("kill")
    /\ UNCHANGED <<in, drawn, marked, stop, enabled, caller, class, whole>>

KillIn ==
    /\ deamon.at = "kill"
    /\ in' = [in EXCEPT ![deamon.id] = {}]
    /\ Become("mark")
    /\ UNCHANGED <<out, drawn, marked, stop, enabled, caller, class, whole>>

MarkLast ==
    /\ deamon.at = "mark"
    /\ marked' = TRUE
    /\ ToNext(deamon.id)
    /\ UNCHANGED <<in, out, drawn, stop, enabled, caller, class, whole>>

\* A new process goes on after the sleep.
JobDeamon ==
    /\ deamon.at = "sleep"
    /\ deamon' = Fresh
    /\ UNCHANGED <<in, out, drawn, marked, stop, enabled, caller, class, whole>>

DeamonStep ==
    \/ DeamonStart \/ ReadClassname \/ ReadGlobalname \/ MergeProperties
    \/ MergeIndicies \/ GenerateClass \/ MoveOut \/ KillIn \/ MarkLast \/ JobDeamon

SqlNext ==
    \/ \E c \in Callers :
         \/ \E shape \in Shapes : EnsureSQL(c, shape)
         \/ \E node \in caller[c].todo : SetNode(c, node)
    \/ StartDeamon \/ EndDeamon \/ StopDeamon \/ EnableDeamon \/ DeamonStep

SqlSpec == SqlInit /\ [][SqlNext]_sqlVars /\ WF_sqlVars(DeamonStep)
-----------------------------------------------------------------------------
(* Properties *)

Nodes == {"classname", "globalname"} \cup SqlProps \cup Inds

\* Types of the state of the queue.
SqlTypeOK ==
    /\ in \in [Requests -> SUBSET Nodes]
    /\ out \in [Requests -> SUBSET Nodes]
    /\ drawn \in 0 .. Cardinality(Callers)
    /\ marked \in BOOLEAN /\ stop \in BOOLEAN /\ enabled \in BOOLEAN
    /\ caller \in [Callers -> [id: Nat, todo: SUBSET Nodes, asked: SUBSET Nodes]]
    /\ deamon \in [at: {"off", "died", "start", "classname", "globalname", "properties",
                        "indicies", "generate", "move", "kill", "mark", "sleep"},
                   id: Nat, fields: SUBSET (SqlProps \cup Inds)]
    /\ class \in [Requests -> (SUBSET (SqlProps \cup Inds)) \cup {NotMade}]
    /\ whole \subseteq Requests

\* A request that was complete when the Deamon came to it is never lost nor
\* cut: it is whole in "in" or whole in "out", also when the process ends or
\* the class cannot be made, and the class made for it has all its fields.
WholeRequestsKept ==
    \A i \in whole :
        /\ in[i] = Asked(i) \/ out[i] = Asked(i)
        /\ class[i] # NotMade => Fields(Asked(i)) \subseteq class[i]

\* The Deamon comes to every complete request, whatever was left behind by
\* earlier starts and whichever requests below it fail, or the process ends:
\* stopped, or at a request of which it has read one half. (One that gets its
\* last node under a visit may be moved out with the class of a part of it.)
RequestTried ==
    \A i \in Requests :
        (Complete(i) /\ in[i] # {} /\ deamon.id # i) ~>
            \/ deamon.at = "generate" /\ deamon.id = i
            \/ deamon.at \in {"off", "died"}

=============================================================================
