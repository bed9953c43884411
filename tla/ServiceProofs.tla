---------------------------- MODULE ServiceProofs ----------------------------
(***************************************************************************)
(* What holds of the parts that answer requests.  First the queue of SQL   *)
(* class requests: its types, and that a request which was complete when   *)
(* the Deamon came to it is kept whole, for any number of calls of         *)
(* ensureSQL, properties and indexes; its inductive invariant says which   *)
(* nodes a request may have, and what the Deamon's local array holds at    *)
(* each of its steps.  Next the query processor: what it finds in a row is *)
(* followed from element to element of its stack, for queries of any       *)
(* number of conditions and any number of rows.  Then the parts put        *)
(* together as the runs check them: the invariant is that of each part,    *)
(* and a step of one part is a step of its module or leaves its variables  *)
(* alone.                                                                  *)
(***************************************************************************)
EXTENDS MCService, FiniteSetTheorems, Sequences, WellFoundedInduction, TLAPS

-----------------------------------------------------------------------------
(* The queue of SQL class requests. *)

Started == {c \in Callers : caller[c].id # 0}

\* Numbers are handed out once each, and a call writes what it asked for.
CallersOK ==
    /\ drawn = Cardinality(Started)
    /\ \A c \in Callers : caller[c].id =< drawn /\ caller[c].todo \subseteq caller[c].asked

\* A request has no node that nobody asked for.
NodesAsked == \A i \in Requests : in[i] \subseteq Asked(i) /\ out[i] \subseteq Asked(i)

\* A whole request is moved before it is killed.
WholeInOrOut ==
    \A i \in whole :
        /\ Complete(i)
        /\ in[i] = Asked(i) \/ (in[i] = {} /\ out[i] = Asked(i))
        /\ class[i] # NotMade => Fields(Asked(i)) \subseteq class[i]

AtRequest == deamon.at \in {"classname", "globalname", "properties", "indicies",
                            "generate", "move", "kill"}

\* The request at work has nodes, and the local array those of a whole one.
DeamonHolds ==
    /\ AtRequest => deamon.id \in Requests /\ in[deamon.id] # {}
    /\ deamon.id \in whole =>
         /\ deamon.at = "indicies" => Asked(deamon.id) \cap SqlProps \subseteq deamon.fields
         /\ deamon.at = "generate" => Fields(Asked(deamon.id)) \subseteq deamon.fields
         /\ deamon.at = "kill" => out[deamon.id] = Asked(deamon.id)

SqlInv == SqlTypeOK /\ CallersOK /\ NodesAsked /\ WholeInOrOut /\ DeamonHolds

-----------------------------------------------------------------------------
LEMMA RequestsNat == Cardinality(Callers) \in Nat /\ Requests \subseteq Nat \ {0}
<1>1. Cardinality(Callers) \in Nat
  BY SqlAssumption, FS_CardinalityType
<1> QED
  BY <1>1 DEF Requests

LEMMA AskedBy ==
  ASSUME NEW i
  PROVE  Asked(i) = {x \in Asked(i) : \E c \in Callers : caller[c].id = i /\ x \in caller[c].asked}
         /\ \A c \in Callers : caller[c].id = i => caller[c].asked \subseteq Asked(i)
BY DEF Asked

LEMMA AskedInNodes ==
  ASSUME SqlTypeOK, NEW i
  PROVE  Asked(i) \subseteq Nodes
BY DEF Asked, SqlTypeOK

\* What is asked for a number does not change when every call that has the
\* number keeps it with what it asks, and no call gets it.
LEMMA AskedStays ==
  ASSUME NEW i,
         \A c \in Callers : /\ caller'[c].id = i <=> caller[c].id = i
                            /\ caller[c].id = i => caller'[c].asked = caller[c].asked
  PROVE  Asked(i)' = Asked(i)
BY DEF Asked

\* Numbers that are not none have a smallest: the sets of the numbers up to one
\* of them have one that includes no other.
LEMMA SmallestRequest ==
  ASSUME NEW S \in SUBSET Nat, S # {}
  PROVE  (CHOOSE n \in S : \A m \in S : n =< m) \in S
<1> DEFINE UpTo == {1..n : n \in S}
           Less == StrictSubsetOrdering(Nat)
           Finite == FiniteSubsetsOf(Nat)
<1>1. UpTo \subseteq Finite /\ UpTo # {}
  <2>1. \A n \in S : 1..n \subseteq Nat /\ IsFiniteSet(1..n)
    BY FS_Interval
  <2> QED
    BY <2>1 DEF FiniteSubsetsOf
<1>2. PICK low \in UpTo : \A u \in UpTo : <<u, low>> \notin Less
  <2>1. IsWellFoundedOn(Less, Finite)
    BY FS_StrictSubsetOrderingWellFounded
  <2> HIDE DEF UpTo, Less, Finite
  <2> QED
    BY <1>1, <2>1, WFMin
<1>3. PICK n \in S : low = 1..n
  OBVIOUS
<1>4. \A m \in S : n =< m
  <2> SUFFICES ASSUME NEW m \in S, m < n PROVE FALSE
    BY SMT
  <2>1. 1..m \subseteq 1..n /\ n \in 1..n /\ n \notin 1..m
    BY SMT
  <2>2. <<1..m, 1..n>> \in Less
    BY <2>1 DEF StrictSubsetOrdering
  <2> QED
    BY <1>2, <1>3, <2>2
<1> QED
  BY <1>4

-----------------------------------------------------------------------------
LEMMA InitHolds == SqlInit => SqlInv
<1> SUFFICES ASSUME SqlInit PROVE SqlInv
  OBVIOUS
<1>1. SqlTypeOK
  <2>1. deamon = [at |-> "off", id |-> 0, fields |-> {}]
    BY DEF SqlInit, Fresh
  <2>2. /\ in \in [Requests -> SUBSET Nodes] /\ out \in [Requests -> SUBSET Nodes]
        /\ class \in [Requests -> (SUBSET (SqlProps \cup Inds)) \cup {NotMade}]
    BY DEF SqlInit
  <2>3. caller \in [Callers -> [id: Nat, todo: SUBSET Nodes, asked: SUBSET Nodes]]
    BY DEF SqlInit
  <2>4. drawn \in 0 .. Cardinality(Callers)
    BY RequestsNat DEF SqlInit
  <2>5. marked = FALSE /\ stop = FALSE /\ enabled \in BOOLEAN /\ whole = {}
    BY DEF SqlInit
  <2> QED
    BY <2>1, <2>2, <2>3, <2>4, <2>5 DEF SqlTypeOK
<1>2. CallersOK
  <2>1. Started = {}
    BY DEF SqlInit, Started
  <2> QED
    BY <2>1, FS_EmptySet DEF SqlInit, CallersOK
<1>3. NodesAsked
  BY DEF SqlInit, NodesAsked
<1>4. WholeInOrOut /\ DeamonHolds
  BY DEF SqlInit, WholeInOrOut, DeamonHolds, AtRequest, Fresh
<1> QED
  BY <1>1, <1>2, <1>3, <1>4 DEF SqlInv

\* The first caller of a number leaves all numbers below it alone.
LEMMA EnsureSQLKeeps ==
  ASSUME SqlInv, NEW c \in Callers, NEW shape \in Shapes, EnsureSQL(c, shape)
  PROVE  SqlInv'
<1> DEFINE nodes == {"classname", "globalname"} \cup shape
<1>1. SqlTypeOK /\ CallersOK /\ NodesAsked /\ WholeInOrOut /\ DeamonHolds
  BY DEF SqlInv
<1>2. /\ caller' = [caller EXCEPT ![c] = [id |-> drawn + 1, todo |-> nodes, asked |-> nodes]]
      /\ drawn' = drawn + 1 /\ caller[c].id = 0 /\ drawn \in Nat
      /\ caller \in [Callers -> [id: Nat, todo: SUBSET Nodes, asked: SUBSET Nodes]]
      /\ UNCHANGED <<in, out, marked, stop, enabled, deamon, class, whole>>
  BY <1>1, RequestsNat DEF EnsureSQL, SqlTypeOK
<1>3. nodes \subseteq Nodes
  BY SqlAssumption DEF Nodes
<1> HIDE DEF nodes
<1>4. /\ caller'[c] = [id |-> drawn + 1, todo |-> nodes, asked |-> nodes]
      /\ \A d \in Callers \ {c} : caller'[d] = caller[d]
  BY <1>2
<1>5. CallersOK' /\ drawn' \in 0 .. Cardinality(Callers)
  <2>1. Started' = Started \cup {c} /\ c \notin Started
    BY <1>2, <1>4 DEF Started
  <2>2. IsFiniteSet(Started) /\ Started' \subseteq Callers
    BY SqlAssumption, FS_Subset DEF Started
  <2>3. drawn' = Cardinality(Started') /\ IsFiniteSet(Started')
    BY <1>1, <1>2, <2>1, <2>2, FS_AddElement DEF CallersOK
  <2>4. Cardinality(Started') =< Cardinality(Callers)
    BY <2>2, SqlAssumption, FS_Subset
  <2>5. \A d \in Callers : caller'[d].id =< drawn' /\ caller'[d].todo \subseteq caller'[d].asked
    BY <1>1, <1>2, <1>4 DEF CallersOK
  <2> QED
    BY <1>2, <2>3, <2>4, <2>5, RequestsNat DEF CallersOK
<1>6. SqlTypeOK'
  BY <1>1, <1>2, <1>3, <1>5 DEF SqlTypeOK
<1>7. \A i \in Requests : Asked(i) \subseteq Asked(i)'
  BY <1>2, <1>4, RequestsNat DEF Asked
<1>8. \A i \in Requests : i =< drawn => Asked(i)' = Asked(i) /\ (Complete(i) => Complete(i)')
  <2> SUFFICES ASSUME NEW i \in Requests, i =< drawn
               PROVE  Asked(i)' = Asked(i) /\ (Complete(i) => Complete(i)')
    OBVIOUS
  <2>1. i \in Nat \ {0} /\ i # drawn + 1
    BY <1>2, RequestsNat
  <2>2. \A d \in Callers : /\ caller'[d].id = i <=> caller[d].id = i
                           /\ caller[d].id = i => caller'[d] = caller[d]
    BY <1>2, <1>4, <2>1
  <2> QED
    BY <1>2, <2>1, <2>2, AskedStays DEF Complete
<1>9. NodesAsked'
  BY <1>1, <1>2, <1>7 DEF NodesAsked
<1>10. \A i \in whole : i \in Requests /\ i =< drawn
  BY <1>1 DEF SqlTypeOK, WholeInOrOut, Complete
<1>11. WholeInOrOut'
  BY <1>1, <1>2, <1>8, <1>10 DEF WholeInOrOut
<1>12. DeamonHolds'
  BY <1>1, <1>2, <1>8, <1>10 DEF DeamonHolds, AtRequest
<1> QED
  BY <1>5, <1>6, <1>9, <1>11, <1>12 DEF SqlInv

\* A node is written only for a request that is not complete.
LEMMA SetNodeKeeps ==
  ASSUME SqlInv, NEW c \in Callers, NEW node \in caller[c].todo, SetNode(c, node)
  PROVE  SqlInv'
<1> DEFINE id == caller[c].id
<1>1. SqlTypeOK /\ CallersOK /\ NodesAsked /\ WholeInOrOut /\ DeamonHolds
  BY DEF SqlInv
<1>2. /\ caller \in [Callers -> [id: Nat, todo: SUBSET Nodes, asked: SUBSET Nodes]]
      /\ in \in [Requests -> SUBSET Nodes]
      /\ in' = [in EXCEPT ![id] = @ \cup {node}]
      /\ caller' = [caller EXCEPT ![c].todo = @ \ {node}]
      /\ UNCHANGED <<out, drawn, marked, stop, enabled, deamon, class, whole>>
  BY <1>1 DEF SetNode, SqlTypeOK
<1>3. node \in Nodes /\ node \in caller[c].asked
  BY <1>1, <1>2 DEF CallersOK
<1>4. /\ caller' \in [Callers -> [id: Nat, todo: SUBSET Nodes, asked: SUBSET Nodes]]
      /\ \A d \in Callers : /\ caller'[d].id = caller[d].id
                            /\ caller'[d].asked = caller[d].asked
                            /\ caller'[d].todo \subseteq caller[d].todo
  BY <1>2
<1>5. /\ in' \in [Requests -> SUBSET Nodes]
      /\ \A i \in Requests : /\ in[i] \subseteq in'[i]
                             /\ i # id => in'[i] = in[i]
                             /\ in'[i] \subseteq in[i] \cup {node}
  BY <1>2, <1>3
<1>6. \A i : Asked(i)' = Asked(i)
  BY <1>4, AskedStays
<1>7. SqlTypeOK'
  BY <1>1, <1>2, <1>4, <1>5 DEF SqlTypeOK
<1>8. CallersOK'
  <2>1. Started' = Started
    BY <1>4 DEF Started
  <2> QED
    BY <1>1, <1>2, <1>4, <2>1 DEF CallersOK
<1>9. NodesAsked'
  <2>1. \A i \in Requests : i = id => node \in Asked(i)
    BY <1>3, AskedBy
  <2> QED
    BY <1>1, <1>2, <1>5, <1>6, <2>1 DEF NodesAsked
<1>10. \A i \in whole : i \in Requests /\ i # id
  BY <1>1 DEF SqlTypeOK, WholeInOrOut, Complete
<1>11. WholeInOrOut'
  <2>1. \A i \in whole : Complete(i) => Complete(i)'
    BY <1>2, <1>4 DEF Complete
  <2> QED
    BY <1>1, <1>2, <1>5, <1>6, <1>10, <2>1 DEF WholeInOrOut
<1>12. DeamonHolds'
  <2>1. AtRequest' => deamon.id \in Requests /\ in'[deamon.id] # {}
    BY <1>1, <1>2, <1>5 DEF DeamonHolds, AtRequest
  <2> QED
    BY <1>1, <1>2, <1>6, <2>1 DEF DeamonHolds
<1> QED
  BY <1>7, <1>8, <1>9, <1>11, <1>12 DEF SqlInv

-----------------------------------------------------------------------------
\* The steps that change no more than the Deamon and the control nodes keep the
\* invariant if they leave the Deamon as it should be.
LEMMA DeamonMoves ==
  ASSUME SqlInv, UNCHANGED <<in, out, drawn, caller, class, whole>>,
         marked' \in BOOLEAN, stop' \in BOOLEAN, enabled' \in BOOLEAN,
         deamon' \in [at: {"off", "died", "start", "classname", "globalname", "properties",
                           "indicies", "generate", "move", "kill", "mark", "sleep"},
                      id: Nat, fields: SUBSET (SqlProps \cup Inds)],
         DeamonHolds'
  PROVE  SqlInv'
<1>1. SqlTypeOK' /\ CallersOK' /\ NodesAsked' /\ WholeInOrOut'
  <2>1. SqlTypeOK'
    BY DEF SqlInv, SqlTypeOK
  <2>2. CallersOK'
    BY DEF SqlInv, CallersOK, Started
  <2>3. NodesAsked' /\ WholeInOrOut'
    BY DEF SqlInv, NodesAsked, WholeInOrOut, Asked, Complete
  <2> QED
    BY <2>1, <2>2, <2>3
<1> QED
  BY <1>1 DEF SqlInv

\* At most of its places nothing is asked of the Deamon's array.
LEMMA DeamonGoes ==
  ASSUME SqlInv, UNCHANGED <<in, out, drawn, caller, class, whole>>,
         marked' \in BOOLEAN, stop' \in BOOLEAN, enabled' \in BOOLEAN,
         NEW at \in {"off", "died", "start", "classname", "globalname", "properties",
                     "move", "mark", "sleep"},
         NEW k \in Nat, NEW fields \in SUBSET (SqlProps \cup Inds),
         deamon' = [at |-> at, id |-> k, fields |-> fields],
         at \in {"classname", "globalname", "properties", "move"} => k \in Requests /\ in[k] # {}
  PROVE  SqlInv'
<1>1. DeamonHolds'
  BY DEF DeamonHolds, AtRequest
<1> QED
  BY <1>1, DeamonMoves

LEMMA ToNextKeeps ==
  ASSUME SqlInv, NEW i \in Nat, ToNext(i), UNCHANGED <<in, out, drawn, caller, class, whole>>,
         marked' \in BOOLEAN, stop' \in BOOLEAN, enabled' \in BOOLEAN
  PROVE  SqlInv'
<1>1. deamon = [at |-> deamon.at, id |-> deamon.id, fields |-> deamon.fields]
      /\ deamon.id \in Nat /\ deamon.fields \in SUBSET (SqlProps \cup Inds)
  BY DEF SqlInv, SqlTypeOK
<1>2. CASE After(i) # {}
  <2> DEFINE k == CHOOSE n \in After(i) : \A m \in After(i) : n =< m
  <2>1. After(i) \in SUBSET Nat
    BY RequestsNat DEF After
  <2>2. k \in After(i)
    BY <1>2, <2>1, SmallestRequest
  <2>3. deamon' = [deamon EXCEPT !.at = "classname", !.id = k]
    BY <1>2 DEF ToNext
  <2> HIDE DEF k
  <2>4. k \in Nat /\ k \in Requests /\ in[k] # {}
    BY <2>1, <2>2 DEF After
  <2>5. deamon' = [at |-> "classname", id |-> k, fields |-> deamon.fields]
    BY <1>1, <2>3
  <2> QED
    BY <1>1, <2>4, <2>5, DeamonGoes
<1>3. CASE After(i) = {}
  <2>1. PICK at \in {"sleep", "died"} : deamon' = [deamon EXCEPT !.at = at]
    BY <1>3 DEF ToNext, Become
  <2>2. deamon' = [at |-> at, id |-> deamon.id, fields |-> deamon.fields]
    BY <1>1, <2>1
  <2> QED
    BY <1>1, <2>2, DeamonGoes
<1> QED
  BY <1>2, <1>3

\* A start, an end, a stop and a switch from outside.
LEMMA OutsideKeeps ==
  ASSUME SqlInv, StartDeamon \/ EndDeamon \/ StopDeamon \/ EnableDeamon \/ JobDeamon
  PROVE  SqlInv'
<1>1. /\ marked \in BOOLEAN /\ stop \in BOOLEAN /\ enabled \in BOOLEAN
      /\ deamon \in [at: {"off", "died", "start", "classname", "globalname", "properties",
                          "indicies", "generate", "move", "kill", "mark", "sleep"},
                     id: Nat, fields: SUBSET (SqlProps \cup Inds)]
  BY DEF SqlInv, SqlTypeOK
<1>2. CASE StartDeamon \/ EndDeamon \/ JobDeamon
  <2>1. PICK at \in {"start", "died"} : deamon' = [at |-> at, id |-> 0, fields |-> {}]
    BY <1>2 DEF StartDeamon, EndDeamon, JobDeamon, Fresh
  <2>2. UNCHANGED <<in, out, drawn, marked, stop, enabled, caller, class, whole>>
    BY <1>2 DEF StartDeamon, EndDeamon, JobDeamon
  <2>3. 0 \in Nat /\ {} \in SUBSET (SqlProps \cup Inds)
    OBVIOUS
  <2> QED
    BY <1>1, <2>1, <2>2, <2>3, DeamonGoes
<1>3. CASE StopDeamon \/ EnableDeamon
  <2>1. /\ UNCHANGED <<in, out, drawn, marked, caller, deamon, class, whole>>
        /\ stop' \in BOOLEAN /\ enabled' \in BOOLEAN
    BY <1>1, <1>3 DEF StopDeamon, EnableDeamon
  <2>2. DeamonHolds'
    BY <2>1 DEF SqlInv, DeamonHolds, AtRequest, Asked
  <2> QED
    BY <1>1, <2>1, <2>2, DeamonMoves
<1> QED
  BY <1>2, <1>3

LEMMA StartKeeps ==
  ASSUME SqlInv, DeamonStart
  PROVE  SqlInv'
<1>1. /\ UNCHANGED <<in, out, drawn, marked, enabled, caller, class, whole>>
      /\ stop' \in BOOLEAN /\ marked \in BOOLEAN /\ enabled \in BOOLEAN
  BY DEF DeamonStart, SqlInv, SqlTypeOK
<1>2. CASE stop \/ ~enabled
  <2>1. /\ deamon' = [at |-> "off", id |-> deamon.id, fields |-> deamon.fields]
        /\ deamon.id \in Nat /\ deamon.fields \in SUBSET (SqlProps \cup Inds)
    BY <1>2 DEF DeamonStart, Become, SqlInv, SqlTypeOK
  <2> QED
    BY <1>1, <2>1, DeamonGoes
<1>3. CASE ~stop /\ enabled
  <2>1. ToNext(0) /\ 0 \in Nat
    BY <1>3 DEF DeamonStart
  <2> QED
    BY <1>1, <2>1, ToNextKeeps
<1> QED
  BY <1>2, <1>3

\* A complete request that has all its nodes is whole from here on.
LEMMA ReadClassnameKeeps ==
  ASSUME SqlInv, ReadClassname
  PROVE  SqlInv'
<1> DEFINE id == deamon.id
<1>1. SqlTypeOK /\ CallersOK /\ NodesAsked /\ WholeInOrOut /\ DeamonHolds
  BY DEF SqlInv
<1>2. /\ UNCHANGED <<in, out, drawn, marked, stop, enabled, caller>>
      /\ class' = [class EXCEPT ![id] = NotMade]
      /\ deamon.at = "classname" /\ id \in Requests
  BY <1>1 DEF ReadClassname, ReadName, DeamonHolds, AtRequest
<1>3. PICK at \in {"globalname", "died"} : deamon' = [deamon EXCEPT !.at = at]
  BY DEF ReadClassname, ReadName, Become
<1>4. /\ deamon'.at = at /\ deamon'.id = id
      /\ deamon' \in [at: {"globalname", "died"}, id: Nat, fields: SUBSET (SqlProps \cup Inds)]
  BY <1>1, <1>3 DEF SqlTypeOK
<1>5. \A i \in whole' : i \in whole \/ (i = id /\ Complete(id) /\ in[id] = Asked(id))
  BY DEF ReadClassname
<1>6. SqlTypeOK'
  <2>1. class' \in [Requests -> (SUBSET (SqlProps \cup Inds)) \cup {NotMade}]
    BY <1>1, <1>2 DEF SqlTypeOK
  <2> QED
    BY <1>1, <1>2, <1>4, <1>5, <2>1 DEF SqlTypeOK
<1>7. CallersOK' /\ NodesAsked'
  BY <1>1, <1>2 DEF CallersOK, Started, NodesAsked, Asked
<1>8. WholeInOrOut'
  <2> SUFFICES ASSUME NEW i \in whole'
               PROVE  /\ Complete(i)'
                      /\ in'[i] = Asked(i)' \/ (in'[i] = {} /\ out'[i] = Asked(i)')
                      /\ class'[i] # NotMade => Fields(Asked(i)') \subseteq class'[i]
    BY DEF WholeInOrOut, Fields
  <2>1. Asked(i)' = Asked(i) /\ Complete(i)' = Complete(i)
    BY <1>2 DEF Asked, Complete
  <2>2. i \in Requests /\ (i # id => class'[i] = class[i]) /\ class'[id] = NotMade
    BY <1>1, <1>2, <1>5 DEF SqlTypeOK
  <2> QED
    BY <1>1, <1>2, <1>5, <2>1, <2>2 DEF WholeInOrOut
<1>9. DeamonHolds'
  BY <1>1, <1>2, <1>4 DEF DeamonHolds, AtRequest
<1> QED
  BY <1>6, <1>7, <1>8, <1>9 DEF SqlInv

LEMMA ReadGlobalnameKeeps ==
  ASSUME SqlInv, ReadGlobalname
  PROVE  SqlInv'
<1>1. PICK at \in {"properties", "died"} : deamon' = [deamon EXCEPT !.at = at]
  BY DEF ReadGlobalname, ReadName, Become
<1>2. /\ UNCHANGED <<in, out, drawn, marked, stop, enabled, caller, class, whole>>
      /\ deamon.id \in Requests /\ in[deamon.id] # {}
  BY DEF ReadGlobalname, ReadName, SqlInv, DeamonHolds, AtRequest
<1>3. /\ marked \in BOOLEAN /\ stop \in BOOLEAN /\ enabled \in BOOLEAN
      /\ deamon.id \in Nat /\ deamon.fields \in SUBSET (SqlProps \cup Inds)
      /\ deamon' = [at |-> at, id |-> deamon.id, fields |-> deamon.fields]
  BY <1>1 DEF SqlInv, SqlTypeOK
<1> QED
  BY <1>2, <1>3, DeamonGoes

\* The two merges: the local array has what the request has of these nodes, and
\* a whole request with nodes has all that was asked for.
LEMMA MergeKeeps ==
  ASSUME SqlInv, MergeProperties \/ MergeIndicies
  PROVE  SqlInv'
<1> DEFINE id == deamon.id
<1>1. SqlTypeOK /\ WholeInOrOut /\ DeamonHolds
  BY DEF SqlInv
<1>2. PICK next \in {"indicies", "generate"}, nodes \in SUBSET (SqlProps \cup Inds) :
        /\ deamon' = [deamon EXCEPT !.at = next, !.fields = @ \cup (in[id] \cap nodes)]
        /\ next = "indicies" => nodes = SqlProps
        /\ next = "generate" => nodes = Inds /\ deamon.at = "indicies"
  BY DEF MergeProperties, MergeIndicies, MergeFields
<1>3. /\ UNCHANGED <<in, out, drawn, marked, stop, enabled, caller, class, whole>>
      /\ id \in Requests /\ in[id] # {}
  BY <1>1 DEF MergeProperties, MergeIndicies, MergeFields, DeamonHolds, AtRequest
<1>4. /\ deamon'.at = next /\ deamon'.id = id
      /\ deamon'.fields = deamon.fields \cup (in[id] \cap nodes)
      /\ deamon' \in [at: {"indicies", "generate"}, id: Nat, fields: SUBSET (SqlProps \cup Inds)]
  BY <1>1, <1>2 DEF SqlTypeOK
<1>5. DeamonHolds'
  <2>1. \A i : Asked(i)' = Asked(i)
    BY <1>3 DEF Asked
  <2>2. id \in whole => in[id] = Asked(id)
    BY <1>1, <1>3 DEF WholeInOrOut
  <2>3. id \in whole /\ next = "indicies" => Asked(id) \cap SqlProps \subseteq deamon'.fields
    BY <1>2, <1>4, <2>2
  <2>4. id \in whole /\ next = "generate" => Fields(Asked(id)) \subseteq deamon'.fields
    <3>1. Fields(Asked(id)) \subseteq SqlProps \cup Inds
      BY <1>1, AskedInNodes DEF Fields, Nodes
    <3>2. id \in whole /\ next = "generate" => Asked(id) \cap SqlProps \subseteq deamon.fields
      BY <1>1, <1>2 DEF DeamonHolds
    <3>3. Fields(Asked(id)) \subseteq Asked(id)
      BY DEF Fields
    <3> QED
      BY <1>2, <1>4, <2>2, <3>1, <3>2, <3>3
  <2> QED
    BY <1>3, <1>4, <2>1, <2>3, <2>4 DEF DeamonHolds, AtRequest, Fields
<1>6. marked' \in BOOLEAN /\ stop' \in BOOLEAN /\ enabled' \in BOOLEAN
  BY <1>1, <1>3 DEF SqlTypeOK
<1>7. deamon' \in [at: {"off", "died", "start", "classname", "globalname", "properties",
                        "indicies", "generate", "move", "kill", "mark", "sleep"},
                   id: Nat, fields: SUBSET (SqlProps \cup Inds)]
  BY <1>4
<1> QED
  BY <1>3, <1>5, <1>6, <1>7, DeamonMoves

LEMMA GenerateClassKeeps ==
  ASSUME SqlInv, GenerateClass
  PROVE  SqlInv'
<1> DEFINE id == deamon.id
<1>1. SqlTypeOK /\ CallersOK /\ NodesAsked /\ WholeInOrOut /\ DeamonHolds
  BY DEF SqlInv
<1>2. /\ UNCHANGED <<in, out, drawn, marked, stop, enabled, caller, whole>>
      /\ deamon.at = "generate" /\ id \in Requests /\ in[id] # {}
  BY <1>1 DEF GenerateClass, DeamonHolds, AtRequest
<1>3. PICK at \in {"move", "mark"} : /\ deamon' = [deamon EXCEPT !.at = at]
                                     /\ \/ class' = class
                                        \/ class' = [class EXCEPT ![id] = deamon.fields]
  BY DEF GenerateClass, Become
<1>4. /\ deamon'.at = at /\ deamon'.id = id
      /\ deamon' \in [at: {"move", "mark"}, id: Nat, fields: SUBSET (SqlProps \cup Inds)]
  BY <1>1, <1>3 DEF SqlTypeOK
<1>5. /\ class' \in [Requests -> (SUBSET (SqlProps \cup Inds)) \cup {NotMade}]
      /\ \A i \in Requests : class'[i] = class[i] \/ (i = id /\ class'[i] = deamon.fields)
  BY <1>1, <1>3 DEF SqlTypeOK
<1>6. SqlTypeOK'
  BY <1>1, <1>2, <1>4, <1>5 DEF SqlTypeOK
<1>7. CallersOK' /\ NodesAsked'
  BY <1>1, <1>2 DEF CallersOK, Started, NodesAsked, Asked
<1>8. WholeInOrOut'
  <2> SUFFICES ASSUME NEW i \in whole
               PROVE  /\ Complete(i)'
                      /\ in'[i] = Asked(i)' \/ (in'[i] = {} /\ out'[i] = Asked(i)')
                      /\ class'[i] # NotMade => Fields(Asked(i)') \subseteq class'[i]
    BY <1>2 DEF WholeInOrOut, Fields
  <2>1. Asked(i)' = Asked(i) /\ Complete(i)' = Complete(i)
    BY <1>2 DEF Asked, Complete
  <2>2. i \in Requests
    BY <1>1 DEF SqlTypeOK
  <2>3. i = id => Fields(Asked(i)) \subseteq deamon.fields
    BY <1>1, <1>2 DEF DeamonHolds
  <2> QED
    BY <1>1, <1>2, <1>5, <2>1, <2>2, <2>3 DEF WholeInOrOut
<1>9. DeamonHolds'
  BY <1>1, <1>2, <1>4 DEF DeamonHolds, AtRequest
<1> QED
  BY <1>6, <1>7, <1>8, <1>9 DEF SqlInv

\* The request at work is the only one a step of the Deamon moves or kills.
LEMMA MoveOutKeeps ==
  ASSUME SqlInv, MoveOut
  PROVE  SqlInv'
<1> DEFINE id == deamon.id
<1>1. SqlTypeOK /\ CallersOK /\ NodesAsked /\ WholeInOrOut /\ DeamonHolds
  BY DEF SqlInv
<1>2. /\ UNCHANGED <<in, drawn, marked, stop, enabled, caller, class, whole>>
      /\ out' = [out EXCEPT ![id] = @ \cup in[id]]
      /\ deamon' = [deamon EXCEPT !.at = "kill"]
      /\ id \in Requests /\ in[id] # {}
  BY <1>1 DEF MoveOut, Become, DeamonHolds, AtRequest
<1>3. /\ deamon'.at = "kill" /\ deamon'.id = id
      /\ deamon' \in [at: {"kill"}, id: Nat, fields: SUBSET (SqlProps \cup Inds)]
  BY <1>1, <1>2 DEF SqlTypeOK
<1>4. /\ out' \in [Requests -> SUBSET Nodes]
      /\ out'[id] = out[id] \cup in[id]
      /\ \A i \in Requests \ {id} : out'[i] = out[i]
  BY <1>1, <1>2 DEF SqlTypeOK
<1>5. \A i : Asked(i)' = Asked(i) /\ Complete(i)' = Complete(i)
  BY <1>2 DEF Asked, Complete
<1>6. SqlTypeOK' /\ CallersOK'
  <2>1. SqlTypeOK'
    BY <1>1, <1>2, <1>3, <1>4 DEF SqlTypeOK
  <2>2. CallersOK'
    BY <1>1, <1>2 DEF CallersOK, Started
  <2> QED
    BY <2>1, <2>2
<1>7. NodesAsked'
  BY <1>1, <1>2, <1>4, <1>5 DEF NodesAsked
<1>8. id \in whole => in[id] = Asked(id)
  BY <1>1, <1>2 DEF WholeInOrOut
<1>9. WholeInOrOut'
  <2>1. whole \subseteq Requests /\ UNCHANGED <<in, class, whole>>
    BY <1>1, <1>2 DEF SqlTypeOK
  <2>2. ASSUME NEW i \in whole
        PROVE  /\ Complete(i)'
               /\ in'[i] = Asked(i)' \/ (in'[i] = {} /\ out'[i] = Asked(i)')
               /\ class'[i] # NotMade => Fields(Asked(i)') \subseteq class'[i]
    <3>1. /\ Complete(i)
          /\ in[i] = Asked(i) \/ (in[i] = {} /\ out[i] = Asked(i))
          /\ class[i] # NotMade => Fields(Asked(i)) \subseteq class[i]
      BY <1>1 DEF WholeInOrOut
    <3>2. CASE i = id
      BY <1>5, <1>8, <2>1, <3>1, <3>2
    <3>3. CASE i # id
      BY <1>4, <1>5, <2>1, <3>1, <3>3
    <3> QED
      BY <3>2, <3>3
  <2> QED
    BY <2>1, <2>2 DEF WholeInOrOut
<1>10. DeamonHolds'
  <2>1. id \in whole => out'[id] = Asked(id)
    <3>1. out[id] \subseteq Asked(id)
      BY <1>1, <1>2 DEF NodesAsked
    <3> QED
      BY <1>4, <1>8, <3>1
  <2> QED
    BY <1>2, <1>3, <1>5, <2>1 DEF DeamonHolds, AtRequest
<1> QED
  BY <1>6, <1>7, <1>9, <1>10 DEF SqlInv

LEMMA KillInKeeps ==
  ASSUME SqlInv, KillIn
  PROVE  SqlInv'
<1> DEFINE id == deamon.id
<1>1. SqlTypeOK /\ CallersOK /\ NodesAsked /\ WholeInOrOut /\ DeamonHolds
  BY DEF SqlInv
<1>2. /\ UNCHANGED <<out, drawn, marked, stop, enabled, caller, class, whole>>
      /\ in' = [in EXCEPT ![id] = {}]
      /\ deamon' = [deamon EXCEPT !.at = "mark"]
      /\ id \in Requests /\ deamon.at = "kill"
  BY <1>1 DEF KillIn, Become, DeamonHolds, AtRequest
<1>3. /\ deamon'.at = "mark" /\ deamon'.id = id
      /\ deamon' \in [at: {"mark"}, id: Nat, fields: SUBSET (SqlProps \cup Inds)]
  BY <1>1, <1>2 DEF SqlTypeOK
<1>4. /\ in' \in [Requests -> SUBSET Nodes]
      /\ in'[id] = {}
      /\ \A i \in Requests \ {id} : in'[i] = in[i]
  BY <1>1, <1>2 DEF SqlTypeOK
<1>5. \A i : Asked(i)' = Asked(i) /\ Complete(i)' = Complete(i)
  BY <1>2 DEF Asked, Complete
<1>6. SqlTypeOK' /\ CallersOK'
  <2>1. SqlTypeOK'
    BY <1>1, <1>2, <1>3, <1>4 DEF SqlTypeOK
  <2>2. CallersOK'
    BY <1>1, <1>2 DEF CallersOK, Started
  <2> QED
    BY <2>1, <2>2
<1>7. NodesAsked'
  BY <1>1, <1>2, <1>4, <1>5 DEF NodesAsked
<1>8. WholeInOrOut'
  <2>1. whole \subseteq Requests
    BY <1>1 DEF SqlTypeOK
  <2>2. id \in whole => out[id] = Asked(id)
    BY <1>1, <1>2 DEF DeamonHolds
  <2> QED
    BY <1>1, <1>2, <1>4, <1>5, <2>1, <2>2 DEF WholeInOrOut
<1>9. DeamonHolds'
  BY <1>3 DEF DeamonHolds, AtRequest
<1> QED
  BY <1>6, <1>7, <1>8, <1>9 DEF SqlInv

LEMMA MarkLastKeeps ==
  ASSUME SqlInv, MarkLast
  PROVE  SqlInv'
<1>1. /\ ToNext(deamon.id) /\ deamon.id \in Nat /\ marked' = TRUE /\ stop \in BOOLEAN /\ enabled \in BOOLEAN
      /\ UNCHANGED <<in, out, drawn, stop, enabled, caller, class, whole>>
  BY DEF MarkLast, SqlInv, SqlTypeOK
<1> QED
  BY <1>1, ToNextKeeps

-----------------------------------------------------------------------------
LEMMA StutterKeeps ==
  ASSUME SqlInv, UNCHANGED sqlVars
  PROVE  SqlInv'
<1>1. UNCHANGED <<in, out, drawn, marked, stop, enabled, caller, deamon, class, whole>>
  BY DEF sqlVars
<1>2. SqlTypeOK /\ CallersOK /\ NodesAsked /\ WholeInOrOut /\ DeamonHolds
  BY DEF SqlInv
<1>3. \A i : Asked(i)' = Asked(i) /\ Complete(i)' = Complete(i)
  BY <1>1 DEF Asked, Complete
<1>4. SqlTypeOK'
  BY <1>1, <1>2 DEF SqlTypeOK
<1>5. CallersOK'
  <2>1. Started' = Started
    BY <1>1 DEF Started
  <2> QED
    BY <1>1, <1>2, <2>1 DEF CallersOK
<1>6. NodesAsked'
  BY <1>1, <1>2, <1>3 DEF NodesAsked
<1>7. WholeInOrOut'
  BY <1>1, <1>2, <1>3 DEF WholeInOrOut
<1>8. DeamonHolds'
  BY <1>1, <1>2, <1>3 DEF DeamonHolds, AtRequest
<1> QED
  BY <1>4, <1>5, <1>6, <1>7, <1>8 DEF SqlInv

LEMMA StepKeeps == SqlInv /\ [SqlNext]_sqlVars => SqlInv'
<1> SUFFICES ASSUME SqlInv, [SqlNext]_sqlVars PROVE SqlInv'
  OBVIOUS
<1>1. CASE UNCHANGED sqlVars
  BY <1>1, StutterKeeps
<1>2. ASSUME NEW c \in Callers,
             \/ \E shape \in Shapes : EnsureSQL(c, shape)
             \/ \E node \in caller[c].todo : SetNode(c, node)
      PROVE  SqlInv'
  BY <1>2, EnsureSQLKeeps, SetNodeKeeps
<1>3. CASE StartDeamon \/ EndDeamon \/ StopDeamon \/ EnableDeamon
  BY <1>3, OutsideKeeps
<1>4. CASE DeamonStep
  BY <1>4, StartKeeps, ReadClassnameKeeps, ReadGlobalnameKeeps, MergeKeeps, GenerateClassKeeps,
     MoveOutKeeps, KillInKeeps, MarkLastKeeps, OutsideKeeps DEF DeamonStep
<1> QED
  BY <1>1, <1>2, <1>3, <1>4 DEF SqlNext

\* For any number of calls of ensureSQL, whatever they ask for and wherever the
\* Deamon ends or fails: the queue has its types, and a request that was complete
\* when the Deamon came to it (foo.ClassGen) stays whole in "in" or in "out" and
\* has a class, if any, with all its fields.
THEOREM WholeRequestsStay == SqlSpec => [](SqlTypeOK /\ WholeRequestsKept)
<1>1. SqlInv => SqlTypeOK /\ WholeRequestsKept
  BY DEF SqlInv, WholeInOrOut, WholeRequestsKept
<1> QED
  BY InitHolds, StepKeeps, <1>1, PTL DEF SqlSpec

-----------------------------------------------------------------------------
(* The query processor: what it finds in a row is a fold over its stack,   *)
(* followed element by element.                                            *)

\* A set of numbers that is not empty has a least one.
LEMMA LeastNumber ==
  ASSUME NEW T, T \subseteq Nat, T # {}
  PROVE  \E n \in T : \A m \in T : n <= m
<1>1. IsWellFoundedOn(OpToRel(<, Nat), Nat)
  BY NatLessThanWellFounded
<1>2. PICK n \in T : \A m \in T : ~(<<m, n>> \in OpToRel(<, Nat))
  BY <1>1, WFMin
<1>3. \A m \in T : ~(m < n)
  BY <1>2 DEF OpToRel
<1> QED BY <1>3

\* Induction, for a set of numbers.
LEMMA Induction ==
  ASSUME NEW S, 0 \in S, \A n \in Nat : n \in S => n + 1 \in S
  PROVE  Nat \subseteq S
<1>1. SUFFICES ASSUME NEW k \in Nat, k \notin S PROVE FALSE
  OBVIOUS
<1>2. PICK n \in Nat \ S : \A m \in Nat \ S : n <= m
  BY <1>1, LeastNumber
<1>3. n # 0 /\ n - 1 \in Nat /\ n - 1 \in S
  BY <1>2
<1>4. (n - 1) + 1 = n
  BY <1>2
<1> QED BY <1>2, <1>3, <1>4

\* The numbers up to k have a greatest one, and lose it.
LEMMA MaxUpTo ==
  ASSUME NEW k \in Nat, k # 0
  PROVE  /\ Q!Max(1 .. k) = k
         /\ (1 .. k) \ {k} = 1 .. k - 1
<1>1. k \in 1 .. k /\ \A y \in 1 .. k : k >= y
  OBVIOUS
<1>2. \A x \in 1 .. k : (\A y \in 1 .. k : x >= y) => x = k
  OBVIOUS
<1>3. Q!Max(1 .. k) = k
  BY <1>1, <1>2 DEF Q!Max
<1> QED BY <1>3

\* Before the first element of the stack.
Untried == [evals |-> <<>>, hit |-> FALSE, adds |-> 0, thrown |-> FALSE]

\* The recursive function of the fold over the stack w at row r, on the sets of
\* numbers of elements.
IsRun(f, r, w, n) ==
  f = [s \in SUBSET (1 .. n) |->
         IF s = {} THEN Untried ELSE Q!Step(f[s \ {Q!Max(s)}], w[Q!Max(s)], r)]

\* It exists.
LEMMA RunExists ==
  ASSUME NEW r, NEW w, NEW n \in Nat
  PROVE  \E f : IsRun(f, r, w, n)
<1> DEFINE S == {k \in Nat : \E f : IsRun(f, r, w, k)}
<1>1. 0 \in S
  <2> DEFINE f == [s \in SUBSET (1 .. 0) |-> Untried]
  <2>1. \A s \in SUBSET (1 .. 0) : s = {}
    OBVIOUS
  <2>2. IsRun(f, r, w, 0)
    BY <2>1 DEF IsRun
  <2> HIDE DEF f
  <2> QED BY <2>2
<1>2. ASSUME NEW k \in Nat, k \in S
      PROVE  k + 1 \in S
  <2>1. PICK f : IsRun(f, r, w, k)
    BY <1>2
  <2> DEFINE D == SUBSET (1 .. k)
             E == SUBSET (1 .. k + 1)
             R(p, s) == Q!Step(p, w[Q!Max(s)], r)
             g == [s \in E |-> IF s \in D THEN f[s] ELSE R(f[s \ {Q!Max(s)}], s)]
             h == [s \in E |-> IF s = {} THEN Untried ELSE R(g[s \ {Q!Max(s)}], s)]
  <2>2. \A s \in D : f[s] = IF s = {} THEN Untried ELSE R(f[s \ {Q!Max(s)}], s)
    BY <2>1 DEF IsRun
  <2> HIDE DEF R
  <2>3. /\ D \subseteq E /\ {} \in D
        /\ \A s \in D : s \ {Q!Max(s)} \in D
    <3>1. 1 .. k \subseteq 1 .. k + 1
      OBVIOUS
    <3>2. D \subseteq E /\ {} \in D
      BY <3>1
    <3>3. ASSUME NEW s \in D PROVE s \ {Q!Max(s)} \in D
      OBVIOUS
    <3> QED BY <3>2, <3>3
  <2>4. ASSUME NEW s \in E, s \notin D
        PROVE  s \ {Q!Max(s)} \in D /\ s # {}
    <3>1. k + 1 \in s /\ \A x \in s : x \in 1 .. k \/ x = k + 1
      BY <2>4
    <3>2. \A y \in s : k + 1 >= y
      BY <3>1
    <3>3. \A x \in s : (\A y \in s : x >= y) => x = k + 1
      BY <3>1
    <3>4. Q!Max(s) = k + 1
      BY <3>1, <3>2, <3>3 DEF Q!Max
    <3> QED BY <3>1, <3>4
  <2> HIDE DEF D, E
  <2>5. ASSUME NEW s \in E
        PROVE  g[s] = h[s]
    <3>1. CASE s \in D
      <4>1. s \ {Q!Max(s)} \in D /\ s \ {Q!Max(s)} \in E
        BY <2>3, <3>1
      <4>2. g[s \ {Q!Max(s)}] = f[s \ {Q!Max(s)}] /\ g[s] = f[s]
        BY <3>1, <4>1
      <4>3. h[s] = IF s = {} THEN Untried ELSE R(f[s \ {Q!Max(s)}], s)
        BY <4>2
      <4> QED BY <2>2, <3>1, <4>2, <4>3
    <3>2. CASE s \notin D
      <4>1. s \ {Q!Max(s)} \in D /\ s \ {Q!Max(s)} \in E /\ s # {}
        BY <2>3, <2>4, <3>2
      <4>2. g[s \ {Q!Max(s)}] = f[s \ {Q!Max(s)}]
        BY <4>1
      <4>3. h[s] = R(f[s \ {Q!Max(s)}], s)
        BY <4>1, <4>2
      <4>4. g[s] = R(f[s \ {Q!Max(s)}], s)
        BY <3>2
      <4> QED BY <4>3, <4>4
    <3> QED BY <3>1, <3>2
  <2>6. g = h
    <3>1. g = [s \in E |-> g[s]] /\ h = [s \in E |-> h[s]]
      OBVIOUS
    <3> HIDE DEF g, h
    <3> QED BY <2>5, <3>1
  <2>7. IsRun(g, r, w, k + 1)
    BY <2>6 DEF IsRun, E, R
  <2> HIDE DEF g
  <2>8. k + 1 \in Nat
    OBVIOUS
  <2> QED BY <2>7, <2>8
<1> HIDE DEF S
<1>3. Nat \subseteq S
  BY <1>1, <1>2, Induction
<1> QED BY <1>3 DEF S

\* after holds the states between the elements of the stack.
Runs(after, r, w) ==
  /\ after[0] = Untried
  /\ \A j \in 1 .. Len(w) : after[j] = Q!Step(after[j - 1], w[j], r)

\* What RunStack makes of the state at the end.
Ended(s) == IF ~s.hit /\ s.evals # <<>> /\ s.evals[1] THEN [s EXCEPT !.adds = 1] ELSE s

\* RunStack goes through such states.
LEMMA RunIs ==
  ASSUME NEW r, NEW T, stack \in Seq(T)
  PROVE  \E after : Runs(after, r, stack) /\ Q!RunStack(r) = Ended(after[Len(stack)])
<1> DEFINE w == stack
           n == Len(w)
           f == CHOOSE g : IsRun(g, r, w, n)
           after == [j \in 0 .. n |-> f[1 .. j]]
<1>1. n \in Nat /\ DOMAIN w = 1 .. n
  OBVIOUS
<1>2. Q!RunStack(r) = Ended(
        (CHOOSE g : g = [s \in SUBSET DOMAIN w |->
           IF s = {} THEN Untried ELSE Q!Step(g[s \ {Q!Max(s)}], w[Q!Max(s)], r)])[DOMAIN w])
  BY DEF Q!RunStack, Q!FoldLeft, Q!MapThenFoldSet, Ended, Untried
<1> HIDE DEF n, w
<1>3. f = CHOOSE g : g = [s \in SUBSET (1 .. n) |->
           IF s = {} THEN Untried ELSE Q!Step(g[s \ {Q!Max(s)}], w[Q!Max(s)], r)]
  BY DEF IsRun
<1>4. Q!RunStack(r) = Ended(f[DOMAIN w])
  BY <1>1, <1>2, <1>3
<1>5. IsRun(f, r, w, n)
  BY <1>1, RunExists
<1> HIDE DEF f
<1>6. \A s \in SUBSET (1 .. n) :
        f[s] = IF s = {} THEN Untried ELSE Q!Step(f[s \ {Q!Max(s)}], w[Q!Max(s)], r)
  BY <1>5 DEF IsRun
<1>7. after[0] = Untried
  <2>1. 1 .. 0 = {} /\ 0 \in 0 .. n
    BY <1>1
  <2> QED BY <2>1, <1>6
<1>8. ASSUME NEW j \in 1 .. n
      PROVE  after[j] = Q!Step(after[j - 1], w[j], r)
  <2>1. /\ j \in Nat /\ j # 0 /\ j \in 0 .. n /\ j - 1 \in 0 .. n
        /\ 1 .. j \in SUBSET (1 .. n) /\ 1 .. j # {}
    <3>1. j \in Nat /\ j # 0 /\ j \in 0 .. n /\ j - 1 \in 0 .. n
      BY <1>1
    <3>2. 1 .. j \subseteq 1 .. n
      BY <1>1
    <3>3. 1 \in 1 .. j
      BY <1>1
    <3> QED BY <3>1, <3>2, <3>3
  <2>2. Q!Max(1 .. j) = j /\ (1 .. j) \ {j} = 1 .. j - 1
    BY <2>1, MaxUpTo
  <2>3. f[1 .. j] = Q!Step(f[1 .. j - 1], w[j], r)
    BY <1>6, <2>1, <2>2
  <2> QED BY <2>1, <2>3
<1>9. after[n] = f[DOMAIN w]
  BY <1>1
<1> HIDE DEF after
<1>10. Runs(after, r, w)
  BY <1>7, <1>8 DEF Runs, n
<1> QED BY <1>4, <1>9, <1>10 DEF n, w

\* The state of the loop over the stack.
Found(u, h, a, t) == [evals |-> u, hit |-> h, adds |-> a, thrown |-> t]

\* Its fields.
LEMMA FoundFields ==
  ASSUME NEW u, NEW h, NEW a, NEW t
  PROVE  LET s == Found(u, h, a, t) IN
         s.evals = u /\ s.hit = h /\ s.adds = a /\ s.thrown = t
  BY DEF Found

\* What has been found in a row, as far as the stack was gone through.
StateOK(s) ==
  /\ s = Found(s.evals, s.hit, s.adds, s.thrown)
  /\ s.evals \in Seq(BOOLEAN) /\ s.hit \in BOOLEAN /\ s.thrown \in BOOLEAN
  /\ s.adds \in Nat

\* A state made of such parts is one.
LEMMA FoundShape ==
  ASSUME NEW u \in Seq(BOOLEAN), NEW h \in BOOLEAN, NEW a \in Nat, NEW t \in BOOLEAN
  PROVE  StateOK(Found(u, h, a, t))
<1> DEFINE s == Found(u, h, a, t)
<1>1. s.evals = u /\ s.hit = h /\ s.adds = a /\ s.thrown = t
  BY FoundFields
<1>2. s = Found(s.evals, s.hit, s.adds, s.thrown)
  BY <1>1
<1> HIDE DEF s
<1>3. StateOK(s)
  BY <1>1, <1>2 DEF StateOK
<1> QED BY <1>3 DEF s

\* A comparison that does not throw is true or false.
LEMMA EvaluateIs ==
  ASSUME NEW cell, NEW c, ~Q!Throws(cell, c)
  PROVE  Q!Evaluate(cell, c) \in BOOLEAN
<1>1. c.op \in {"implicit", "$eq", "$nq", "$lt", "$lte", "$gt", "$gte"}
  BY DEF Q!Throws
<1>2. ASSUME NEW x, NEW y PROVE Q!Less(x, y) \in BOOLEAN
  BY DEF Q!Less
<1> QED BY <1>1, <1>2 DEF Q!Evaluate

\* An element of the stack changes the state in one of these ways.
LEMMA StepIs ==
  ASSUME NEW s, NEW e, NEW r, StateOK(s)
  PROVE  LET t == Q!Step(s, e, r)
             more == IF Q!Holds(e.join, s.evals) THEN 1 ELSE 0
             end == Found(s.evals, s.hit, s.adds, TRUE)
             join == Found(s.evals, TRUE, s.adds + more, s.thrown)
             one == Found(Append(s.evals, Q!Evaluate(r[e.prop], e)), s.hit, s.adds,
                          s.thrown) IN
         /\ s.thrown => t = s
         /\ ~s.thrown /\ "join" \in DOMAIN e =>
              t = IF e.join = "undefined" THEN end ELSE join
         /\ ~s.thrown /\ "join" \notin DOMAIN e =>
              t = IF Q!Lacks(r, e.prop) THEN s
                  ELSE IF Q!Throws(r[e.prop], e) THEN end ELSE one
<1> DEFINE more == IF Q!Holds(e.join, s.evals) THEN 1 ELSE 0
           val == Q!Evaluate(r[e.prop], e)
           sum == s.adds + more
           app == Append(s.evals, val)
<1>1. Q!Step(s, e, r) =
        IF s.thrown THEN s
        ELSE IF "join" \in DOMAIN e
             THEN IF e.join = "undefined" THEN [s EXCEPT !.thrown = TRUE]
                  ELSE [s EXCEPT !.hit = TRUE, !.adds = sum]
        ELSE IF Q!Lacks(r, e.prop) THEN s
        ELSE IF Q!Throws(r[e.prop], e) THEN [s EXCEPT !.thrown = TRUE]
        ELSE [s EXCEPT !.evals = app]
  BY DEF Q!Step
<1> HIDE DEF sum, app
<1>2. s = Found(s.evals, s.hit, s.adds, s.thrown)
  BY DEF StateOK
<1>3. /\ [s EXCEPT !.thrown = TRUE] = Found(s.evals, s.hit, s.adds, TRUE)
      /\ [s EXCEPT !.hit = TRUE, !.adds = sum] = Found(s.evals, TRUE, sum, s.thrown)
      /\ [s EXCEPT !.evals = app] = Found(app, s.hit, s.adds, s.thrown)
  <2> DEFINE u == s.evals  h == s.hit  a == s.adds  t == s.thrown
             z == Found(u, h, a, t)
             yes == TRUE
  <2>1. /\ [z EXCEPT !.thrown = yes] = Found(u, h, a, yes)
        /\ [z EXCEPT !.hit = yes, !.adds = sum] = Found(u, yes, sum, t)
        /\ [z EXCEPT !.evals = app] = Found(app, h, a, t)
    <3> HIDE DEF u, h, a, t, yes
    <3>1. [z EXCEPT !.thrown = yes] = Found(u, h, a, yes)
      BY DEF Found
    <3>2. [z EXCEPT !.hit = yes] = Found(u, yes, a, t)
      BY DEF Found
    <3>3. [Found(u, yes, a, t) EXCEPT !.adds = sum] = Found(u, yes, sum, t)
      BY DEF Found
    <3>4. [z EXCEPT !.evals = app] = Found(app, h, a, t)
      BY DEF Found
    <3> HIDE DEF z
    <3> QED BY <3>1, <3>2, <3>3, <3>4
  <2>2. s = z
    BY <1>2
  <2> HIDE DEF z, u, h, a, t
  <2>3. /\ [s EXCEPT !.thrown = TRUE] = Found(u, h, a, TRUE)
        /\ [s EXCEPT !.hit = TRUE, !.adds = sum] = Found(u, TRUE, sum, t)
        /\ [s EXCEPT !.evals = app] = Found(app, h, a, t)
    BY <2>1, <2>2
  <2> QED BY <2>3 DEF u, h, a, t
<1> QED BY <1>1, <1>3 DEF sum, app

\* The state keeps its shape.
LEMMA StepShape ==
  ASSUME NEW s, NEW e, NEW r, StateOK(s)
  PROVE  StateOK(Q!Step(s, e, r))
<1> DEFINE t == Q!Step(s, e, r)
           more == IF Q!Holds(e.join, s.evals) THEN 1 ELSE 0
           sum == s.adds + more
           app == Append(s.evals, Q!Evaluate(r[e.prop], e))
<1>1. \/ t = s
      \/ t = Found(s.evals, s.hit, s.adds, TRUE)
      \/ t = Found(s.evals, TRUE, sum, s.thrown)
      \/ /\ ~Q!Throws(r[e.prop], e)
         /\ t = Found(app, s.hit, s.adds, s.thrown)
  <2>1. s.thrown \in BOOLEAN
    BY DEF StateOK
  <2>2. /\ s.thrown => t = s
        /\ ~s.thrown /\ "join" \in DOMAIN e =>
             t = IF e.join = "undefined" THEN Found(s.evals, s.hit, s.adds, TRUE)
                 ELSE Found(s.evals, TRUE, sum, s.thrown)
        /\ ~s.thrown /\ "join" \notin DOMAIN e =>
             t = IF Q!Lacks(r, e.prop) THEN s
                 ELSE IF Q!Throws(r[e.prop], e) THEN Found(s.evals, s.hit, s.adds, TRUE)
                 ELSE Found(app, s.hit, s.adds, s.thrown)
    BY StepIs
  <2> HIDE DEF t, sum, app
  <2> QED BY <2>1, <2>2
<1>2. sum \in Nat
  BY DEF StateOK
<1>3. ~Q!Throws(r[e.prop], e) => app \in Seq(BOOLEAN)
  BY EvaluateIs DEF StateOK
<1> HIDE DEF sum, app, t
<1>4. StateOK(t)
  <2>1. s.evals \in Seq(BOOLEAN) /\ s.hit \in BOOLEAN /\ s.adds \in Nat /\ s.thrown \in BOOLEAN
    BY DEF StateOK
  <2>2. ASSUME NEW u \in Seq(BOOLEAN), NEW h \in BOOLEAN, NEW a \in Nat, NEW v \in BOOLEAN,
               t = Found(u, h, a, v)
        PROVE  StateOK(t)
    BY <2>2, FoundShape
  <2> QED BY <1>1, <1>2, <1>3, <2>1, <2>2
<1> QED BY <1>4 DEF t

\* So does the end of the stack.
LEMMA EndedShape ==
  ASSUME NEW s, StateOK(s)
  PROVE  StateOK(Ended(s)) /\ Ended(s).thrown = s.thrown
<1> DEFINE u == s.evals  h == s.hit  a == s.adds  t == s.thrown
           z == Found(u, h, a, t)
<1>1. /\ s = z
      /\ u \in Seq(BOOLEAN) /\ h \in BOOLEAN /\ t \in BOOLEAN /\ t = s.thrown
  BY DEF StateOK
<1> HIDE DEF u, h, a, t
<1>2. [z EXCEPT !.adds = 1] = Found(u, h, 1, t)
  BY DEF Found
<1> HIDE DEF z
<1>3. Ended(s) = s \/ Ended(s) = Found(u, h, 1, t)
  BY <1>1, <1>2 DEF Ended
<1>4. StateOK(Found(u, h, 1, t)) /\ Found(u, h, 1, t).thrown = t
  BY <1>1, FoundShape, FoundFields
<1> QED BY <1>1, <1>3, <1>4

\* What holds of the states of a run.
LEMMA RunShape ==
  ASSUME NEW T, NEW w \in Seq(T), NEW r, NEW after, Runs(after, r, w)
  PROVE  \A j \in 0 .. Len(w) : StateOK(after[j])
<1> DEFINE S == {k \in Nat : k \in 0 .. Len(w) => StateOK(after[k])}
<1>1. 0 \in S
  <2>1. after[0] = Found(<<>>, FALSE, 0, FALSE)
    BY DEF Runs, Untried, Found
  <2>2. <<>> \in Seq(BOOLEAN) /\ FALSE \in BOOLEAN /\ 0 \in Nat
    OBVIOUS
  <2>3. StateOK(after[0])
    BY <2>1, <2>2, FoundShape
  <2> QED BY <2>3
<1>2. ASSUME NEW n \in Nat, n \in S PROVE n + 1 \in S
  <2>1. SUFFICES ASSUME n + 1 \in 0 .. Len(w) PROVE StateOK(after[n + 1])
    OBVIOUS
  <2>2. StateOK(after[n])
    BY <1>2, <2>1
  <2>3. after[n + 1] = Q!Step(after[n], w[n + 1], r)
    <3>1. n + 1 \in 1 .. Len(w) /\ (n + 1) - 1 = n
      BY <2>1
    <3> QED BY <3>1 DEF Runs
  <2> QED BY <2>2, <2>3, StepShape
<1> HIDE DEF S
<1>3. Nat \subseteq S
  BY <1>1, <1>2, Induction
<1>4. ASSUME NEW j \in 0 .. Len(w) PROVE StateOK(after[j])
  BY <1>3 DEF S
<1> QED BY <1>4

\* RunStack finds a number of times to add the row, or an exception.
LEMMA RunStackShape ==
  ASSUME NEW r, NEW T, stack \in Seq(T)
  PROVE  StateOK(Q!RunStack(r))
<1>1. PICK after : Runs(after, r, stack) /\ Q!RunStack(r) = Ended(after[Len(stack)])
  BY RunIs
<1>2. Len(stack) \in 0 .. Len(stack)
  OBVIOUS
<1> QED BY <1>1, <1>2, RunShape, EndedShape

\* A condition is no joiner, in a query or in its stack.
IsPlain(c) == "join" \notin DOMAIN c /\ "list" \notin DOMAIN c

\* A row has the property of a condition, but a value it cannot be compared with.
Fails(r, c) == ~Q!Lacks(r, c.prop) /\ Q!Throws(r[c.prop], c)

\* What the first k elements of the stack w have found in row r, when they are
\* conditions: the results of those whose property the row has.
Gathered(s, r, w, k) ==
  /\ StateOK(s) /\ ~s.hit /\ s.adds = 0
  /\ s.thrown => \E j \in 1 .. k : Fails(r, w[j])
  /\ ~s.thrown =>
       /\ \A i \in 1 .. Len(s.evals) : \E j \in 1 .. k :
            ~Q!Lacks(r, w[j].prop) /\ s.evals[i] = Q!Evaluate(r[w[j].prop], w[j])
       /\ \A j \in 1 .. k : ~Q!Lacks(r, w[j].prop) =>
            \E i \in 1 .. Len(s.evals) : s.evals[i] = Q!Evaluate(r[w[j].prop], w[j])

\* One condition more.
LEMMA GatherStep ==
  ASSUME NEW s, NEW r, NEW w, NEW k \in Nat, Gathered(s, r, w, k), IsPlain(w[k + 1])
  PROVE  Gathered(Q!Step(s, w[k + 1], r), r, w, k + 1)
<1> DEFINE c == w[k + 1]
           t == Q!Step(s, c, r)
           val == Q!Evaluate(r[c.prop], c)
           app == Append(s.evals, val)
           n == k + 1
<1>1. n \in 1 .. n /\ n \in Nat /\ \A j \in 1 .. k : j \in 1 .. n
  OBVIOUS
<1>2. \A j \in 1 .. n : j \in 1 .. k \/ j = n
  OBVIOUS
<1>3. StateOK(s) /\ StateOK(t) /\ s.thrown \in BOOLEAN /\ s.hit = FALSE /\ s.adds = 0
  BY StepShape DEF Gathered, StateOK
<1>4. "join" \notin DOMAIN c
  BY DEF IsPlain
<1>5. /\ s.thrown => t = s
      /\ ~s.thrown =>
           t = IF Q!Lacks(r, c.prop) THEN s
               ELSE IF Q!Throws(r[c.prop], c) THEN Found(s.evals, s.hit, s.adds, TRUE)
               ELSE Found(app, s.hit, s.adds, s.thrown)
  BY <1>3, <1>4, StepIs
<1> HIDE DEF t, n
<1>6. CASE s.thrown
  <2>1. \E j \in 1 .. n : Fails(r, w[j])
    BY <1>1, <1>6 DEF Gathered
  <2>2. t = s
    BY <1>5, <1>6
  <2> QED BY <1>3, <1>6, <2>1, <2>2 DEF Gathered, n, t
<1>7. CASE ~s.thrown /\ Q!Lacks(r, c.prop)
  <2>1. t = s
    BY <1>5, <1>7
  <2>2. \A j \in 1 .. n : ~Q!Lacks(r, w[j].prop) => j \in 1 .. k
    BY <1>2, <1>7 DEF n
  <2>3. /\ \A i \in 1 .. Len(s.evals) : \E j \in 1 .. n :
             ~Q!Lacks(r, w[j].prop) /\ s.evals[i] = Q!Evaluate(r[w[j].prop], w[j])
        /\ \A j \in 1 .. n : ~Q!Lacks(r, w[j].prop) =>
             \E i \in 1 .. Len(s.evals) : s.evals[i] = Q!Evaluate(r[w[j].prop], w[j])
    BY <1>1, <1>7, <2>2 DEF Gathered
  <2>4. Gathered(t, r, w, n)
    BY <1>3, <1>7, <2>1, <2>3 DEF Gathered
  <2> QED BY <2>4 DEF n, t
<1>8. CASE ~s.thrown /\ Fails(r, c)
  <2>1. t = Found(s.evals, s.hit, s.adds, TRUE)
    BY <1>5, <1>8 DEF Fails
  <2>2. t.thrown = TRUE /\ t.hit = FALSE /\ t.adds = 0
    BY <1>3, <2>1 DEF Found
  <2>3. \E j \in 1 .. n : Fails(r, w[j])
    BY <1>1, <1>8 DEF n
  <2>4. Gathered(t, r, w, n)
    BY <1>3, <2>2, <2>3 DEF Gathered
  <2> QED BY <2>4 DEF n, t
<1>9. CASE ~s.thrown /\ ~Q!Lacks(r, c.prop) /\ ~Q!Throws(r[c.prop], c)
  <2>1. t = Found(app, s.hit, s.adds, s.thrown)
    BY <1>5, <1>9
  <2>2. t.thrown = s.thrown /\ t.hit = FALSE /\ t.adds = 0 /\ t.evals = app
    BY <1>3, <2>1 DEF Found
  <2>3. /\ Len(app) = Len(s.evals) + 1 /\ Len(s.evals) \in Nat
        /\ app[Len(s.evals) + 1] = val
        /\ \A i \in 1 .. Len(s.evals) : app[i] = s.evals[i]
    <3>1. s.evals \in Seq(BOOLEAN)
      BY <1>3 DEF StateOK
    <3> HIDE DEF val
    <3> QED BY <3>1
  <2> HIDE DEF app, val
  <2>4. ASSUME NEW i \in 1 .. Len(app)
        PROVE  \E j \in 1 .. n :
                 ~Q!Lacks(r, w[j].prop) /\ app[i] = Q!Evaluate(r[w[j].prop], w[j])
    <3>1. CASE i \in 1 .. Len(s.evals)
      <4>1. PICK j \in 1 .. k :
              ~Q!Lacks(r, w[j].prop) /\ s.evals[i] = Q!Evaluate(r[w[j].prop], w[j])
        BY <1>9, <3>1 DEF Gathered
      <4> QED BY <1>1, <2>3, <3>1, <4>1
    <3>2. CASE i \notin 1 .. Len(s.evals)
      <4>1. i = Len(s.evals) + 1
        BY <2>3, <3>2
      <4>2. app[i] = Q!Evaluate(r[w[n].prop], w[n]) /\ ~Q!Lacks(r, w[n].prop)
        BY <1>9, <2>3, <4>1 DEF val, n
      <4> QED BY <1>1, <4>2
    <3> QED BY <3>1, <3>2
  <2>5. ASSUME NEW j \in 1 .. n, ~Q!Lacks(r, w[j].prop)
        PROVE  \E i \in 1 .. Len(app) : app[i] = Q!Evaluate(r[w[j].prop], w[j])
    <3>0. \A i \in 1 .. Len(s.evals) : i \in 1 .. Len(app)
      BY <2>3
    <3>1. CASE j \in 1 .. k
      <4>1. PICK i \in 1 .. Len(s.evals) : s.evals[i] = Q!Evaluate(r[w[j].prop], w[j])
        BY <1>9, <2>5, <3>1 DEF Gathered
      <4> QED BY <2>3, <3>0, <4>1
    <3>2. CASE j = n
      <4>1. Len(s.evals) + 1 \in 1 .. Len(app)
        BY <2>3
      <4>2. app[Len(s.evals) + 1] = Q!Evaluate(r[w[j].prop], w[j])
        BY <2>3, <3>2 DEF val, n
      <4> QED BY <4>1, <4>2
    <3> QED BY <1>2, <3>1, <3>2
  <2>6. Gathered(t, r, w, n)
    BY <1>3, <1>9, <2>2, <2>4, <2>5 DEF Gathered
  <2> QED BY <2>6 DEF n, t
<1> QED BY <1>6, <1>7, <1>8, <1>9 DEF Fails

\* The first n elements of a stack, when they are conditions.
LEMMA GatherAll ==
  ASSUME NEW T, NEW w \in Seq(T), NEW r, NEW after, Runs(after, r, w),
         NEW n \in 0 .. Len(w), \A j \in 1 .. n : IsPlain(w[j])
  PROVE  Gathered(after[n], r, w, n)
<1> DEFINE S == {k \in Nat : k \in 0 .. n => Gathered(after[k], r, w, k)}
<1>1. 0 \in S
  <2>1. after[0] = Found(<<>>, FALSE, 0, FALSE)
    BY DEF Runs, Untried, Found
  <2>2. StateOK(after[0])
    <3>1. <<>> \in Seq(BOOLEAN) /\ FALSE \in BOOLEAN /\ 0 \in Nat
      OBVIOUS
    <3> QED BY <2>1, <3>1, FoundShape
  <2>3. /\ after[0].evals = <<>> /\ after[0].hit = FALSE
        /\ after[0].adds = 0 /\ after[0].thrown = FALSE
    BY <2>1 DEF Found
  <2>4. 1 .. 0 = {} /\ Len(<<>>) = 0
    OBVIOUS
  <2>5. Gathered(after[0], r, w, 0)
    BY <2>2, <2>3, <2>4 DEF Gathered
  <2> QED BY <2>5
<1>2. ASSUME NEW k \in Nat, k \in S PROVE k + 1 \in S
  <2>1. SUFFICES ASSUME k + 1 \in 0 .. n PROVE Gathered(after[k + 1], r, w, k + 1)
    OBVIOUS
  <2>2. Gathered(after[k], r, w, k)
    BY <1>2, <2>1
  <2>3. k + 1 \in 1 .. n /\ k + 1 \in 1 .. Len(w) /\ (k + 1) - 1 = k
    BY <2>1
  <2>4. after[k + 1] = Q!Step(after[k], w[k + 1], r) /\ IsPlain(w[k + 1])
    BY <2>3 DEF Runs
  <2> QED BY <2>2, <2>4, GatherStep
<1> HIDE DEF S
<1>3. Nat \subseteq S
  BY <1>1, <1>2, Induction
<1>4. n \in S
  BY <1>3
<1> QED BY <1>4 DEF S

\* What is found in row r is what the query asks for: an exception is that of a
\* condition; else the row is added once or not, as it answers the query (but a row
\* that lacks a property of an $and).
RowRight(r) ==
  LET s == Q!RunStack(r) IN
  /\ StateOK(s)
  /\ s.thrown => \E c \in Q!Asked : Fails(r, c)
  /\ ~s.thrown => s.adds \in {0, 1}
  /\ ~s.thrown /\ Q!Asked # {}
       /\ (query[1].prop = "$and" => \A c \in Q!Asked : ~Q!Lacks(r, c.prop)) =>
       (s.adds = 1 <=> Q!Answers(r))

\* A query of one condition.
LEMMA PlainRow ==
  ASSUME NEW r, IsPlain(query[1]), stack = <<query[1]>>
  PROVE  RowRight(r)
<1> DEFINE c == query[1]
           s == Q!RunStack(r)
<1>1. /\ stack \in Seq({c}) /\ Len(stack) = 1 /\ stack[1] = c
      /\ \A j \in 1 .. 1 : j = 1
  OBVIOUS
<1>2. PICK after : Runs(after, r, stack) /\ s = Ended(after[1])
  BY <1>1, RunIs
<1> DEFINE e == after[1]
<1>3. Gathered(e, r, stack, 1)
  <2>1. 1 \in 0 .. Len(stack) /\ \A j \in 1 .. 1 : IsPlain(stack[j])
    BY <1>1
  <2> QED BY <1>1, <1>2, <2>1, GatherAll
<1>4. Q!Asked = {c}
  BY DEF Q!Asked, Q!IsJoiner, IsPlain
<1>5. Q!Answers(r) <=> Q!Matches(r, c)
  BY <1>4 DEF Q!Answers
<1> HIDE DEF e, s
<1>6. StateOK(e) /\ e.hit = FALSE /\ e.adds = 0 /\ e.thrown \in BOOLEAN
  BY <1>3 DEF Gathered, StateOK
<1>7. StateOK(s) /\ s.thrown = e.thrown
  BY <1>2, <1>6, EndedShape DEF e
<1>8. s.thrown => Fails(r, c)
  BY <1>1, <1>3, <1>6, <1>7 DEF Gathered
<1>9. s.adds = IF e.evals # <<>> /\ e.evals[1] THEN 1 ELSE 0
  <2>1. e = Found(e.evals, e.hit, e.adds, e.thrown)
    BY <1>6 DEF StateOK
  <2>2. [e EXCEPT !.adds = 1].adds = 1
    <3> DEFINE u == e.evals  h == e.hit  a == e.adds  t == e.thrown
               z == Found(u, h, a, t)
    <3>1. e = z
      BY <2>1
    <3> HIDE DEF u, h, a, t
    <3>2. [z EXCEPT !.adds = 1].adds = 1
      BY DEF Found
    <3> HIDE DEF z
    <3> QED BY <3>1, <3>2
  <2> QED BY <1>2, <1>6, <2>2 DEF Ended, e
<1>10. ~s.thrown => (s.adds = 1 <=> Q!Matches(r, c))
  <2>1. SUFFICES ASSUME ~s.thrown PROVE s.adds = 1 <=> Q!Matches(r, c)
    OBVIOUS
  <2>2. /\ \A i \in 1 .. Len(e.evals) :
             ~Q!Lacks(r, c.prop) /\ e.evals[i] = Q!Evaluate(r[c.prop], c)
        /\ ~Q!Lacks(r, c.prop) =>
             \E i \in 1 .. Len(e.evals) : e.evals[i] = Q!Evaluate(r[c.prop], c)
    <3>1. ~e.thrown /\ 1 \in 1 .. 1
      BY <1>6, <1>7, <2>1
    <3> QED BY <1>1, <1>3, <3>1 DEF Gathered
  <2>3. /\ e.evals \in Seq(BOOLEAN) /\ Len(e.evals) \in Nat
        /\ e.evals # <<>> <=> Len(e.evals) # 0
    BY <1>6 DEF StateOK
  <2>4. CASE e.evals = <<>>
    <3>1. s.adds = 0 /\ Q!Lacks(r, c.prop)
      BY <1>9, <2>2, <2>3, <2>4
    <3> QED BY <3>1 DEF Q!Matches
  <2>5. CASE e.evals # <<>>
    <3>1. 1 \in 1 .. Len(e.evals)
      BY <2>3, <2>5
    <3>2. e.evals[1] = Q!Evaluate(r[c.prop], c) /\ ~Q!Lacks(r, c.prop) /\ e.evals[1] \in BOOLEAN
      BY <2>2, <2>3, <3>1
    <3>3. CASE e.evals[1] = TRUE
      BY <1>9, <2>5, <3>2, <3>3 DEF Q!Matches
    <3>4. CASE e.evals[1] = FALSE
      BY <1>9, <2>5, <3>2, <3>4 DEF Q!Matches
    <3> QED BY <3>2, <3>3, <3>4
  <2> QED BY <2>4, <2>5
<1>11. RowRight(r)
  BY <1>4, <1>5, <1>7, <1>8, <1>9, <1>10 DEF RowRight, s
<1> QED BY <1>11

\* A query of an $and or an $or.
JoinedStack(n) ==
  /\ n = Len(stack) - 1 /\ n \in Nat
  /\ query[1].prop \in {"$and", "$or"} /\ Q!IsJoiner(query[1])
  /\ stack[n + 1] = Q!Joiner(query[1].prop)
  /\ Q!Range(query[1].list) = {stack[j] : j \in 1 .. n}
  /\ \A j \in 1 .. n : IsPlain(stack[j])

\* Its rows.
LEMMA JoinedRow ==
  ASSUME NEW r, NEW T, stack \in Seq(T), NEW n, JoinedStack(n)
  PROVE  RowRight(r)
<1> DEFINE s == Q!RunStack(r)
           w == stack
           p == query[1].prop
           L == stack[n + 1]
<1>1. /\ n \in Nat /\ n + 1 = Len(w) /\ n \in 0 .. Len(w) /\ (n + 1) - 1 = n
      /\ n + 1 \in 1 .. Len(w)
  BY DEF JoinedStack
<1>2. PICK after : Runs(after, r, w) /\ s = Ended(after[n + 1])
  BY <1>1, RunIs
<1> DEFINE e == after[n]
           f == after[n + 1]
<1>3. Gathered(e, r, w, n)
  BY <1>1, <1>2, GatherAll DEF JoinedStack
<1>4. f = Q!Step(e, L, r)
  BY <1>1, <1>2 DEF Runs
<1>5. Q!Asked = {w[j] : j \in 1 .. n}
  BY DEF Q!Asked, JoinedStack
<1>6. /\ "join" \in DOMAIN L
      /\ p = "$and" => L.join = "&&"
      /\ p = "$or" => L.join = "||"
      /\ p = "$and" \/ p = "$or"
  BY DEF JoinedStack, Q!Joiner
<1> DEFINE more == IF Q!Holds(L.join, e.evals) THEN 1 ELSE 0
<1>7. StateOK(e) /\ e.hit = FALSE /\ e.adds = 0 /\ e.thrown \in BOOLEAN
  BY <1>3 DEF Gathered, StateOK
<1> HIDE DEF s, L, p, e, f
<1>8. /\ e.thrown => f = e
      /\ ~e.thrown => f = Found(e.evals, TRUE, e.adds + more, e.thrown)
  BY <1>4, <1>6, <1>7, StepIs
<1>9. StateOK(f) /\ StateOK(s) /\ s.thrown = f.thrown
  BY <1>2, <1>4, <1>7, StepShape, EndedShape DEF f
<1>10. CASE e.thrown
  <2>1. s.thrown
    BY <1>7, <1>8, <1>9, <1>10
  <2>2. \E c \in Q!Asked : Fails(r, c)
    BY <1>3, <1>5, <1>10 DEF Gathered
  <2> QED BY <1>9, <2>1, <2>2 DEF RowRight, s
<1>11. CASE ~e.thrown
  <2> HIDE DEF more
  <2>1. /\ f = Found(e.evals, TRUE, more, e.thrown)
    <3>1. more \in Nat
      BY DEF more
    <3>2. e.adds + more = more
      BY <1>7, <3>1
    <3> QED BY <1>8, <1>11, <3>2
  <2>2. f.hit = TRUE /\ f.adds = more /\ f.thrown = e.thrown
    BY <2>1 DEF Found
  <2>3. s = f
    BY <1>2, <2>2 DEF Ended, f
  <2>4. /\ \A i \in 1 .. Len(e.evals) : \E j \in 1 .. n :
             ~Q!Lacks(r, w[j].prop) /\ e.evals[i] = Q!Evaluate(r[w[j].prop], w[j])
        /\ \A j \in 1 .. n : ~Q!Lacks(r, w[j].prop) =>
             \E i \in 1 .. Len(e.evals) : e.evals[i] = Q!Evaluate(r[w[j].prop], w[j])
    BY <1>3, <1>11 DEF Gathered
  <2>5. /\ e.evals \in Seq(BOOLEAN) /\ Len(e.evals) \in Nat
        /\ DOMAIN e.evals = 1 .. Len(e.evals)
        /\ e.evals # <<>> <=> Len(e.evals) # 0
    BY <1>7 DEF StateOK
  <2>6. ASSUME NEW i \in 1 .. Len(e.evals) PROVE e.evals[i] \in BOOLEAN
    BY <2>5
  <2>7. ASSUME Q!Asked # {}, p = "$and" => \A c \in Q!Asked : ~Q!Lacks(r, c.prop)
        PROVE  Q!Holds(L.join, e.evals) <=> Q!Answers(r)
    <3>1. CASE p = "$and"
      <4>1. Q!Answers(r) <=> \A j \in 1 .. n : Q!Matches(r, w[j])
        BY <1>5, <3>1 DEF Q!Answers, p
      <4>2. \A j \in 1 .. n : ~Q!Lacks(r, w[j].prop)
        BY <1>5, <2>7, <3>1
      <4>3. PICK k \in 1 .. n : TRUE
        BY <1>5, <2>7
      <4>4. e.evals # <<>>
        BY <2>4, <2>5, <4>2, <4>3
      <4>5. Q!Holds(L.join, e.evals) <=> \A i \in 1 .. Len(e.evals) : e.evals[i] = TRUE
        BY <1>6, <2>5, <2>6, <3>1, <4>4 DEF Q!Holds
      <4>6. \A j \in 1 .. n : Q!Matches(r, w[j]) <=> Q!Evaluate(r[w[j].prop], w[j]) = TRUE
        <5>1. ASSUME NEW j \in 1 .. n PROVE Q!Evaluate(r[w[j].prop], w[j]) \in BOOLEAN
          BY <2>4, <2>6, <4>2
        <5> QED BY <4>2, <5>1 DEF Q!Matches
      <4>7. ASSUME \A i \in 1 .. Len(e.evals) : e.evals[i] = TRUE
            PROVE  \A j \in 1 .. n : Q!Matches(r, w[j])
        <5>1. SUFFICES ASSUME NEW j \in 1 .. n PROVE Q!Matches(r, w[j])
          OBVIOUS
        <5>2. PICK i \in 1 .. Len(e.evals) : e.evals[i] = Q!Evaluate(r[w[j].prop], w[j])
          BY <2>4, <4>2
        <5> QED BY <4>6, <4>7, <5>2
      <4>8. ASSUME \A j \in 1 .. n : Q!Matches(r, w[j])
            PROVE  \A i \in 1 .. Len(e.evals) : e.evals[i] = TRUE
        <5>1. SUFFICES ASSUME NEW i \in 1 .. Len(e.evals) PROVE e.evals[i] = TRUE
          OBVIOUS
        <5>2. PICK j \in 1 .. n : e.evals[i] = Q!Evaluate(r[w[j].prop], w[j])
          BY <2>4
        <5> QED BY <4>6, <4>8, <5>2
      <4> QED BY <4>1, <4>5, <4>7, <4>8
    <3>2. CASE p = "$or"
      <4>1. Q!Answers(r) <=> \E j \in 1 .. n : Q!Matches(r, w[j])
        BY <1>5, <3>2 DEF Q!Answers, p
      <4>2. Q!Holds(L.join, e.evals) <=> \E i \in 1 .. Len(e.evals) : e.evals[i] = TRUE
        BY <1>6, <2>5, <2>6, <3>2 DEF Q!Holds
      <4>3. ASSUME NEW j \in 1 .. n
            PROVE  Q!Matches(r, w[j]) <=>
                     ~Q!Lacks(r, w[j].prop) /\ Q!Evaluate(r[w[j].prop], w[j]) = TRUE
        <5>1. ~Q!Lacks(r, w[j].prop) => Q!Evaluate(r[w[j].prop], w[j]) \in BOOLEAN
          BY <2>4, <2>6
        <5> QED BY <5>1 DEF Q!Matches
      <4> QED BY <2>4, <4>1, <4>2, <4>3
    <3> QED BY <1>6, <3>1, <3>2
  <2>8. more \in {0, 1} /\ (more = 1 <=> Q!Holds(L.join, e.evals))
    BY DEF more
  <2>9. s.adds = more /\ ~s.thrown
    BY <1>7, <1>11, <2>2, <2>3
  <2> QED BY <1>9, <2>7, <2>8, <2>9 DEF RowRight, s, p
<1> QED BY <1>10, <1>11

\* Flattening one sequence, or two.
IsFlatten(f, s, n) ==
  f = [i \in 1 .. n |-> IF i = 1 THEN s[i] ELSE f[i - 1] \o s[i]]

\* One sequence.
LEMMA FlattenOne ==
  ASSUME NEW s, Len(s) = 1
  PROVE  Q!FlattenSeq(s) = s[1]
<1> DEFINE f == CHOOSE g : IsFlatten(g, s, 1)
           h == [i \in 1 .. 1 |-> s[1]]
<1>1. Q!FlattenSeq(s) = f[1]
  BY DEF Q!FlattenSeq, IsFlatten
<1>2. IsFlatten(h, s, 1)
  BY DEF IsFlatten
<1> HIDE DEF h
<1>3. IsFlatten(f, s, 1)
  BY <1>2
<1> HIDE DEF f
<1>4. f[1] = s[1]
  <2>1. 1 \in 1 .. 1
    OBVIOUS
  <2> QED BY <1>3, <2>1 DEF IsFlatten
<1> QED BY <1>1, <1>4

\* Two sequences.
LEMMA FlattenTwo ==
  ASSUME NEW s, Len(s) = 2
  PROVE  Q!FlattenSeq(s) = s[1] \o s[2]
<1> DEFINE f == CHOOSE g : IsFlatten(g, s, 2)
           h == [i \in 1 .. 2 |-> IF i = 1 THEN s[1] ELSE s[1] \o s[2]]
           d == [i \in 1 .. 2 |-> IF i = 1 THEN s[i] ELSE h[i - 1] \o s[i]]
<1>1. Q!FlattenSeq(s) = f[2]
  BY DEF Q!FlattenSeq, IsFlatten
<1>2. IsFlatten(h, s, 2)
  <2>1. \A i \in 1 .. 2 : i = 1 \/ i = 2
    OBVIOUS
  <2>2. h[1] = s[1] /\ h[2] = s[1] \o s[2]
    OBVIOUS
  <2> HIDE DEF h
  <2>3. d[1] = s[1] /\ d[2] = s[1] \o s[2]
    <3>1. 1 \in 1 .. 2 /\ 2 \in 1 .. 2 /\ 2 - 1 = 1
      OBVIOUS
    <3>2. d[2] = h[2 - 1] \o s[2]
      BY <3>1
    <3>3. d[1] = s[1]
      BY <3>1
    <3> QED BY <2>2, <3>1, <3>2, <3>3
  <2> HIDE DEF d
  <2>4. \A i \in 1 .. 2 : h[i] = d[i]
    BY <2>1, <2>2, <2>3
  <2>5. h = d
    <3> DEFINE D == 1 .. 2
    <3>1. h = [i \in D |-> h[i]] /\ d = [i \in D |-> d[i]]
      BY DEF h, d
    <3>2. \A i \in D : h[i] = d[i]
      BY <2>4
    <3> HIDE DEF D
    <3> QED BY <3>1, <3>2
  <2> QED BY <2>5 DEF d, IsFlatten
<1> HIDE DEF h
<1>3. IsFlatten(f, s, 2)
  BY <1>2
<1> HIDE DEF f
<1>4. f[1] = s[1] /\ f[2] = f[1] \o s[2]
  <2>1. 1 \in 1 .. 2 /\ 2 \in 1 .. 2
    OBVIOUS
  <2>2. f[1] = s[1]
    BY <1>3, <2>1 DEF IsFlatten
  <2>3. f[2] = f[2 - 1] \o s[2]
    BY <1>3, <2>1 DEF IsFlatten
  <2>4. 2 - 1 = 1
    OBVIOUS
  <2> QED BY <2>2, <2>3, <2>4
<1> QED BY <1>1, <1>4

\* The conditions of queries are no joiners.
LEMMA ConditionsPlain == \A c \in Compared \cup Paired : IsPlain(c)
<1>1. \A o, v : IsPlain(OnA(o, v))
  BY DEF OnA, IsPlain
<1>2. IsPlain(OnB)
  BY DEF OnB, IsPlain
<1> QED BY <1>1, <1>2 DEF Compared, Paired

\* A joiner as a property of a query, and what it pushes.
IsJoined(p) ==
  /\ Q!IsJoiner(p) /\ p.prop \in {"$and", "$or", "$not"}
  /\ p.list \in Seq(Compared \cup Paired)

\* What the queries are made of.
LEMMA JoinedIs ==
  ASSUME NEW p, NEW j, NEW l, NEW b, p \in Q!Joined(j, l, b),
         j \subseteq {"$and", "$or", "$not"}, l \subseteq Seq(Compared \cup Paired)
  PROVE  IsJoined(p)
<1>1. p \in [prop : j, list : l, array : {b}]
  BY DEF Q!Joined
<1> QED BY <1>1 DEF IsJoined, Q!IsJoiner

\* The queries.
IsQuery(q) ==
  \/ /\ Len(q) = 1 /\ DOMAIN q = {1}
     /\ q[1] \in Compared \/ IsJoined(q[1])
  \/ /\ Len(q) = 2 /\ DOMAIN q = {1, 2}
     /\ q[1] \in Paired \/ IsJoined(q[1])
     /\ q[2] \in Paired \/ IsJoined(q[2])

\* The queries that are made are such.
LEMMA ObjectIs ==
  ASSUME NEW q \in Q!Objects, MaxJoined \in Nat
  PROVE  IsQuery(q)
<1> DEFINE Ones == {<<c>> : c \in Paired}
           All3 == {"$and", "$or", "$not"}
           Long == Q!Joined(All3, Q!Lists(Compared, MaxJoined), TRUE)
           Bare == Q!Joined({"$or"}, Ones, FALSE)
           Brief == Q!Joined({"$and", "$or"}, Ones, TRUE)
           Short == Paired \cup Brief
<1>1. Ones \subseteq Seq(Compared \cup Paired)
  <2>1. SUFFICES ASSUME NEW c \in Paired PROVE <<c>> \in Seq(Compared \cup Paired)
    OBVIOUS
  <2>2. c \in Compared \cup Paired
    OBVIOUS
  <2> HIDE DEF Ones
  <2> QED BY <2>2
<1>2. Q!Lists(Compared, MaxJoined) \subseteq Seq(Compared \cup Paired)
  <2>1. SUFFICES ASSUME NEW l \in Q!Lists(Compared, MaxJoined) PROVE l \in Seq(Compared)
    OBVIOUS
  <2>2. PICK k \in 0 .. MaxJoined : l \in [1 .. k -> Compared]
    BY <2>1 DEF Q!Lists
  <2>3. k \in Nat
    BY <2>2
  <2> QED BY <2>2, <2>3
<1> HIDE DEF Ones
<1>3. \A p \in Long : IsJoined(p)
  BY <1>2, JoinedIs
<1>4. \A p \in Bare : IsJoined(p)
  <2>1. {"$or"} \subseteq All3
    OBVIOUS
  <2> QED BY <1>1, <2>1, JoinedIs
<1>5. \A p \in Brief : IsJoined(p)
  <2>1. {"$and", "$or"} \subseteq All3
    OBVIOUS
  <2> QED BY <1>1, <2>1, JoinedIs
<1>6. \/ q \in {<<p>> : p \in Compared \cup Long \cup Bare}
      \/ q \in Short \X Short
  BY DEF Q!Objects, Ones
<1> HIDE DEF Long, Bare, Brief
<1>7. CASE q \in {<<p>> : p \in Compared \cup Long \cup Bare}
  <2>1. PICK p \in Compared \cup Long \cup Bare : q = <<p>>
    BY <1>7
  <2>2. Len(q) = 1 /\ DOMAIN q = {1} /\ q[1] = p
    BY <2>1
  <2> QED BY <1>3, <1>4, <2>2 DEF IsQuery
<1>8. CASE q \in Short \X Short
  <2>1. \A p \in Short : p \in Paired \/ IsJoined(p)
    BY <1>5
  <2> HIDE DEF Short
  <2>2. q[1] \in Short /\ q[2] \in Short /\ Len(q) = 2 /\ DOMAIN q = {1, 2}
    BY <1>8
  <2> QED BY <2>1, <2>2 DEF IsQuery
<1> QED BY <1>6, <1>7, <1>8

\* What a property of a query pushes, and the stack of a query, are sequences.
LEMMA PushedIs ==
  ASSUME NEW q, NEW p, p \in Compared \cup Paired \/ IsJoined(p)
  PROVE  \E T : Q!Pushed(q, p) \in Seq(T)
<1>1. CASE p \in Compared \cup Paired
  <2>1. ~Q!IsJoiner(p)
    BY <1>1, ConditionsPlain DEF IsPlain, Q!IsJoiner
  <2>2. Q!Pushed(q, p) \in Seq({q[1]})
    BY <2>1 DEF Q!Pushed
  <2> QED BY <2>2
<1>2. CASE IsJoined(p)
  <2> DEFINE T == Compared \cup Paired \cup {Q!Joiner(p.prop)}
  <2>1. p.list \in Seq(T) /\ Q!Joiner(p.prop) \in T
    BY <1>2 DEF IsJoined
  <2>2. Q!Pushed(q, p) = Append(p.list, Q!Joiner(p.prop))
    BY <1>2 DEF IsJoined, Q!Pushed
  <2> HIDE DEF T
  <2>3. Q!Pushed(q, p) \in Seq(T)
    BY <2>1, <2>2
  <2> QED BY <2>3
<1> QED BY <1>1, <1>2

\* The stack of a query.
Built(q) == Q!FlattenSeq([k \in DOMAIN q |-> Q!Pushed(q, q[k])])

\* It is a sequence, of what is pushed for the one property of a query.
LEMMA BuiltIs ==
  ASSUME NEW q, IsQuery(q)
  PROVE  /\ \E T : Built(q) \in Seq(T)
         /\ Len(q) = 1 => Built(q) = Q!Pushed(q, q[1])
<1> DEFINE s == [k \in DOMAIN q |-> Q!Pushed(q, q[k])]
<1>1. CASE Len(q) = 1
  <2>1. DOMAIN q = {1} /\ (q[1] \in Compared \/ IsJoined(q[1]))
    BY <1>1 DEF IsQuery
  <2>2. s = [k \in {1} |-> Q!Pushed(q, q[k])]
    BY <2>1
  <2>3. {1} = 1 .. 1
    OBVIOUS
  <2>4. Len(s) = 1 /\ s[1] = Q!Pushed(q, q[1])
    BY <2>2, <2>3
  <2> HIDE DEF s
  <2>5. Q!FlattenSeq(s) = Q!Pushed(q, q[1])
    BY <2>4, FlattenOne
  <2>6. \E T : Q!Pushed(q, q[1]) \in Seq(T)
    BY <2>1, PushedIs
  <2> QED BY <2>5, <2>6 DEF Built, s
<1>2. CASE Len(q) = 2
  <2>1. /\ DOMAIN q = {1, 2}
        /\ q[1] \in Paired \/ IsJoined(q[1])
        /\ q[2] \in Paired \/ IsJoined(q[2])
    BY <1>2 DEF IsQuery
  <2>2. s = [k \in {1, 2} |-> Q!Pushed(q, q[k])]
    BY <2>1
  <2>3. {1, 2} = 1 .. 2
    OBVIOUS
  <2>4. Len(s) = 2 /\ s[1] = Q!Pushed(q, q[1]) /\ s[2] = Q!Pushed(q, q[2])
    BY <2>2, <2>3
  <2> HIDE DEF s
  <2>5. Q!FlattenSeq(s) = s[1] \o s[2]
    BY <2>4, FlattenTwo
  <2>6. PICK T : s[1] \in Seq(T)
    BY <2>1, <2>4, PushedIs
  <2>7. PICK U : s[2] \in Seq(U)
    BY <2>1, <2>4, PushedIs
  <2>8. s[1] \o s[2] \in Seq(T \cup U)
    <3>1. s[1] \in Seq(T \cup U) /\ s[2] \in Seq(T \cup U)
      BY <2>6, <2>7
    <3> QED BY <3>1
  <2>9. Built(q) = Q!FlattenSeq(s)
    BY DEF Built, s
  <2> QED BY <1>2, <2>5, <2>8, <2>9
<1> QED BY <1>1, <1>2 DEF IsQuery

\* A documented query finds in each row what it asks for.
LEMMA RowsRight ==
  ASSUME IsQuery(query), stack = Built(query), Q!Documented
  PROVE  \A r : RowRight(r)
<1> TAKE r
<1> DEFINE p == query[1]
<1>1. Len(query) = 1 /\ p.prop # "$not" /\ (p \in Compared \/ IsJoined(p))
  BY DEF IsQuery, Q!Documented
<1>2. stack = Q!Pushed(query, p)
  BY <1>1, BuiltIs
<1>3. CASE p \in Compared
  <2>1. IsPlain(p)
    BY <1>3, ConditionsPlain
  <2>2. stack = <<p>>
    BY <1>2, <2>1 DEF Q!Pushed, Q!IsJoiner, IsPlain
  <2> QED BY <2>1, <2>2, PlainRow
<1>4. CASE IsJoined(p)
  <2> DEFINE l == p.list
             n == Len(l)
             e == Q!Joiner(p.prop)
             T == Compared \cup Paired \cup {e}
  <2>1. l \in Seq(Compared \cup Paired) /\ Q!IsJoiner(p) /\ p.prop \in {"$and", "$or"}
    BY <1>1, <1>4 DEF IsJoined
  <2>2. stack = Append(l, e)
    BY <1>2, <2>1 DEF Q!Pushed
  <2> HIDE DEF e, l
  <2>3. /\ stack \in Seq(T) /\ Len(stack) = n + 1 /\ n \in Nat /\ stack[n + 1] = e
        /\ \A j \in 1 .. n : stack[j] = l[j] /\ l[j] \in Compared \cup Paired
        /\ DOMAIN l = 1 .. n
    <3> DEFINE U == Compared \cup Paired
    <3> HIDE DEF U
    <3>1. l \in Seq(U) /\ l \in Seq(U \cup {e}) /\ e \in U \cup {e}
      BY <2>1 DEF U
    <3>2. stack \in Seq(U \cup {e}) /\ Len(stack) = n + 1 /\ n \in Nat /\ stack[n + 1] = e
      BY <2>2, <3>1
    <3>3. \A j \in 1 .. n : stack[j] = l[j] /\ l[j] \in U
      BY <2>2, <3>1
    <3> QED BY <3>1, <3>2, <3>3 DEF U
  <2> HIDE DEF n, T
  <2>4. Q!Range(l) = {stack[j] : j \in 1 .. n}
    BY <2>3 DEF Q!Range
  <2>5. \A j \in 1 .. n : IsPlain(stack[j])
    BY <2>3, ConditionsPlain
  <2>6. n = Len(stack) - 1
    BY <2>3
  <2>7. JoinedStack(n)
    BY <2>1, <2>3, <2>4, <2>5, <2>6 DEF JoinedStack, e, l
  <2> QED BY <2>3, <2>7, JoinedRow
<1> QED BY <1>1, <1>3, <1>4

\* The results so far are the rows gone through that answer the query, in order.
Through ==
  (Q!Documented /\ Q!Asked # {}) =>
    /\ \A k \in 1 .. Len(results) - 1 : results[k] < results[k + 1]
    /\ \A n \in 1 .. row :
         (query[1].prop = "$and" => \A c \in Q!Asked : ~Q!Lacks(data[n], c.prop))
         => (n \in Q!Range(results) <=> Q!Answers(data[n]))

\* The query processor: a query that was made has a stack that finds what it asks
\* for; the results are those of the rows gone through; an exception is one of the
\* row at work.
QueryInv ==
  /\ stage \in {"start", "made", "rows", "done", "thrown"}
  /\ \E T : data \in Seq(T)
  /\ row \in 0 .. Len(data)
  /\ results \in Seq(Nat) /\ \A k \in 1 .. Len(results) : results[k] \in 1 .. row
  /\ stage \in {"start", "made"} => data = <<>> /\ results = <<>>
  /\ stage # "start" => IsQuery(query) /\ stack = Built(query) /\ Through
  /\ stage = "done" => row = Len(data)
  /\ (stage = "thrown" /\ Q!Documented /\ data # <<>>) =>
       \E c \in Q!Asked : Fails(data[row + 1], c)

\* Before the first query.
LEMMA QueryStart == Q!QueryInit => QueryInv
<1> SUFFICES ASSUME Q!QueryInit PROVE QueryInv
  OBVIOUS
<1>1. data = <<>> /\ results = <<>> /\ row = 0 /\ stage = "start" /\ Len(<<>>) = 0
  BY DEF Q!QueryInit
<1>2. data \in Seq({}) /\ results \in Seq(Nat)
  BY <1>1
<1>3. 1 .. 0 = {} /\ 0 \in 0 .. 0
  OBVIOUS
<1> QED BY <1>1, <1>2, <1>3 DEF QueryInv

\* Making a query.
LEMMA NewQueryKeeps ==
  ASSUME MaxJoined \in Nat, QueryInv, NEW q \in Q!Objects, Q!NewQuery(q)
  PROVE  QueryInv'
<1>1. /\ stage = "start" /\ query' = q /\ stack' = Built(q)
      /\ stage' \in {"thrown", "made"}
      /\ data' = data /\ row' = row /\ results' = results
  BY DEF Q!NewQuery, Built
<1>2. data = <<>> /\ results = <<>> /\ row = 0
  <2>1. Len(<<>>) = 0 /\ \A i \in 0 .. 0 : i = 0
    OBVIOUS
  <2> QED BY <1>1, <2>1 DEF QueryInv
<1>3. IsQuery(query') /\ stack' = Built(query')
  BY <1>1, ObjectIs
<1>4. Through'
  <2>1. 1 .. 0 = {} /\ 1 .. Len(<<>>) - 1 = {}
    OBVIOUS
  <2>2. row' = 0 /\ results' = <<>>
    BY <1>1, <1>2
  <2> QED BY <2>1, <2>2 DEF Through
<1>5. stage' # "done" /\ stage' # "start" /\ stage' \in {"made", "thrown"}
  BY <1>1
<1> QED BY <1>1, <1>2, <1>3, <1>4, <1>5 DEF QueryInv

\* Starting to go through rows.
LEMMA ExecuteKeeps ==
  ASSUME MaxRows \in Nat, QueryInv, NEW d \in Q!Lists(Tables, MaxRows), Q!Execute(d)
  PROVE  QueryInv'
<1>1. /\ stage = "made" /\ data' = d /\ stage' = "rows"
      /\ query' = query /\ stack' = stack /\ row' = row /\ results' = results
  BY DEF Q!Execute
<1>2. results = <<>> /\ row = 0
  <2>1. Len(<<>>) = 0 /\ \A i \in 0 .. 0 : i = 0
    OBVIOUS
  <2> QED BY <1>1, <2>1 DEF QueryInv
<1>3. d \in Seq(Tables)
  <2>1. PICK k \in 0 .. MaxRows : d \in [1 .. k -> Tables]
    BY DEF Q!Lists
  <2>2. k \in Nat
    BY <2>1
  <2> QED BY <2>1, <2>2
<1>4. Through'
  <2>1. 1 .. 0 = {} /\ 1 .. Len(<<>>) - 1 = {}
    OBVIOUS
  <2>2. row' = 0 /\ results' = <<>>
    BY <1>1, <1>2
  <2> QED BY <2>1, <2>2 DEF Through
<1>5. row' \in 0 .. Len(data')
  BY <1>1, <1>2, <1>3
<1>6. IsQuery(query') /\ stack' = Built(query')
  BY <1>1 DEF QueryInv
<1>7. results' \in Seq(Nat) /\ \A k \in 1 .. Len(results') : results'[k] \in 1 .. row'
  BY <1>1 DEF QueryInv
<1> QED BY <1>1, <1>3, <1>4, <1>5, <1>6, <1>7 DEF QueryInv

\* A row with an exception.
LEMMA ExecuteThrowsKeeps ==
  ASSUME QueryInv, Q!ExecuteThrows
  PROVE  QueryInv'
<1>1. /\ stage = "rows" /\ row < Len(data) /\ Q!RunStack(data[row + 1]).thrown
      /\ stage' = "thrown"
      /\ query' = query /\ stack' = stack /\ data' = data /\ row' = row /\ results' = results
  BY DEF Q!ExecuteThrows
<1>2. Q!Documented => \E c \in Q!Asked : Fails(data[row + 1], c)
  <2>1. SUFFICES ASSUME Q!Documented PROVE \E c \in Q!Asked : Fails(data[row + 1], c)
    OBVIOUS
  <2>2. RowRight(data[row + 1])
    BY <1>1, <2>1, RowsRight DEF QueryInv
  <2> QED BY <1>1, <2>2 DEF RowRight
<1>3. (Q!Documented)' = Q!Documented /\ (Q!Asked)' = Q!Asked
  BY <1>1 DEF Q!Documented, Q!Asked, Q!IsJoiner
<1>4. (Q!Documented)' => (\E c \in Q!Asked : Fails(data[row + 1], c))'
  BY <1>1, <1>2, <1>3
<1>5. IsQuery(query') /\ stack' = Built(query')
  BY <1>1 DEF QueryInv
<1>6. Through'
  <2>1. Through
    BY <1>1 DEF QueryInv
  <2> QED BY <1>1, <1>3, <2>1 DEF Through, Q!Answers, Q!Documented
<1>7. stage' = "thrown"
  BY <1>1
<1>8. /\ (\E T : data \in Seq(T))' /\ row' \in 0 .. Len(data')
      /\ results' \in Seq(Nat) /\ \A k \in 1 .. Len(results') : results'[k] \in 1 .. row'
  BY <1>1 DEF QueryInv
<1> QED BY <1>4, <1>5, <1>6, <1>7, <1>8 DEF QueryInv

\* After the last row.
LEMMA ExecuteReturnsKeeps ==
  ASSUME QueryInv, Q!ExecuteReturns
  PROVE  QueryInv'
<1>1. /\ stage = "rows" /\ row = Len(data) /\ stage' = "done"
      /\ query' = query /\ stack' = stack /\ data' = data /\ row' = row /\ results' = results
  BY DEF Q!ExecuteReturns
<1>2. Through'
  <2>1. Through
    BY <1>1 DEF QueryInv
  <2>2. (Q!Documented)' = Q!Documented /\ (Q!Asked)' = Q!Asked
    BY <1>1 DEF Q!Documented, Q!Asked, Q!IsJoiner
  <2> QED BY <1>1, <2>1, <2>2 DEF Through, Q!Answers, Q!Documented
<1>3. IsQuery(query') /\ stack' = Built(query')
  BY <1>1 DEF QueryInv
<1>4. /\ (\E T : data \in Seq(T))' /\ row' \in 0 .. Len(data')
      /\ results' \in Seq(Nat) /\ \A k \in 1 .. Len(results') : results'[k] \in 1 .. row'
  BY <1>1 DEF QueryInv
<1> QED BY <1>1, <1>2, <1>3, <1>4 DEF QueryInv

\* A row pushed a times.
Pushed(v, u, a, m) == v = u \o [k \in 1 .. a |-> m]

\* What is in the results then.
LEMMA PushedTimes ==
  ASSUME NEW u \in Seq(Nat), NEW a \in Nat, NEW m \in Nat,
         NEW v, Pushed(v, u, a, m)
  PROVE  /\ v \in Seq(Nat) /\ Len(v) = Len(u) + a /\ Len(u) \in Nat
         /\ \A k \in 1 .. Len(u) : v[k] = u[k]
         /\ \A k \in Len(u) + 1 .. Len(v) : v[k] = m
         /\ Q!Range(v) = Q!Range(u) \cup (IF a = 0 THEN {} ELSE {m})
<1> DEFINE w == [k \in 1 .. a |-> m]
<1>1. w \in Seq(Nat) /\ Len(w) = a /\ \A k \in 1 .. a : w[k] = m
  OBVIOUS
<1> HIDE DEF w
<1>2. /\ v \in Seq(Nat) /\ Len(v) = Len(u) + a /\ Len(u) \in Nat
      /\ \A k \in 1 .. Len(u) : v[k] = u[k]
      /\ \A k \in Len(u) + 1 .. Len(v) : v[k] = w[k - Len(u)]
      /\ DOMAIN v = 1 .. Len(v) /\ DOMAIN u = 1 .. Len(u)
  <2> DEFINE x == u \o w
  <2>1. /\ x \in Seq(Nat) /\ Len(x) = Len(u) + a /\ Len(u) \in Nat
        /\ \A k \in 1 .. Len(u) : x[k] = u[k]
        /\ \A k \in Len(u) + 1 .. Len(x) : x[k] = w[k - Len(u)]
        /\ DOMAIN x = 1 .. Len(x) /\ DOMAIN u = 1 .. Len(u)
    BY <1>1
  <2>2. v = x
    BY DEF w, Pushed
  <2> QED BY <2>1, <2>2
<1>3. ASSUME NEW k \in Len(u) + 1 .. Len(v) PROVE v[k] = m
  <2>1. k - Len(u) \in 1 .. a
    BY <1>2
  <2> QED BY <1>1, <1>2, <2>1
<1>4. Q!Range(v) = Q!Range(u) \cup (IF a = 0 THEN {} ELSE {m})
  <2>1. Q!Range(v) = {v[k] : k \in 1 .. Len(v)} /\ Q!Range(u) = {u[k] : k \in 1 .. Len(u)}
    BY <1>2 DEF Q!Range
  <2>2. \A k \in 1 .. Len(v) : k \in 1 .. Len(u) \/ k \in Len(u) + 1 .. Len(v)
    BY <1>2
  <2>3. \A k \in 1 .. Len(u) : k \in 1 .. Len(v)
    BY <1>2
  <2>4. CASE a = 0
    <3>1. Len(v) = Len(u)
      BY <1>2, <2>4
    <3> QED BY <1>2, <2>1, <2>4, <3>1
  <2>5. CASE a # 0
    <3>1. Len(u) + 1 \in Len(u) + 1 .. Len(v) /\ Len(u) + 1 \in 1 .. Len(v)
      BY <1>2, <2>5
    <3>2. m \in {v[k] : k \in 1 .. Len(v)}
      BY <1>3, <3>1
    <3>3. {u[k] : k \in 1 .. Len(u)} \subseteq {v[k] : k \in 1 .. Len(v)}
      BY <1>2, <2>3
    <3>4. ASSUME NEW k \in 1 .. Len(v) PROVE v[k] \in {u[i] : i \in 1 .. Len(u)} \cup {m}
      BY <1>2, <1>3, <2>2
    <3> QED BY <2>1, <2>5, <3>2, <3>3, <3>4
  <2> QED BY <2>4, <2>5
<1> QED BY <1>2, <1>3, <1>4

\* A row gone through.
LEMMA ExecuteRowKeeps ==
  ASSUME QueryInv, Q!ExecuteRow
  PROVE  QueryInv'
<1> DEFINE r == data[row + 1]
           s == Q!RunStack(r)
           m == row + 1
<1>1. /\ stage = "rows" /\ row < Len(data) /\ ~s.thrown
      /\ row' = m /\ results' = results \o [k \in 1 .. s.adds |-> m]
      /\ query' = query /\ stack' = stack /\ data' = data /\ stage' = stage
  BY DEF Q!ExecuteRow
<1>2. /\ row \in Nat /\ m \in Nat /\ m \in 0 .. Len(data) /\ row < m /\ Len(data) \in Nat
      /\ \A n \in 1 .. m : n \in 1 .. row \/ n = m
      /\ results \in Seq(Nat) /\ \A k \in 1 .. Len(results) : results[k] \in 1 .. row
  <2>1. PICK T : data \in Seq(T)
    BY DEF QueryInv
  <2>2. row \in Nat /\ m \in Nat /\ m \in 0 .. Len(data) /\ row < m /\ Len(data) \in Nat
    BY <1>1, <2>1 DEF QueryInv
  <2> QED BY <2>2 DEF QueryInv
<1>3. StateOK(s) /\ s.adds \in Nat
  <2>1. \E T : stack \in Seq(T)
    BY <1>1, BuiltIs DEF QueryInv
  <2>2. StateOK(s)
    BY <2>1, RunStackShape
  <2> QED BY <2>2 DEF StateOK
<1> DEFINE a == s.adds
<1>4. /\ results' \in Seq(Nat) /\ Len(results') = Len(results) + a /\ Len(results) \in Nat
      /\ \A k \in 1 .. Len(results) : results'[k] = results[k]
      /\ \A k \in Len(results) + 1 .. Len(results') : results'[k] = m
      /\ Q!Range(results') = Q!Range(results) \cup (IF a = 0 THEN {} ELSE {m})
  <2> HIDE DEF a, m, s
  <2>1. Pushed(results', results, a, m)
    BY <1>1 DEF a, Pushed
  <2>2. a \in Nat
    BY <1>3 DEF a
  <2> QED BY <1>2, <2>1, <2>2, PushedTimes
<1>5. a \in Nat
  BY <1>3
<1>6. Q!Documented => RowRight(r)
  BY <1>1, RowsRight DEF QueryInv
<1> HIDE DEF s, m
<1>7. \A k \in 1 .. Len(results') :
        k \in 1 .. Len(results) \/ k \in Len(results) + 1 .. Len(results')
  BY <1>4, <1>5
<1>8. ASSUME NEW k \in 1 .. Len(results') PROVE results'[k] \in 1 .. m
  <2> HIDE DEF a
  <2>1. CASE k \in 1 .. Len(results)
    <3>1. results'[k] = results[k] /\ results[k] \in 1 .. row
      BY <1>2, <1>4, <2>1
    <3>2. row \in Nat /\ m \in Nat /\ row < m
      BY <1>2
    <3> QED BY <3>1, <3>2
  <2>2. CASE k \in Len(results) + 1 .. Len(results')
    <3>1. results'[k] = m
      BY <1>4, <2>2
    <3>2. row \in Nat /\ m \in Nat /\ row < m
      BY <1>2
    <3> QED BY <3>1, <3>2
  <2> QED BY <1>7, <2>1, <2>2
<1>9. (Q!Documented)' = Q!Documented /\ (Q!Asked)' = Q!Asked
  BY <1>1 DEF Q!Documented, Q!Asked, Q!IsJoiner
<1>10. Through'
  <2>1. SUFFICES ASSUME Q!Documented, Q!Asked # {}
                 PROVE  /\ \A k \in 1 .. Len(results') - 1 : results'[k] < results'[k + 1]
                        /\ \A n \in 1 .. m :
                             (query[1].prop = "$and" =>
                                \A c \in Q!Asked : ~Q!Lacks(data[n], c.prop))
                             => (n \in Q!Range(results') <=> Q!Answers(data[n]))
    BY <1>1, <1>9 DEF Through, Q!Answers, Q!Documented, m
  <2>2. /\ \A k \in 1 .. Len(results) - 1 : results[k] < results[k + 1]
        /\ \A n \in 1 .. row :
             (query[1].prop = "$and" => \A c \in Q!Asked : ~Q!Lacks(data[n], c.prop))
             => (n \in Q!Range(results) <=> Q!Answers(data[n]))
    BY <1>1, <2>1 DEF QueryInv, Through
  <2>3. a \in {0, 1}
    BY <1>1, <1>6, <2>1 DEF RowRight, s
  <2>4. Q!Range(results) \subseteq 1 .. row
    <3>1. DOMAIN results = 1 .. Len(results)
      BY <1>2
    <3> QED BY <1>2, <3>1 DEF Q!Range
  <2>5. ASSUME NEW k \in 1 .. Len(results') - 1 PROVE results'[k] < results'[k + 1]
    <3>1. CASE k \in 1 .. Len(results) - 1
      <4>1. /\ k \in 1 .. Len(results) /\ k + 1 \in 1 .. Len(results)
            /\ results[k] < results[k + 1]
        BY <1>4, <2>2, <3>1
      <4> QED BY <1>4, <4>1
    <3>2. CASE k \notin 1 .. Len(results) - 1
      <4>1. k = Len(results) /\ k + 1 = Len(results')
        BY <1>4, <2>3, <3>2
      <4>2. k \in 1 .. Len(results) /\ k + 1 \in Len(results) + 1 .. Len(results')
        BY <1>4, <4>1
      <4>3. results'[k] \in 1 .. row /\ results'[k + 1] = m
        BY <1>2, <1>4, <4>2
      <4> QED BY <1>2, <4>3
    <3> QED BY <3>1, <3>2
  <2>6. ASSUME NEW n \in 1 .. m,
               query[1].prop = "$and" => \A c \in Q!Asked : ~Q!Lacks(data[n], c.prop)
        PROVE  n \in Q!Range(results') <=> Q!Answers(data[n])
    <3>1. CASE n \in 1 .. row
      <4>1. n # m
        BY <1>2, <3>1
      <4>2. n \in Q!Range(results') <=> n \in Q!Range(results)
        BY <1>4, <4>1
      <4> QED BY <2>2, <2>6, <3>1, <4>2
    <3>2. CASE n = m
      <4>1. m \notin Q!Range(results)
        BY <1>2, <2>4
      <4>2. n \in Q!Range(results') <=> a = 1
        BY <1>4, <2>3, <3>2, <4>1
      <4>3. a = 1 <=> Q!Answers(r)
        BY <1>1, <1>6, <2>1, <2>6, <3>2 DEF RowRight, s, m
      <4> QED BY <3>2, <4>2, <4>3 DEF m
    <3> QED BY <1>2, <3>1, <3>2
  <2> QED BY <2>5, <2>6
<1>11. IsQuery(query') /\ stack' = Built(query')
  BY <1>1 DEF QueryInv
<1>12. (\E T : data \in Seq(T))' /\ row' \in 0 .. Len(data')
  BY <1>1, <1>2 DEF QueryInv
<1>13. \A k \in 1 .. Len(results') : results'[k] \in 1 .. row'
  BY <1>1, <1>8
<1>14. results' \in Seq(Nat)
  BY <1>4
<1>15. stage' = "rows"
  BY <1>1
<1> QED BY <1>10, <1>11, <1>12, <1>13, <1>14, <1>15 DEF QueryInv

\* Every step keeps it.
LEMMA QueryStep ==
  ASSUME MaxJoined \in Nat, MaxRows \in Nat, QueryInv, Q!QueryNext
  PROVE  QueryInv'
<1>1. CASE \E q \in Q!Objects : Q!NewQuery(q)
  BY <1>1, NewQueryKeeps
<1>2. CASE \E d \in Q!Lists(Tables, MaxRows) : Q!Execute(d)
  BY <1>2, ExecuteKeeps
<1> QED BY <1>1, <1>2, ExecuteRowKeeps, ExecuteThrowsKeeps, ExecuteReturnsKeeps DEF Q!QueryNext

\* And so does one that leaves the query alone.
LEMMA QueryStutter ==
  ASSUME QueryInv, UNCHANGED qVars
  PROVE  QueryInv'
<1>1. /\ query' = query /\ stack' = stack /\ data' = data /\ row' = row
      /\ results' = results /\ stage' = stage
  BY DEF qVars
<1>2. (Q!Documented)' = Q!Documented /\ (Q!Asked)' = Q!Asked /\ (Through)' = Through
  BY <1>1 DEF Q!Documented, Q!Asked, Q!IsJoiner, Through, Q!Answers
<1> QED BY <1>1, <1>2 DEF QueryInv

\* What it says of the answers.
LEMMA QueryFacts ==
  ASSUME QueryInv
  PROVE  Q!QueryTypeOK /\ Q!QueryAnswers
<1>1. Q!QueryTypeOK
  <2>1. DOMAIN results = 1 .. Len(results)
    BY DEF QueryInv
  <2> QED BY <2>1 DEF QueryInv, Q!QueryTypeOK
<1>2. ASSUME stage = "done", Q!Documented, Q!Asked # {}
      PROVE  /\ \A k \in 1 .. Len(results) - 1 : results[k] < results[k + 1]
             /\ \A n \in DOMAIN data :
                  (query[1].prop = "$and" => \A c \in Q!Asked : ~Q!Lacks(data[n], c.prop))
                  => (n \in Q!Range(results) <=> Q!Answers(data[n]))
  <2>1. DOMAIN data = 1 .. row
    <3>1. PICK T : data \in Seq(T)
      BY DEF QueryInv
    <3>2. row = Len(data)
      BY <1>2 DEF QueryInv
    <3> QED BY <3>1, <3>2
  <2>2. Through
    BY <1>2 DEF QueryInv
  <2> QED BY <1>2, <2>1, <2>2 DEF Through
<1>3. ASSUME stage = "thrown", Q!Documented, data # <<>>
      PROVE  \E c \in Q!Asked : ~Q!Lacks(data[row + 1], c.prop) /\ ~Q!Fits(data[row + 1], c)
  <2>1. PICK c \in Q!Asked : Fails(data[row + 1], c)
    BY <1>3 DEF QueryInv
  <2> QED BY <2>1 DEF Fails, Q!Fits
<1>4. Q!QueryAnswers
  BY <1>2, <1>3 DEF Q!QueryAnswers
<1> QED BY <1>1, <1>4

-----------------------------------------------------------------------------
(* The parts together. *)

AP == INSTANCE AsyncProofs
KP == INSTANCE KVStoreProofs WITH Values <- Vals, Absent <- Nothing

\* The steps of the two instances of a module are the same.
LEMMA SameAsync ==
  /\ A!AsyncInit => AP!AsyncInit
  /\ A!AsyncNext => AP!AsyncNext
  /\ AP!IndexedUnlessRemoved => A!IndexedUnlessRemoved
  /\ AP!FindDelivers /\ AP!DeliversOnce /\ AP!NothingByOperators
       => A!FindDelivers /\ A!DeliversOnce /\ A!NothingByOperators
  /\ AP!AsyncTypeOK => A!AsyncTypeOK
<1>1. A!AsyncInit => AP!AsyncInit
  BY DEF A!AsyncInit, AP!AsyncInit, A!NoOp, AP!NoOp, A!Free, AP!Free, A!RecIds, AP!RecIds
<1>2. AP!IndexedUnlessRemoved => A!IndexedUnlessRemoved
  BY DEF A!IndexedUnlessRemoved, AP!IndexedUnlessRemoved, A!Writing, AP!Writing, A!RecIds, AP!RecIds
<1>3. AP!FindDelivers /\ AP!DeliversOnce /\ AP!NothingByOperators
        => A!FindDelivers /\ A!DeliversOnce /\ A!NothingByOperators
  BY DEF A!FindDelivers, A!DeliversOnce, A!NothingByOperators, AP!FindDelivers,
     AP!DeliversOnce, AP!NothingByOperators, A!ToSet, AP!ToSet
<1>4. AP!AsyncTypeOK => A!AsyncTypeOK
  BY DEF A!AsyncTypeOK, AP!AsyncTypeOK, A!RecIds, AP!RecIds, A!Calls, AP!Calls
<1>5. A!AsyncNext => AP!AsyncNext
  <2>1. A!Watch => AP!Watch
    BY DEF A!Watch, AP!Watch, A!Due, AP!Due, A!RecIds, AP!RecIds, A!Calls, AP!Calls
  <2>2. \A s, kind, at, i, v : A!Begin(s, kind, at, i, v) => AP!Begin(s, kind, at, i, v)
    <3>1. A!Cardinality(A!OpenOps) = AP!Cardinality(AP!OpenOps)
      BY DEF A!Cardinality, AP!Cardinality, A!OpenOps, AP!OpenOps, A!Calls, AP!Calls
    <3>2. A!JsReady = AP!JsReady /\ A!NoOp = AP!NoOp
      BY DEF A!JsReady, AP!JsReady, A!Free, AP!Free, A!NoOp, AP!NoOp
    <3> QED BY <3>1, <3>2 DEF A!Begin, AP!Begin
  <2>3. \A s, q : A!FindAsync(s, q) => AP!FindAsync(s, q)
    BY <2>2 DEF A!FindAsync, AP!FindAsync
  <2>4. \A s, v : A!AddAsync(s, v) => AP!AddAsync(s, v)
    BY <2>2 DEF A!AddAsync, AP!AddAsync, A!JsReady, AP!JsReady, A!Free, AP!Free
  <2>5. \A s, i, v : A!SaveAsync(s, i, v) => AP!SaveAsync(s, i, v)
    BY <2>2 DEF A!SaveAsync, AP!SaveAsync
  <2>6. \A s, i : A!RemoveAsync(s, i) => AP!RemoveAsync(s, i)
    BY <2>2 DEF A!RemoveAsync, AP!RemoveAsync
  <2>7. \A s : A!DropAsync(s) => AP!DropAsync(s)
    BY <2>2 DEF A!DropAsync, AP!DropAsync
  <2>8. \A s : A!Execute(s) => AP!Execute(s)
    BY DEF A!Execute, AP!Execute, A!Answer, AP!Answer, A!Subscripts, AP!Subscripts, A!NextOf,
       AP!NextOf, A!RecIds, AP!RecIds, A!Calls, AP!Calls
  <2>9. \A s : A!OrderFound(s) \/ A!OrderEnded(s) \/ A!Retrieved(s) \/ A!FindFailed(s)
               => AP!OrderFound(s) \/ AP!OrderEnded(s) \/ AP!Retrieved(s) \/ AP!FindFailed(s)
    BY DEF A!OrderFound, AP!OrderFound, A!OrderEnded, AP!OrderEnded, A!Retrieved, AP!Retrieved,
       A!FindFailed, AP!FindFailed, A!Delivered, AP!Delivered, A!JsReady, AP!JsReady, A!Free,
       AP!Free, A!Calls, AP!Calls, A!Issue, AP!Issue, A!Ended, AP!Ended, A!RetrievedMatches,
       AP!RetrievedMatches
  <2>10. \A s : A!Updated(s) \/ A!Removed(s) => AP!Updated(s) \/ AP!Removed(s)
    BY DEF A!Updated, AP!Updated, A!Removed, AP!Removed, A!UpdateIndex, AP!UpdateIndex,
       A!Delivered, AP!Delivered, A!JsReady, AP!JsReady, A!Free, AP!Free, A!Calls, AP!Calls,
       A!Issue, AP!Issue, A!Ended, AP!Ended
  <2>11. \A at, i, v : A!SyncStart(at, i, v) => AP!SyncStart(at, i, v)
    BY DEF A!SyncStart, AP!SyncStart, A!JsReady, AP!JsReady, A!Free, AP!Free
  <2>12. A!SyncIndex => AP!SyncIndex
    BY DEF A!SyncIndex, AP!SyncIndex, A!UpdateIndex, AP!UpdateIndex, A!Free, AP!Free
  <2>13. A!RecIds = AP!RecIds
    BY DEF A!RecIds, AP!RecIds
  <2> QED BY <2>1, <2>3, <2>4, <2>5, <2>6, <2>7, <2>8, <2>9, <2>10, <2>11, <2>12, <2>13
             DEF A!AsyncNext, AP!AsyncNext
<1> QED BY <1>1, <1>2, <1>3, <1>4, <1>5

LEMMA SameStore ==
  /\ K!KVInit => KP!KVInit
  /\ K!KVNext => KP!KVNext
  /\ KP!KVTypeOK => K!KVTypeOK
  /\ KP!GetTrue => K!GetTrue
  /\ KP!WriteStands /\ KP!LocksAccounted => K!WriteStands /\ K!LocksAccounted
<1>1. K!KVInit => KP!KVInit
  BY DEF K!KVInit, KP!KVInit
<1>2. KP!KVTypeOK => K!KVTypeOK
  BY DEF K!KVTypeOK, KP!KVTypeOK, K!Procs, KP!Procs, K!Places, KP!Places, K!Ops, KP!Ops,
     K!Answers, KP!Answers
<1>3. KP!GetTrue => K!GetTrue
  BY DEF K!GetTrue, KP!GetTrue
<1>4. KP!WriteStands /\ KP!LocksAccounted => K!WriteStands /\ K!LocksAccounted
  BY DEF K!WriteStands, KP!WriteStands, K!LocksAccounted, KP!LocksAccounted, K!Inside, KP!Inside
<1>5. K!KVNext => KP!KVNext
  <2>1. \A p, k : K!Get(p, k) \/ K!Remove(p, k) => KP!Get(p, k) \/ KP!Remove(p, k)
    BY DEF K!Get, KP!Get, K!Remove, KP!Remove, K!Called, KP!Called
  <2>2. \A p, k, v : K!Set(p, k, v) => KP!Set(p, k, v)
    BY DEF K!Set, KP!Set, K!Called, KP!Called
  <2>3. \A p : K!GetData(p) \/ K!GetValue(p) => KP!GetData(p) \/ KP!GetValue(p)
    BY DEF K!GetData, KP!GetData, K!GetValue, KP!GetValue, K!Answered, KP!Answered, K!Goes, KP!Goes
  <2>4. \A p : K!GetLog(p) \/ K!SetLog(p) => KP!GetLog(p) \/ KP!SetLog(p)
    BY DEF K!GetLog, KP!GetLog, K!SetLog, KP!SetLog, K!Logged, KP!Logged, K!Answered, KP!Answered,
       K!Goes, KP!Goes
  <2>5. \A p : K!Lock(p) \/ K!Unlock(p) => KP!Lock(p) \/ KP!Unlock(p)
    BY DEF K!Lock, KP!Lock, K!Unlock, KP!Unlock, K!LockFree, KP!LockFree, K!Answered, KP!Answered,
       K!Goes, KP!Goes
  <2>6. \A p : K!Change(p) => KP!Change(p)
    BY DEF K!Change, KP!Change, K!Goes, KP!Goes
  <2>7. \A p : K!SetLockFail(p) \/ K!Fault(p) \/ K!Halt(p)
                => KP!SetLockFail(p) \/ KP!Fault(p) \/ KP!Halt(p)
    BY DEF K!SetLockFail, KP!SetLockFail, K!Fault, KP!Fault, K!Halt, KP!Halt, K!Answered, KP!Answered
  <2> QED BY <2>1, <2>2, <2>3, <2>4, <2>5, <2>6, <2>7 DEF K!KVNext, KP!KVNext
<1> QED BY <1>1, <1>2, <1>3, <1>4, <1>5

-----------------------------------------------------------------------------
\* Every part keeps its own.
ServiceInv == SqlInv /\ AP!OwedInv /\ KP!KVInv /\ QueryInv

\* It holds at the start.
LEMMA ServiceStart ==
  ASSUME AP!AsyncConstants, Init
  PROVE  ServiceInv
<1>1. SqlInit /\ AP!AsyncInit /\ KP!KVInit /\ Q!QueryInit
  BY SameAsync, SameStore DEF Init
<1>2. SqlInv
  BY <1>1, InitHolds
<1>3. AP!OwedInv
  BY <1>1, AP!OwedStart
<1>4. KP!KVInv
  BY <1>1, KP!InvInit DEF KP!InvInit
<1>5. QueryInv
  BY <1>1, QueryStart
<1> QED BY <1>2, <1>3, <1>4, <1>5 DEF ServiceInv

\* The sizes of queries and tables.
QuerySizes == MaxJoined \in Nat /\ MaxRows \in Nat

\* A step of one part keeps that part's, and those of the others.
LEMMA ServiceStep ==
  ASSUME AP!AsyncConstants, IsFiniteSet(Slots), Parallel = 1, QuerySizes, ServiceInv, [Next]_vars
  PROVE  ServiceInv'
<1>1. /\ SqlNext \/ UNCHANGED sqlVars
      /\ A!AsyncNext \/ UNCHANGED aVars
      /\ K!KVNext \/ UNCHANGED kVars
      /\ Q!QueryNext \/ UNCHANGED qVars
  BY DEF Next, vars
<1>2. SqlInv'
  BY <1>1, StepKeeps DEF ServiceInv
<1>3. AP!OwedInv'
  <2>1. AP!IsFiniteSet(Slots)
    BY DEF IsFiniteSet, AP!IsFiniteSet
  <2>2. CASE A!AsyncNext
    BY <2>1, <2>2, SameAsync, AP!OwedStep DEF ServiceInv
  <2>3. CASE UNCHANGED aVars
    BY <2>3, AP!OwedStutter DEF ServiceInv, aVars, AP!asyncVars
  <2> QED BY <1>1, <2>2, <2>3
<1>4. KP!KVInv'
  <2>1. [KP!KVNext]_(KP!kvVars)
    BY <1>1, SameStore DEF kVars, KP!kvVars
  <2> QED BY <2>1, KP!InvStep DEF ServiceInv, KP!InvStep
<1>5. QueryInv'
  BY <1>1, QueryStep, QueryStutter DEF ServiceInv, QuerySizes
<1> QED BY <1>2, <1>3, <1>4, <1>5 DEF ServiceInv

\* What it says.
LEMMA ServiceFacts ==
  ASSUME ServiceInv
  PROVE  TypesOK /\ AnswersTrue /\ StoredStays /\ WholeRequestsKept
<1>1. SqlTypeOK /\ WholeRequestsKept
  BY DEF ServiceInv, SqlInv, WholeInOrOut, WholeRequestsKept
<1>2. /\ A!AsyncTypeOK /\ A!FindDelivers /\ A!DeliversOnce /\ A!NothingByOperators
      /\ A!IndexedUnlessRemoved
  <2>1. AP!AsyncInv
    BY DEF ServiceInv, AP!OwedInv
  <2> QED BY <2>1, SameAsync, AP!AsyncFacts, AP!OwedFacts DEF ServiceInv
<1>3. K!KVTypeOK /\ K!GetTrue /\ K!WriteStands /\ K!LocksAccounted
  BY SameStore DEF ServiceInv, KP!KVInv
<1>4. Q!QueryTypeOK /\ Q!QueryAnswers
  BY QueryFacts DEF ServiceInv
<1> QED BY <1>1, <1>2, <1>3, <1>4 DEF StoredStays, TypesOK, AnswersTrue

-----------------------------------------------------------------------------
\* What was stored stays: a stored record nobody is writing keeps its entry but for
\* asynchronous removes, what Set has stored is there when it says "OK", every lock
\* is accounted for; and a whole request to the class generator is in the one
\* queue or the other.  In any number of processes, with any keys and values, when
\* the program keeps one asynchronous operation open.
THEOREM WhatIsStoredStays ==
  ASSUME AP!AsyncConstants, IsFiniteSet(Slots), Parallel = 1, QuerySizes
  PROVE  Spec => [](StoredStays /\ WholeRequestsKept)
<1>1. Init => ServiceInv
  BY ServiceStart
<1>2. ServiceInv /\ [Next]_vars => ServiceInv'
  BY ServiceStep
<1>3. ServiceInv => StoredStays /\ WholeRequestsKept
  BY ServiceFacts
<1> QED BY <1>1, <1>2, <1>3, PTL DEF Spec

\* What a caller is told is so: a find with a callback, by a value or of everything, has
\* delivered what matched all along, once, and one by an operator nothing; Get returns
\* what the key has held during the call; and a documented query, asked without a
\* callback, answers the rows that fulfil it, in their order, or throws for a condition
\* that does not fit its row.  For queries and tables of any size.
THEOREM AnswersAreTrue ==
  ASSUME AP!AsyncConstants, IsFiniteSet(Slots), Parallel = 1, QuerySizes
  PROVE  Spec => []AnswersTrue
<1>1. Init => ServiceInv
  BY ServiceStart
<1>2. ServiceInv /\ [Next]_vars => ServiceInv'
  BY ServiceStep
<1>3. ServiceInv => AnswersTrue
  BY ServiceFacts
<1> QED BY <1>1, <1>2, <1>3, PTL DEF Spec

\* The parts keep their shapes: what is queued are nodes of requests, the rows of an
\* answer are among those gone through, a reply is owed to a call that is open.
THEOREM ServiceTypes ==
  ASSUME AP!AsyncConstants, IsFiniteSet(Slots), Parallel = 1, QuerySizes
  PROVE  Spec => []TypesOK
<1>1. Init => ServiceInv
  BY ServiceStart
<1>2. ServiceInv /\ [Next]_vars => ServiceInv'
  BY ServiceStep
<1>3. ServiceInv => TypesOK
  BY ServiceFacts
<1> QED BY <1>1, <1>2, <1>3, PTL DEF Spec

=============================================================================
