-------------------------- MODULE CodeIngestProofs --------------------------
(***************************************************************************)
(* Proofs about CodeIngest, for any number of paths, calls, versions and   *)
(* languages and any set of faults: the type invariant, EdgesJoinRows,     *)
(* DoneHasNodes and NewNodesHaveEdges, and the half of CallsFinish that    *)
(* says that no step takes a call back.                                    *)
(*                                                                         *)
(* The proofs come in layers.  Ordered is about calls: what their          *)
(* variables hold at each location, and that no two parses have the same   *)
(* number.  Joined adds where the rows of a parse can be, Complete what a  *)
(* clean call may count on, and Linked which edges it has stored.  Each    *)
(* layer is an invariant that the next one rests on.                       *)
(***************************************************************************)
EXTENDS CodeIngest, TLAPS, FiniteSetTheorems

Unparsed == {"idle", "check", "mark", "parse"}

\* What the variables of a call hold at each of its locations.
CallsInOrder ==
    \A c \in Calls :
        /\ pc[c] # "idle" => path[c] \in Paths /\ lang[c] \in Languages /\ hash[c] \in Versions
        /\ pc[c] # "nodes" => next[c] = 1
        /\ pc[c] \in Unparsed => parse[c] = 0
        /\ pc[c] \in {"embed", "nodes", "edges"} => parse[c] # 0
        /\ pc[c] = "embed" => Found(c) # <<>>
        /\ pc[c] = "finish" /\ parse[c] = 0 => Found(c) = <<>>
        /\ todo[c] # {} => pc[c] = "edges" /\ todo[c] \subseteq Called(c)
        /\ parse[c] <= parses

\* Parses of calls that run at the same time differ, and a parse that was
\* recorded as done is over.
ParsesDiffer ==
    /\ \A c, d \in Calls : c # d /\ parse[c] # 0 => parse[c] # parse[d]
    /\ \A p \in Paths : last[p] <= parses /\ \A c \in Calls : last[p] # 0 => parse[c] # last[p]

\* The calls that are still to parse have room for it.
Active == {c \in Calls : pc[c] # "idle"}
Waiting == {c \in Calls : pc[c] \in {"check", "mark", "parse"}}

RoomLeft == IsFiniteSet(Active) /\ parses + Cardinality(Waiting) <= MaxParses

\* The id of a row is that of a parse that was made.
IdsOfParses ==
    \A k \in Keys : nodes[k] # NoNode =>
        nodes[k].id[1] \in 1 .. parses /\ nodes[k].of \in Versions

Ordered == TypeOK /\ CallsInOrder /\ ParsesDiffer /\ RoomLeft /\ IdsOfParses

\* The rows a call has inserted are those of symbols it has found.
RowsOfCall ==
    \A c \in Calls, k \in Keys :
        parse[c] # 0 /\ nodes[k].id[1] = parse[c] =>
            /\ k[1] = path[c] /\ k[2] = lang[c]
            /\ nodes[k].id[2] \in DOMAIN Found(c)
            /\ Found(c)[nodes[k].id[2]] = k[3]

Joined == RowsOfCall /\ EdgesJoinRows

DoneHasHash ==
    \A p \in Paths : jobs[p].status = "done" =>
        jobs[p].hash \in Versions /\ jobs[p].lang \in Languages

\* A clean call is alone on its path, and has taken back the claim.
CleanIsAlone ==
    \A c \in Calls :
        clean[c] /\ pc[c] \in Writing =>
            /\ \A d \in Calls \ {c} : pc[d] \in Writing => path[d] # path[c]
            /\ jobs[path[c]].status # "done"

\* The rows of the first n symbols of a version are there.
HasNodes(p, l, v, n) == \A i \in 1 .. n : nodes[<<p, l, Defs[v][l][i]>>].of = v

\* The rows a clean call finds at its path.
CleanNodes ==
    \A c \in Calls :
        clean[c] =>
            /\ pc[c] = "nodes" => HasNodes(path[c], lang[c], hash[c], next[c] - 1)
            /\ pc[c] \in {"edges", "finish"} =>
                  HasNodes(path[c], lang[c], hash[c], Len(Found(c)))

\* A call that is not clean can write under a "done" row, which is then
\* suspect.
UncleanIsSuspect ==
    \A c \in Calls :
        ~clean[c] /\ pc[c] \in Writing /\ jobs[path[c]].status = "done" => suspect[path[c]]

Complete == DoneHasHash /\ CleanIsAlone /\ CleanNodes /\ UncleanIsSuspect /\ DoneHasNodes

\* Parse n inserted the row of s, as the last definition of s.
Inserted(p, l, v, n, s) ==
    /\ nodes[<<p, l, s>>].id[1] = n
    /\ \A i \in DOMAIN Defs[v][l] : Defs[v][l][i] = s => i <= nodes[<<p, l, s>>].id[2]

HasEdges(p, l, v, n, refs) ==
    \A ref \in refs :
        Inserted(p, l, v, n, ref[1]) /\ Inserted(p, l, v, n, ref[2]) =>
            <<nodes[<<p, l, ref[1]>>].id, nodes[<<p, l, ref[2]>>].id>> \in edges

\* The edges a clean call has stored.
CleanEdges ==
    \A c \in Calls :
        clean[c] /\ pc[c] \in {"edges", "finish"} /\ parse[c] # 0 =>
            HasEdges(path[c], lang[c], hash[c], parse[c], Called(c) \ todo[c])

Linked == CleanEdges /\ NewNodesHaveEdges

-----------------------------------------------------------------------------
\* Ordered: the types, and what calls hold.

\* The two halves of TypeOK.
StoreOK ==
    /\ disk \in [Paths -> Versions \cup {None}]
    /\ jobs \in [Paths -> JobRows]
    /\ nodes \in [Keys -> NodeRows]
    /\ edges \subseteq ((1 .. MaxParses) \X Nat) \X ((1 .. MaxParses) \X Nat)
    /\ parses \in 0 .. MaxParses
    /\ suspect \in [Paths -> BOOLEAN]
    /\ last \in [Paths -> 0 .. MaxParses]

CallsOK ==
    /\ pc \in [Calls -> Locations]
    /\ path \in [Calls -> Paths \cup {None}]
    /\ lang \in [Calls -> Languages \cup {None}]
    /\ hash \in [Calls -> Versions \cup {None}]
    /\ parse \in [Calls -> 0 .. MaxParses]
    /\ next \in [Calls -> Nat \ {0}]
    /\ \A c \in Calls : pc[c] = "nodes" => next[c] \in DOMAIN Found(c)
    /\ todo \in [Calls -> SUBSET (Symbols \X Symbols)]
    /\ clean \in [Calls -> BOOLEAN]

LEMMA OrderedAfter ==
    ASSUME StoreOK', CallsOK', CallsInOrder', ParsesDiffer', RoomLeft', IdsOfParses'
    PROVE  Ordered'
  <1>1. TypeOK'
    BY DEF TypeOK, StoreOK, CallsOK
  <1> QED
    BY <1>1 DEF Ordered

\* What a call that has begun holds.
LEMMA CallFacts ==
    ASSUME Ordered, NEW c \in Calls, pc[c] # "idle"
    PROVE  /\ path[c] \in Paths /\ lang[c] \in Languages /\ hash[c] \in Versions
           /\ Found(c) \in Seq(Symbols) /\ Called(c) \subseteq Symbols \X Symbols
           /\ Valid[hash[c]][lang[c]] \in BOOLEAN
           /\ parse[c] \in 0 .. parses
  <1>1. path[c] \in Paths /\ lang[c] \in Languages /\ hash[c] \in Versions
    BY DEF Ordered, CallsInOrder
  <1>2. parse[c] \in 0 .. parses
    BY DEF Ordered, CallsInOrder, TypeOK
  <1>3. \A v \in Versions, l \in Languages :
            /\ Defs[v][l] \in Seq(Symbols)
            /\ Refs[v][l] \subseteq Symbols \X Symbols
            /\ Valid[v][l] \in BOOLEAN
    <2>1. \A v \in Versions, l \in Languages : Defs[v][l] \in Seq(Symbols)
      BY ConstantsAssumption
    <2>2. \A v \in Versions, l \in Languages : Refs[v][l] \subseteq Symbols \X Symbols
      BY ConstantsAssumption
    <2>3. \A v \in Versions, l \in Languages : Valid[v][l] \in BOOLEAN
      BY ConstantsAssumption
    <2> QED
      BY <2>1, <2>2, <2>3
  <1> QED
    BY <1>1, <1>2, <1>3 DEF Found, Called

\* Room is kept by a step at which no call begins and no parse is made.
LEMMA RoomKept ==
    ASSUME RoomLeft, parses \in Nat, MaxParses \in Nat,
           parses' = parses, Active' \subseteq Active, Waiting' \subseteq Waiting
    PROVE  RoomLeft'
  <1>1. IsFiniteSet(Active) /\ IsFiniteSet(Waiting)
    <2>1. Waiting \subseteq Active
      BY DEF Waiting, Active
    <2> QED
      BY <2>1, FS_Subset DEF RoomLeft
  <1>2. IsFiniteSet(Active')
    BY <1>1, FS_Subset
  <1>3. Cardinality(Waiting') <= Cardinality(Waiting)
    BY <1>1, FS_Subset
  <1>4. Cardinality(Waiting) \in Nat /\ Cardinality(Waiting') \in Nat
    BY <1>1, FS_Subset, FS_CardinalityType
  <1> QED
    BY <1>2, <1>3, <1>4 DEF RoomLeft

\* What UpsertCodeNode does to the rows.
LEMMA UpsertFacts ==
    ASSUME Ordered, NEW c \in Calls, pc[c] = "nodes", UpsertCodeNode(c), UNCHANGED parses
    PROVE  /\ Key(c) \in Keys
           /\ parse[c] \in 1 .. parses /\ next[c] \in DOMAIN Found(c)
           /\ \A k \in Keys \ {Key(c)} : nodes'[k] = nodes[k]
           /\ nodes[Key(c)] = NoNode =>
                 nodes'[Key(c)] = [id |-> <<parse[c], next[c]>>, of |-> hash[c]]
           /\ nodes[Key(c)] # NoNode =>
                 nodes'[Key(c)] = [id |-> nodes[Key(c)].id, of |-> hash[c]]
           /\ nodes' \in [Keys -> NodeRows]
           /\ IdsOfParses'
  <1>1. next[c] \in DOMAIN Found(c)
    BY DEF Ordered, TypeOK
  <1>2. Key(c) \in Keys
    BY <1>1, CallFacts DEF Key, Keys
  <1>3. parse[c] \in 1 .. parses
    BY CallFacts DEF Ordered, CallsInOrder, TypeOK
  <1>n. /\ next[c] \in Nat /\ hash[c] \in Versions
        /\ parses \in Nat /\ parses <= MaxParses /\ MaxParses \in Nat
        /\ nodes \in [Keys -> NodeRows]
    BY CallFacts, ConstantsAssumption DEF Ordered, TypeOK
  <1>4. \A k \in Keys \ {Key(c)} : nodes'[k] = nodes[k]
    BY <1>n DEF UpsertCodeNode
  <1>5. nodes[Key(c)] = NoNode =>
            nodes'[Key(c)] = [id |-> <<parse[c], next[c]>>, of |-> hash[c]]
    BY <1>n, <1>2 DEF UpsertCodeNode
  <1>6. nodes[Key(c)] # NoNode =>
            nodes'[Key(c)] = [id |-> nodes[Key(c)].id, of |-> hash[c]]
    BY <1>n, <1>2 DEF UpsertCodeNode, NodeRows
  <1>7. nodes'[Key(c)] \in NodeRows
    BY <1>n, <1>2, <1>3, <1>5, <1>6 DEF NodeRows
  <1>8. nodes' \in [Keys -> NodeRows]
    BY <1>n, <1>2, <1>7 DEF UpsertCodeNode
  <1>9. IdsOfParses'
    <2>1. nodes'[Key(c)].id[1] \in 1 .. parses /\ nodes'[Key(c)].of \in Versions
      BY <1>n, <1>2, <1>3, <1>5, <1>6 DEF Ordered, IdsOfParses
    <2> QED
      BY <2>1, <1>4, <1>2 DEF Ordered, IdsOfParses
  <1> QED
    BY <1>1, <1>2, <1>3, <1>4, <1>5, <1>6, <1>8, <1>9

LEMMA InitOrdered == Init => Ordered
  <1> SUFFICES ASSUME Init PROVE Ordered
    OBVIOUS
  <1> USE ConstantsAssumption
  <1>1. StoreOK
    BY DEF Init, StoreOK, NoJob, JobRows, NoNode, NodeRows, Keys
  <1>2. CallsOK
    BY DEF Init, CallsOK, Locations
  <1>3. CallsInOrder /\ ParsesDiffer
    BY DEF Init, CallsInOrder, ParsesDiffer, Unparsed
  <1>4. RoomLeft
    <2>1. Active = {} /\ Waiting = {}
      BY DEF Init, Active, Waiting
    <2> QED
      BY <2>1, FS_EmptySet DEF Init, RoomLeft
  <1>5. IdsOfParses
    BY DEF Init, IdsOfParses
  <1> QED
    BY <1>1, <1>2, <1>3, <1>4, <1>5 DEF Ordered, TypeOK, StoreOK, CallsOK

LEMMA BeginOrdered ==
    ASSUME Ordered, NEW c \in Calls, NEW p \in Paths, NEW l \in Languages, Begin(c, p, l)
    PROVE  Ordered'
  <1> USE ConstantsAssumption DEF Begin, Goto, store, history
  <1>1. StoreOK'
    BY DEF Ordered, TypeOK, StoreOK
  <1>2. CallsOK'
    BY DEF Ordered, TypeOK, CallsOK, Locations, Found
  <1>3. CallsInOrder'
    BY DEF Ordered, TypeOK, CallsInOrder, Unparsed, Found, Called
  <1>4. ParsesDiffer'
    BY DEF Ordered, ParsesDiffer
  <1>5. RoomLeft'
    <2>1. Active' = Active \cup {c} /\ c \notin Active
      BY DEF Ordered, TypeOK, Active
    <2>2. Waiting' \subseteq Active' /\ Waiting' = Waiting \cup {c} /\ Waiting \subseteq Active
      BY DEF Ordered, TypeOK, Active, Waiting
    <2>3. IsFiniteSet(Active) /\ IsFiniteSet(Active') /\ Cardinality(Active') = Cardinality(Active) + 1
      BY <2>1, FS_AddElement DEF Ordered, RoomLeft
    <2>4. Cardinality(Waiting') <= Cardinality(Active')
      BY <2>2, <2>3, FS_Subset
    <2>5. Cardinality(Active) \in Nat /\ Cardinality(Waiting') \in Nat
      BY <2>2, <2>3, FS_Subset, FS_CardinalityType
    <2>6. parses \in Nat /\ MaxParses \in Nat
      BY DEF Ordered, TypeOK
    <2>7. parses + Cardinality(Active) < MaxParses
      BY DEF RoomForParse, Active
    <2> QED
      BY <2>3, <2>4, <2>5, <2>6, <2>7 DEF RoomLeft
  <1>6. IdsOfParses'
    BY DEF Ordered, IdsOfParses
  <1> QED
    BY <1>1, <1>2, <1>3, <1>4, <1>5, <1>6, OrderedAfter

\* The steps that change nothing but the location of the call.
LEMMA LocalOrdered ==
    ASSUME Ordered, NEW c \in Calls, NEW b \in BOOLEAN,
           Proceed(c, b) \/ ParseFails(c) \/ Embed(c, b)
    PROVE  Ordered'
  <1> USE ConstantsAssumption DEF Proceed, ParseFails, Embed, Goto, store, history
  <1>1. StoreOK'
    BY DEF Ordered, TypeOK, StoreOK
  <1>l. /\ pc[c] \in {"check", "parse", "embed"}
        /\ pc[c] = "check" => pc' = [pc EXCEPT ![c] = "mark"]
        /\ pc[c] = "parse" => pc' = [pc EXCEPT ![c] = "fail"]
        /\ pc[c] = "embed" => pc' = [pc EXCEPT ![c] = "nodes"] \/ pc' = [pc EXCEPT ![c] = "fail"]
        /\ UNCHANGED <<disk, store, parses, path, lang, hash, parse, next, todo, history>>
    OBVIOUS
  <1>2. CallsOK'
    <2>1. pc' \in [Calls -> Locations]
      BY <1>l DEF Ordered, TypeOK, Locations, Writing
    <2>2. pc'[c] = "nodes" => next[c] \in DOMAIN Found(c)
      <3>1. pc'[c] = "nodes" => pc[c] = "embed"
        BY <1>l DEF Ordered, TypeOK
      <3>2. pc[c] = "embed" => Found(c) # <<>> /\ next[c] = 1 /\ Found(c) \in Seq(Symbols)
        BY CallFacts DEF Ordered, CallsInOrder
      <3> QED
        BY <3>1, <3>2
    <2>3. \A d \in Calls \ {c} : pc'[d] = pc[d]
      BY <1>l DEF Ordered, TypeOK
    <2>4. \A d \in Calls : pc'[d] = "nodes" => next'[d] \in DOMAIN Found(d)'
      BY <1>l, <2>2, <2>3 DEF Ordered, TypeOK, Found
    <2> QED
      BY <1>l, <2>1, <2>4 DEF Ordered, TypeOK, CallsOK
  <1>3. CallsInOrder'
    BY <1>l DEF Ordered, TypeOK, CallsInOrder, Unparsed, Found, Called
  <1>4. (ParsesDiffer /\ IdsOfParses)'
    BY <1>l DEF Ordered, ParsesDiffer, IdsOfParses
  <1>5. RoomLeft'
    <2>1. Active' \subseteq Active /\ Waiting' \subseteq Waiting
      BY <1>l DEF Ordered, TypeOK, Active, Waiting
    <2> QED
      BY <1>l, <2>1, RoomKept DEF Ordered, TypeOK
  <1> QED
    BY <1>1, <1>2, <1>3, <1>4, <1>5, OrderedAfter

LEMMA MarkPendingOrdered ==
    ASSUME Ordered, NEW c \in Calls, NEW applied \in BOOLEAN, MarkPending(c, applied)
    PROVE  Ordered'
  <1> USE DEF MarkPending, UpsertIngestJob, Goto
  <1>p. path[c] \in Paths /\ hash[c] \in Versions /\ lang[c] \in Languages
    BY CallFacts
  <1>1. StoreOK'
    <2>1. jobs' \in [Paths -> JobRows]
      BY <1>p DEF Ordered, TypeOK, Job, JobRows
    <2>2. suspect' \in [Paths -> BOOLEAN]
      BY Zenon DEF Ordered, TypeOK
    <2> QED
      BY <2>1, <2>2 DEF Ordered, TypeOK, StoreOK
  <1>2. CallsOK'
    <2>1. clean' \in [Calls -> BOOLEAN]
      BY Zenon
    <2>2. pc' \in [Calls -> Locations] /\ \A d \in Calls : pc'[d] = "nodes" => pc[d] = "nodes"
      BY DEF Ordered, TypeOK, Locations, Writing
    <2> QED
      BY <2>1, <2>2 DEF Ordered, TypeOK, CallsOK, Found
  <1>3. CallsInOrder'
    BY DEF Ordered, TypeOK, CallsInOrder, Unparsed, Found, Called
  <1>4. (ParsesDiffer /\ IdsOfParses)'
    BY DEF Ordered, ParsesDiffer, IdsOfParses
  <1>5. RoomLeft'
    <2>1. Active' \subseteq Active /\ Waiting' \subseteq Waiting
      BY DEF Ordered, TypeOK, Active, Waiting
    <2> QED
      BY <2>1, RoomKept, ConstantsAssumption DEF Ordered, TypeOK
  <1> QED
    BY <1>1, <1>2, <1>3, <1>4, <1>5, OrderedAfter

\* A parse takes the next number, which no call and no row has.
LEMMA ParseOrdered == ASSUME Ordered, NEW c \in Calls, Parse(c) PROVE Ordered'
  <1> USE DEF Parse, Goto, store, history
  <1>p. path[c] \in Paths /\ hash[c] \in Versions /\ lang[c] \in Languages /\ Found(c) \in Seq(Symbols)
    BY CallFacts
  <1>n. parses \in Nat /\ MaxParses \in Nat
    BY ConstantsAssumption DEF Ordered, TypeOK
  <1>w. /\ c \in Waiting /\ Waiting' = Waiting \ {c} /\ Active' = Active
        /\ IsFiniteSet(Waiting)
    <2>1. Waiting \subseteq Active
      BY DEF Active, Waiting
    <2> QED
      BY <2>1, FS_Subset DEF Ordered, TypeOK, RoomLeft, Active, Waiting
  <1>c. Cardinality(Waiting') = Cardinality(Waiting) - 1 /\ Cardinality(Waiting) \in Nat
    BY <1>w, FS_RemoveElement, FS_CardinalityType
  <1>d. Cardinality(Waiting') \in Nat
    BY <1>w, FS_RemoveElement, FS_CardinalityType
  <1>m. parses + 1 <= MaxParses /\ parses + 1 + Cardinality(Waiting') <= MaxParses
    BY <1>n, <1>c, <1>d DEF Ordered, RoomLeft
  <1>a. \/ /\ Found(c) = <<>>
           /\ pc' = [pc EXCEPT ![c] = "finish"] /\ parses' = parses /\ parse' = parse
        \/ /\ Found(c) # <<>>
           /\ pc' = [pc EXCEPT ![c] = "embed"] /\ parses' = parses + 1
           /\ parse' = [parse EXCEPT ![c] = parses + 1]
    OBVIOUS
  <1>1. StoreOK'
    BY <1>a, <1>n, <1>m DEF Ordered, TypeOK, StoreOK
  <1>2. CallsOK'
    <2>1. pc' \in [Calls -> Locations] /\ \A d \in Calls : pc'[d] = "nodes" => pc[d] = "nodes"
      BY <1>a DEF Ordered, TypeOK, Locations, Writing
    <2>2. parse' \in [Calls -> 0 .. MaxParses]
      BY <1>a, <1>n, <1>m DEF Ordered, TypeOK
    <2> QED
      BY <2>1, <2>2 DEF Ordered, TypeOK, CallsOK, Found
  <1>3. CallsInOrder'
    <2>1. \A d \in Calls \ {c} : pc'[d] = pc[d] /\ parse'[d] = parse[d]
      BY <1>a DEF Ordered, TypeOK
    <2>2. parse[c] = 0 /\ next[c] = 1 /\ todo[c] = {}
      BY DEF Ordered, CallsInOrder, Unparsed
    <2>3. \/ Found(c) = <<>> /\ pc'[c] = "finish" /\ parse'[c] = 0 /\ parses' = parses
          \/ Found(c) # <<>> /\ pc'[c] = "embed" /\ parse'[c] = parses + 1 /\ parses' = parses + 1
      BY <1>a, <2>2 DEF Ordered, TypeOK
    <2>4. parses <= parses' /\ \A d \in Calls : parse[d] \in Nat
      BY <1>a, <1>n DEF Ordered, TypeOK
    <2>5. \A d \in Calls : parse'[d] <= parses'
      BY <2>1, <2>2, <2>3, <2>4, <1>n DEF Ordered, CallsInOrder
    <2> QED
      BY <2>1, <2>2, <2>3, <2>5, <1>p, <1>n DEF Ordered, CallsInOrder, Unparsed, Found, Called
  <1>4. ParsesDiffer'
    <2>1. \A d \in Calls : parse[d] \in 0 .. parses
      BY <1>n DEF Ordered, CallsInOrder, TypeOK
    <2>2. \A p \in Paths : last[p] \in 0 .. parses
      BY <1>n DEF Ordered, ParsesDiffer, TypeOK
    <2>3. \A d \in Calls \ {c} : parse'[d] = parse[d]
      BY <1>a DEF Ordered, TypeOK
    <2>4. \/ parse'[c] = parse[c] /\ parses' = parses
          \/ parse'[c] = parses + 1 /\ parses' = parses + 1
      BY <1>a DEF Ordered, TypeOK
    <2> QED
      BY <2>1, <2>2, <2>3, <2>4, <1>n DEF Ordered, ParsesDiffer
  <1>5. RoomLeft'
    BY <1>w, <1>c, <1>m, <1>n, <1>a DEF Ordered, RoomLeft
  <1>6. IdsOfParses'
    BY <1>a, <1>n DEF Ordered, TypeOK, NodeRows, IdsOfParses
  <1> QED
    BY <1>1, <1>2, <1>3, <1>4, <1>5, <1>6, OrderedAfter

\* What remains of a call that returns.
LEMMA ReturnFacts ==
    ASSUME Ordered, NEW c \in Calls, Return(c)
    PROVE  /\ pc'[c] = "idle" /\ next'[c] = 1 /\ todo'[c] = {} /\ parse'[c] = 0
           /\ \A d \in Calls \ {c} :
                 /\ pc'[d] = pc[d] /\ path'[d] = path[d] /\ lang'[d] = lang[d]
                 /\ hash'[d] = hash[d] /\ parse'[d] = parse[d] /\ next'[d] = next[d]
                 /\ todo'[d] = todo[d] /\ clean'[d] = clean[d]
                 /\ Found(d)' = Found(d) /\ Called(d)' = Called(d)
  BY DEF Ordered, TypeOK, Return, Goto, Found, Called

\* A return disturbs nothing that Ordered says of calls; what remains is what
\* the step does to the store.
LEMMA ReturnOrdered ==
    ASSUME Ordered, NEW c \in Calls, Return(c), UNCHANGED parses,
           StoreOK', IdsOfParses',
           \A p \in Paths :
              \/ last'[p] = last[p]
              \/ last'[p] = parse[c] /\ last'[p] <= parses
    PROVE  Ordered'
  <1>1. CallsOK'
    <2>1. /\ pc' \in [Calls -> Locations]
          /\ path' \in [Calls -> Paths \cup {None}]
          /\ lang' \in [Calls -> Languages \cup {None}]
          /\ hash' \in [Calls -> Versions \cup {None}]
          /\ parse' \in [Calls -> 0 .. MaxParses]
          /\ next' \in [Calls -> Nat \ {0}]
          /\ todo' \in [Calls -> SUBSET (Symbols \X Symbols)]
      BY ConstantsAssumption DEF Ordered, TypeOK, Return, Goto, Locations
    <2>2. clean' \in [Calls -> BOOLEAN]
      BY Zenon DEF Ordered, TypeOK, Return
    <2>3. \A d \in Calls : pc'[d] = "nodes" => next'[d] \in DOMAIN Found(d)'
      BY ReturnFacts DEF Ordered, TypeOK
    <2> QED
      BY <2>1, <2>2, <2>3 DEF CallsOK
  <1>2. CallsInOrder'
    <2>1. \A d \in Calls : parse[d] <= parses /\ 0 <= parses
      BY ConstantsAssumption DEF Ordered, CallsInOrder, TypeOK
    <2> QED
      BY <2>1, ReturnFacts DEF Ordered, CallsInOrder, Unparsed
  <1>3. ParsesDiffer'
    BY ReturnFacts DEF Ordered, ParsesDiffer
  <1>4. RoomLeft'
    <2>1. Active' \subseteq Active /\ Waiting' \subseteq Waiting
      BY ReturnFacts DEF Active, Waiting
    <2> QED
      BY <2>1, RoomKept, ConstantsAssumption DEF Ordered, TypeOK
  <1> QED
    BY <1>1, <1>2, <1>3, <1>4, OrderedAfter

LEMMA AbandonOrdered ==
    ASSUME Ordered, NEW c \in Calls, SkipUnchanged(c) \/ RefuseLanguage(c)
    PROVE  Ordered'
  <1> USE DEF SkipUnchanged, RefuseLanguage, store
  <1>1. StoreOK' /\ IdsOfParses'
    BY DEF Ordered, TypeOK, StoreOK, IdsOfParses
  <1> QED
    BY <1>1, ReturnOrdered

LEMMA MarkErrorOrdered ==
    ASSUME Ordered, NEW c \in Calls, NEW applied \in BOOLEAN, MarkError(c, applied)
    PROVE  Ordered'
  <1> USE DEF MarkError, UpsertIngestJob
  <1>1. jobs' \in [Paths -> JobRows]
    BY CallFacts DEF Ordered, TypeOK, Job, JobRows
  <1>2. StoreOK' /\ IdsOfParses'
    BY <1>1 DEF Ordered, TypeOK, StoreOK, IdsOfParses
  <1> QED
    BY <1>2, ReturnOrdered

LEMMA MarkDoneOrdered ==
    ASSUME Ordered, NEW c \in Calls, NEW applied \in BOOLEAN, MarkDone(c, applied)
    PROVE  Ordered'
  <1> USE DEF MarkDone, UpsertIngestJob
  <1>p. path[c] \in Paths /\ parse[c] \in 0 .. parses /\ parses \in 0 .. MaxParses /\ MaxParses \in Nat
    BY CallFacts, ConstantsAssumption DEF Ordered, TypeOK
  <1>1. jobs' \in [Paths -> JobRows]
    BY CallFacts DEF Ordered, TypeOK, Job, JobRows
  <1>2. suspect' \in [Paths -> BOOLEAN]
    BY Zenon DEF Ordered, TypeOK
  <1>3. last' \in [Paths -> 0 .. MaxParses]
    BY <1>p DEF Ordered, TypeOK
  <1>4. StoreOK' /\ IdsOfParses'
    BY <1>1, <1>2, <1>3 DEF Ordered, TypeOK, StoreOK, IdsOfParses
  <1>5. \A p \in Paths :
            \/ last'[p] = last[p]
            \/ last'[p] = parse[c] /\ last'[p] <= parses
    BY <1>p DEF Ordered, TypeOK
  <1> QED
    BY <1>4, <1>5, ReturnOrdered

LEMMA StoreNodeFailsOrdered ==
    ASSUME Ordered, NEW c \in Calls, NEW written \in BOOLEAN, StoreNodeFails(c, written)
    PROVE  Ordered'
  <1> USE DEF StoreNodeFails
  <1>1. nodes' \in [Keys -> NodeRows] /\ IdsOfParses'
    <2>1. CASE written
      BY <2>1, UpsertFacts
    <2>2. CASE ~written
      BY <2>2 DEF Ordered, TypeOK, IdsOfParses
    <2> QED
      BY <2>1, <2>2
  <1>2. StoreOK'
    BY <1>1 DEF Ordered, TypeOK, StoreOK
  <1> QED
    BY <1>1, <1>2, ReturnOrdered

LEMMA StoreNodeOrdered == ASSUME Ordered, NEW c \in Calls, StoreNode(c) PROVE Ordered'
  <1> USE DEF StoreNode, Goto, history
  <1>u. /\ nodes' \in [Keys -> NodeRows] /\ IdsOfParses'
        /\ next[c] \in DOMAIN Found(c) /\ parse[c] \in 1 .. parses
    BY UpsertFacts
  <1>f. Found(c) \in Seq(Symbols) /\ Called(c) \subseteq Symbols \X Symbols
    BY CallFacts
  <1>n. Len(Found(c)) \in Nat /\ next[c] \in Nat /\ next[c] <= Len(Found(c))
    BY <1>u, <1>f
  <1>a. \/ /\ next[c] = Len(Found(c)) /\ next' = [next EXCEPT ![c] = 1]
           /\ todo' = [todo EXCEPT ![c] = Called(c)]
           /\ Called(c) = {} => pc' = [pc EXCEPT ![c] = "finish"]
           /\ Called(c) # {} => pc' = [pc EXCEPT ![c] = "edges"]
        \/ /\ next[c] < Len(Found(c)) /\ next' = [next EXCEPT ![c] = next[c] + 1]
           /\ todo' = [todo EXCEPT ![c] = {}]
           /\ pc' = [pc EXCEPT ![c] = "nodes"]
    <2>1. CASE next[c] = Len(Found(c))
      BY <2>1, Zenon
    <2>2. CASE next[c] # Len(Found(c))
      <3>1. next[c] < Len(Found(c))
        BY <1>n, <2>2
      <3>2. /\ next' = [next EXCEPT ![c] = next[c] + 1]
            /\ todo' = [todo EXCEPT ![c] = {}]
            /\ pc' = [pc EXCEPT ![c] = "nodes"]
        BY <2>2, Zenon
      <3> QED
        BY <3>1, <3>2
    <2> QED
      BY <2>1, <2>2
  <1>1. StoreOK'
    BY <1>u DEF Ordered, TypeOK, StoreOK
  <1>o. \A d \in Calls \ {c} : pc'[d] = pc[d] /\ next'[d] = next[d] /\ todo'[d] = todo[d]
    BY <1>a DEF Ordered, TypeOK
  <1>2. CallsOK'
    <2>1. pc' \in [Calls -> Locations]
      BY <1>a DEF Ordered, TypeOK, Locations, Writing
    <2>2. next' \in [Calls -> Nat \ {0}]
      BY <1>a, <1>n DEF Ordered, TypeOK
    <2>3. todo' \in [Calls -> SUBSET (Symbols \X Symbols)]
      BY <1>a, <1>f DEF Ordered, TypeOK
    <2>4. pc'[c] = "nodes" => next'[c] \in DOMAIN Found(c)
      BY <1>a, <1>n, <1>f DEF Ordered, TypeOK
    <2>5. \A d \in Calls : pc'[d] = "nodes" => next'[d] \in DOMAIN Found(d)'
      BY <1>o, <2>4 DEF Ordered, TypeOK, Found
    <2> QED
      BY <2>1, <2>2, <2>3, <2>5 DEF Ordered, TypeOK, CallsOK
  <1>3. CallsInOrder'
    <2>1. /\ pc'[c] \in {"nodes", "edges", "finish"}
          /\ pc'[c] # "nodes" => next'[c] = 1
          /\ todo'[c] # {} => pc'[c] = "edges" /\ todo'[c] \subseteq Called(c)
      BY <1>a DEF Ordered, TypeOK
    <2>2. parse[c] # 0
      BY <1>u DEF Ordered, TypeOK
    <2>3. \A d \in Calls : /\ path'[d] = path[d] /\ lang'[d] = lang[d] /\ hash'[d] = hash[d]
                           /\ parse'[d] = parse[d] /\ parses' = parses
                           /\ Found(d)' = Found(d) /\ Called(d)' = Called(d)
      BY DEF Found, Called
    <2> QED
      BY <2>1, <2>2, <2>3, <1>o DEF Ordered, CallsInOrder, Unparsed
  <1>4. ParsesDiffer'
    BY DEF Ordered, ParsesDiffer
  <1>5. RoomLeft'
    <2>1. Active' \subseteq Active /\ Waiting' \subseteq Waiting
      BY <1>a DEF Ordered, TypeOK, Active, Waiting
    <2> QED
      BY <2>1, RoomKept, ConstantsAssumption DEF Ordered, TypeOK
  <1> QED
    BY <1>1, <1>2, <1>3, <1>4, <1>5, <1>u, OrderedAfter

\* An edge is stored between ids of rows, or not at all.
LEMMA UpsertCodeEdgeFacts ==
    ASSUME Ordered, NEW from, NEW to, UpsertCodeEdge(from, to)
    PROVE  \/ edges' = edges
           \/ {from, to} \subseteq Ids /\ edges' = edges \cup {<<from, to>>}
  BY DEF UpsertCodeEdge

LEMMA IdsTyped == ASSUME Ordered PROVE Ids \subseteq (1 .. MaxParses) \X Nat
  <1>1. ASSUME NEW k \in Keys, nodes[k] # NoNode
        PROVE  nodes[k].id \in (1 .. MaxParses) \X Nat
    <2>1. nodes[k].id \in (0 .. MaxParses) \X Nat /\ parses \in 0 .. MaxParses /\ MaxParses \in Nat
      BY ConstantsAssumption DEF Ordered, TypeOK, NodeRows
    <2>2. nodes[k].id[1] \in 1 .. parses
      BY <1>1 DEF Ordered, IdsOfParses
    <2> QED
      BY <2>1, <2>2
  <1> QED
    BY <1>1 DEF Ids

LEMMA StoreEdgeOrdered ==
    ASSUME Ordered, NEW c \in Calls, NEW ref \in todo[c], NEW applied \in BOOLEAN,
           StoreEdge(c, ref, applied)
    PROVE  Ordered'
  <1> USE DEF StoreEdge, Goto
  <1>a. \/ pc' = [pc EXCEPT ![c] = "edges"]
        \/ todo[c] = {ref} /\ pc' = [pc EXCEPT ![c] = "finish"]
    BY Zenon
  <1>t. todo'[c] = todo[c] \ {ref} /\ \A d \in Calls \ {c} : todo'[d] = todo[d] /\ pc'[d] = pc[d]
    BY <1>a DEF Ordered, TypeOK
  <1>1. StoreOK'
    <2>1. edges' \subseteq ((1 .. MaxParses) \X Nat) \X ((1 .. MaxParses) \X Nat)
      BY UpsertCodeEdgeFacts, IdsTyped DEF Ordered, TypeOK
    <2> QED
      BY <2>1 DEF Ordered, TypeOK, StoreOK
  <1>2. CallsOK'
    <2>1. pc' \in [Calls -> Locations] /\ \A d \in Calls : pc'[d] = "nodes" => pc[d] = "nodes"
      BY <1>a DEF Ordered, TypeOK, Locations, Writing
    <2>2. clean' \in [Calls -> BOOLEAN]
      BY Zenon DEF Ordered, TypeOK
    <2>3. todo' \in [Calls -> SUBSET (Symbols \X Symbols)]
      BY DEF Ordered, TypeOK
    <2> QED
      BY <2>1, <2>2, <2>3 DEF Ordered, TypeOK, CallsOK, Found
  <1>3. CallsInOrder'
    <2>1. /\ pc[c] = "edges"
          /\ \/ pc'[c] = "edges"
             \/ todo'[c] = {} /\ pc'[c] = "finish"
      <3>1. CASE pc' = [pc EXCEPT ![c] = "edges"]
        BY <3>1 DEF Ordered, TypeOK
      <3>2. CASE todo[c] = {ref} /\ pc' = [pc EXCEPT ![c] = "finish"]
        BY <3>2, <1>t DEF Ordered, TypeOK
      <3> QED
        BY <1>a, <3>1, <3>2
    <2>2. todo'[c] \subseteq Called(c)
      BY <1>t DEF Ordered, CallsInOrder
    <2>3. \A d \in Calls : /\ path'[d] = path[d] /\ lang'[d] = lang[d] /\ hash'[d] = hash[d]
                           /\ parse'[d] = parse[d] /\ parses' = parses /\ next'[d] = next[d]
                           /\ Found(d)' = Found(d) /\ Called(d)' = Called(d)
      BY DEF Found, Called
    <2> QED
      BY <2>1, <2>2, <2>3, <1>t DEF Ordered, CallsInOrder, Unparsed
  <1>4. (ParsesDiffer /\ IdsOfParses)'
    BY DEF Ordered, ParsesDiffer, IdsOfParses
  <1>5. RoomLeft'
    <2>1. Active' \subseteq Active /\ Waiting' \subseteq Waiting
      BY <1>a DEF Ordered, TypeOK, Active, Waiting
    <2> QED
      BY <2>1, RoomKept, ConstantsAssumption DEF Ordered, TypeOK
  <1> QED
    BY <1>1, <1>2, <1>3, <1>4, <1>5, OrderedAfter

LEMMA EditFileOrdered == ASSUME Ordered, NEW p \in Paths, EditFile(p) PROVE Ordered'
  <1> USE DEF EditFile, store, call, history
  <1>1. (StoreOK /\ CallsOK)'
    BY DEF Ordered, TypeOK, StoreOK, CallsOK, Found
  <1>2. (CallsInOrder /\ ParsesDiffer /\ IdsOfParses /\ RoomLeft)'
    BY DEF Ordered, CallsInOrder, ParsesDiffer, IdsOfParses, RoomLeft, Active, Waiting, Found, Called
  <1> QED
    BY <1>1, <1>2, OrderedAfter

LEMMA CrashOrdered == ASSUME Ordered, Crash PROVE Ordered'
  <1> USE ConstantsAssumption DEF Crash, store
  <1>1. (StoreOK /\ CallsOK)'
    BY DEF Ordered, TypeOK, StoreOK, CallsOK, Locations
  <1>2. (CallsInOrder /\ ParsesDiffer /\ IdsOfParses)'
    BY DEF Ordered, TypeOK, CallsInOrder, ParsesDiffer, IdsOfParses, Unparsed
  <1>3. RoomLeft'
    <2>1. Active' = {} /\ Waiting' = {}
      BY DEF Active, Waiting
    <2> QED
      BY <2>1, RoomKept DEF Ordered, TypeOK
  <1> QED
    BY <1>1, <1>2, <1>3, OrderedAfter

LEMMA NextOrdered == Ordered /\ [Next]_vars => Ordered'
  <1> SUFFICES ASSUME Ordered, [Next]_vars PROVE Ordered'
    OBVIOUS
  <1>1. ASSUME NEW c \in Calls, NEW p \in Paths, NEW l \in Languages, Begin(c, p, l) PROVE Ordered'
    BY <1>1, BeginOrdered
  <1>2. ASSUME NEW c \in Calls, Step(c) PROVE Ordered'
    BY <1>2, AbandonOrdered, LocalOrdered, MarkPendingOrdered, ParseOrdered, StoreNodeOrdered,
       StoreEdgeOrdered, MarkDoneOrdered, MarkErrorOrdered DEF Step
  <1>3. ASSUME NEW c \in Calls, Fault(c) PROVE Ordered'
    BY <1>3, LocalOrdered, MarkPendingOrdered, StoreNodeFailsOrdered, StoreEdgeOrdered,
       MarkDoneOrdered, MarkErrorOrdered DEF Fault
  <1>4. ASSUME NEW p \in Paths, EditFile(p) PROVE Ordered'
    BY <1>4, EditFileOrdered
  <1>5. CASE UNCHANGED vars
    <2>1. (StoreOK /\ CallsOK)'
      BY <1>5 DEF vars, Ordered, TypeOK, StoreOK, CallsOK, Found
    <2>2. (CallsInOrder /\ ParsesDiffer /\ IdsOfParses /\ RoomLeft)'
      BY <1>5 DEF vars, Ordered, CallsInOrder, ParsesDiffer, IdsOfParses, RoomLeft, Active, Waiting,
                  Found, Called
    <2> QED
      BY <2>1, <2>2, OrderedAfter
  <1> QED
    BY <1>1, <1>2, <1>3, <1>4, <1>5, CrashOrdered DEF Next

\* What a call holds at each of its locations, and which parse numbers can
\* still be met, whatever overlaps or fails.
THEOREM OrderedInvariance == Spec => []Ordered
  BY InitOrdered, NextOrdered, PTL DEF Spec

\* The variables of ingestFile and its three tables keep their types; no call
\* leaves the nodes it has found.
THEOREM TypeCorrect == Spec => []TypeOK
  <1>1. Ordered => TypeOK
    BY DEF Ordered
  <1> QED
    BY <1>1, OrderedInvariance, PTL

-----------------------------------------------------------------------------
\* Joined: rows keep their ids, and edges join rows of one parse.

\* The only step that changes rows is a round of the loop over the nodes.
LEMMA NodesStep ==
    ASSUME [Next]_vars
    PROVE  \/ nodes' = nodes
           \/ \E c \in Calls :
                 /\ pc[c] = "nodes" /\ UpsertCodeNode(c)
                 /\ UNCHANGED <<jobs, edges, parses, suspect, last>>
                 /\ StoreNode(c) \/ Return(c)
  <1> DEFINE Conclusion ==
        \/ nodes' = nodes
        \/ \E c \in Calls :
              /\ pc[c] = "nodes" /\ UpsertCodeNode(c)
              /\ UNCHANGED <<jobs, edges, parses, suspect, last>>
              /\ StoreNode(c) \/ Return(c)
  <1>1. ASSUME NEW c \in Calls, NEW p \in Paths, NEW l \in Languages, Begin(c, p, l)
        PROVE  nodes' = nodes
    BY <1>1 DEF Begin, store
  <1>2. ASSUME NEW c \in Calls, StoreNode(c) PROVE Conclusion
    BY <1>2 DEF StoreNode, history
  <1>3. ASSUME NEW c \in Calls, NEW written \in BOOLEAN, StoreNodeFails(c, written) PROVE Conclusion
    BY <1>3 DEF StoreNodeFails
  <1>4. ASSUME NEW c \in Calls, Step(c) PROVE Conclusion
    BY <1>4, <1>2 DEF Step, SkipUnchanged, Proceed, MarkPending, Parse, ParseFails, RefuseLanguage,
                      Embed, StoreEdge, MarkDone, MarkError, store
  <1>5. ASSUME NEW c \in Calls, Fault(c) PROVE Conclusion
    BY <1>5, <1>3 DEF Fault, Proceed, MarkPending, Embed, StoreEdge, MarkDone, MarkError, store
  <1>6. CASE (\E p \in Paths : EditFile(p)) \/ Crash \/ UNCHANGED vars
    BY <1>6 DEF EditFile, Crash, vars, store
  <1> QED
    BY <1>1, <1>4, <1>5, <1>6 DEF Next

\* A step leaves a row as it is, keeps its id, or inserts it.
LEMMA RowStep ==
    ASSUME Ordered, [Next]_vars, NEW k \in Keys
    PROVE  \/ nodes'[k] = nodes[k]
           \/ nodes[k] # NoNode /\ nodes'[k] # NoNode /\ nodes'[k].id = nodes[k].id
           \/ \E c \in Calls :
                 /\ pc[c] = "nodes" /\ nodes[k] = NoNode /\ k = Key(c)
                 /\ nodes'[k].id = <<parse[c], next[c]>> /\ next[c] \in DOMAIN Found(c)
                 /\ parse[c] \in 1 .. parses
                 /\ StoreNode(c) \/ Return(c)
  <1>1. CASE nodes' = nodes
    BY <1>1
  <1>2. ASSUME NEW c \in Calls, pc[c] = "nodes", UpsertCodeNode(c), UNCHANGED parses,
               k = Key(c), nodes[k] # NoNode
        PROVE  nodes'[k] # NoNode /\ nodes'[k].id = nodes[k].id
    <2>1. nodes'[k] = [id |-> nodes[k].id, of |-> hash[c]]
      BY <1>2, UpsertFacts
    <2>2. hash[c] # None
      BY <1>2, CallFacts, ConstantsAssumption
    <2> QED
      BY <2>1, <2>2 DEF NoNode
  <1>3. ASSUME NEW c \in Calls, pc[c] = "nodes", UpsertCodeNode(c), UNCHANGED parses,
               k = Key(c), nodes[k] = NoNode
        PROVE  /\ nodes'[k].id = <<parse[c], next[c]>> /\ next[c] \in DOMAIN Found(c)
               /\ parse[c] \in 1 .. parses
    <2>1. nodes'[k] = [id |-> <<parse[c], next[c]>>, of |-> hash[c]]
      BY <1>3, UpsertFacts
    <2>2. next[c] \in DOMAIN Found(c) /\ parse[c] \in 1 .. parses
      BY <1>3, UpsertFacts
    <2> QED
      BY <2>1, <2>2
  <1>4. ASSUME NEW c \in Calls, pc[c] = "nodes", UpsertCodeNode(c), UNCHANGED parses, k # Key(c)
        PROVE  nodes'[k] = nodes[k]
    BY <1>4, UpsertFacts
  <1> QED
    BY <1>1, <1>2, <1>3, <1>4, NodesStep

\* A row keeps the id it was inserted with, whatever parse an update comes
\* from.
LEMMA IdsKeptStep ==
    Ordered /\ [Next]_vars =>
        \A k \in Keys : nodes[k] # NoNode => nodes'[k] # NoNode /\ nodes'[k].id = nodes[k].id
  BY RowStep

\* So an id that some row has is never lost.
LEMMA IdsGrow == ASSUME Ordered, [Next]_vars PROVE Ids \subseteq Ids'
  BY IdsKeptStep DEF Ids

\* The only step that changes edges is one of the loop over them.
LEMMA EdgesStep ==
    ASSUME [Next]_vars
    PROVE  \/ edges' = edges
           \/ \E c \in Calls : \E ref \in todo[c] :
                 /\ StoreEdge(c, ref, TRUE)
                 /\ UpsertCodeEdge(IdOf(c, ref[1]), IdOf(c, ref[2]))
  <1> DEFINE Conclusion ==
        \/ edges' = edges
        \/ \E c \in Calls : \E ref \in todo[c] :
              /\ StoreEdge(c, ref, TRUE)
              /\ UpsertCodeEdge(IdOf(c, ref[1]), IdOf(c, ref[2]))
  <1>1. ASSUME NEW c \in Calls, NEW p \in Paths, NEW l \in Languages, Begin(c, p, l)
        PROVE  edges' = edges
    BY <1>1 DEF Begin, store
  <1>2. ASSUME NEW c \in Calls, NEW ref \in todo[c], NEW applied \in BOOLEAN, StoreEdge(c, ref, applied)
        PROVE Conclusion
    <2>1. CASE applied = TRUE
      BY <1>2, <2>1 DEF StoreEdge
    <2>2. CASE applied = FALSE
      BY <1>2, <2>2 DEF StoreEdge
    <2> QED
      BY <2>1, <2>2
  <1>4. ASSUME NEW c \in Calls, Step(c) PROVE Conclusion
    BY <1>4, <1>2 DEF Step, SkipUnchanged, Proceed, MarkPending, Parse, ParseFails, RefuseLanguage,
                      Embed, StoreNode, MarkDone, MarkError, store
  <1>5. ASSUME NEW c \in Calls, Fault(c) PROVE Conclusion
    BY <1>5, <1>2 DEF Fault, Proceed, MarkPending, Embed, StoreNodeFails, MarkDone, MarkError, store
  <1>6. CASE (\E p \in Paths : EditFile(p)) \/ Crash \/ UNCHANGED vars
    BY <1>6 DEF EditFile, Crash, vars, store
  <1> QED
    BY <1>1, <1>4, <1>5, <1>6 DEF Next

\* What a step does to the call that another step may be about: it leaves
\* what the call works on alone, ends or begins the call, or makes its parse.
LEMMA CallStep ==
    ASSUME Ordered, [Next]_vars, NEW d \in Calls
    PROVE  \/ /\ path'[d] = path[d] /\ lang'[d] = lang[d] /\ hash'[d] = hash[d]
              /\ parse'[d] = parse[d]
           \/ parse'[d] = 0
           \/ parse'[d] = parses + 1 /\ nodes' = nodes
  <1> DEFINE Same(e) ==
        /\ path'[e] = path[e] /\ lang'[e] = lang[e] /\ hash'[e] = hash[e] /\ parse'[e] = parse[e]
  <1>r. ASSUME NEW c \in Calls, Return(c)
        PROVE  Same(d) \/ parse'[d] = 0
    BY <1>r, ReturnFacts
  <1>1. ASSUME NEW c \in Calls, NEW p \in Paths, NEW l \in Languages, Begin(c, p, l)
        PROVE  Same(d) \/ parse'[d] = 0
    BY <1>1 DEF Begin, Ordered, TypeOK, CallsInOrder, Unparsed
  <1>2. ASSUME NEW c \in Calls, Parse(c)
        PROVE  Same(d) \/ (parse'[d] = parses + 1 /\ nodes' = nodes)
    BY <1>2 DEF Parse, Ordered, TypeOK, store
  <1>3. ASSUME NEW c \in Calls,
               \/ \E b \in BOOLEAN : Proceed(c, b) \/ MarkPending(c, b) \/ Embed(c, b)
               \/ ParseFails(c)
               \/ StoreNode(c)
               \/ \E ref \in todo[c], b \in BOOLEAN : StoreEdge(c, ref, b)
        PROVE  Same(d)
    BY <1>3 DEF Proceed, MarkPending, ParseFails, Embed, StoreNode, StoreEdge
  <1>4. ASSUME NEW c \in Calls,
               \/ SkipUnchanged(c)
               \/ RefuseLanguage(c)
               \/ \E b \in BOOLEAN : MarkError(c, b) \/ MarkDone(c, b) \/ StoreNodeFails(c, b)
        PROVE  Return(c)
    BY <1>4 DEF SkipUnchanged, RefuseLanguage, MarkError, MarkDone, StoreNodeFails
  <1>5. ASSUME NEW c \in Calls, Step(c)
        PROVE  Same(d) \/ parse'[d] = 0 \/ (parse'[d] = parses + 1 /\ nodes' = nodes)
    BY <1>5, <1>r, <1>2, <1>3, <1>4 DEF Step
  <1>6. ASSUME NEW c \in Calls, Fault(c)
        PROVE  Same(d) \/ parse'[d] = 0
    BY <1>6, <1>r, <1>3, <1>4 DEF Fault
  <1>7. CASE (\E p \in Paths : EditFile(p)) \/ UNCHANGED vars
    BY <1>7 DEF EditFile, vars, call
  <1>8. CASE Crash
    BY <1>8 DEF Crash
  <1> QED
    BY <1>1, <1>5, <1>6, <1>7, <1>8 DEF Next

LEMMA RowsOfCallStep == ASSUME Ordered, RowsOfCall, [Next]_vars PROVE RowsOfCall'
  <1> SUFFICES ASSUME NEW d \in Calls, NEW k \in Keys,
                      parse'[d] # 0, nodes'[k].id[1] = parse'[d]
               PROVE  /\ k[1] = path'[d] /\ k[2] = lang'[d]
                      /\ nodes'[k].id[2] \in DOMAIN Found(d)'
                      /\ Found(d)'[nodes'[k].id[2]] = k[3]
    BY Zenon DEF RowsOfCall
  <1>1. CASE parse'[d] = parses + 1 /\ nodes' = nodes
    <2>1. nodes[k].id[1] \in 0 .. parses /\ parses \in Nat
      BY DEF Ordered, TypeOK, IdsOfParses, NodeRows, NoNode
    <2> QED
      BY <1>1, <2>1
  <1>2. CASE /\ path'[d] = path[d] /\ lang'[d] = lang[d] /\ hash'[d] = hash[d]
             /\ parse'[d] = parse[d]
    <2>1. Found(d)' = Found(d)
      BY <1>2 DEF Found
    <2>2. CASE nodes'[k].id = nodes[k].id
      BY <1>2, <2>1, <2>2 DEF RowsOfCall
    <2>3. ASSUME NEW c \in Calls, k = Key(c), nodes'[k].id = <<parse[c], next[c]>>,
                 next[c] \in DOMAIN Found(c), parse[c] \in 1 .. parses
          PROVE  /\ k[1] = path[d] /\ k[2] = lang[d]
                 /\ nodes'[k].id[2] \in DOMAIN Found(d)
                 /\ Found(d)[nodes'[k].id[2]] = k[3]
      <3>1. c = d
        BY <1>2, <2>3 DEF Ordered, ParsesDiffer
      <3> QED
        BY <2>3, <3>1 DEF Key
    <2> QED
      BY <1>2, <2>1, <2>2, <2>3, RowStep
  <1> QED
    BY <1>1, <1>2, CallStep

LEMMA EdgesJoinRowsStep == ASSUME Ordered, EdgesJoinRows, [Next]_vars PROVE EdgesJoinRows'
  <1>1. \A e \in edges : {e[1], e[2]} \subseteq Ids' /\ e[1][1] = e[2][1]
    BY IdsGrow DEF EdgesJoinRows
  <1>2. ASSUME NEW c \in Calls, NEW ref \in todo[c],
               UpsertCodeEdge(IdOf(c, ref[1]), IdOf(c, ref[2]))
        PROVE  EdgesJoinRows'
    <2> DEFINE from == IdOf(c, ref[1])
               to == IdOf(c, ref[2])
    <2>1. from[1] = parse[c] /\ to[1] = parse[c]
      BY DEF IdOf
    <2> HIDE DEF from, to
    <2>2. \/ edges' = edges
          \/ {from, to} \subseteq Ids /\ edges' = edges \cup {<<from, to>>}
      BY <1>2, UpsertCodeEdgeFacts DEF from, to
    <2> QED
      BY <1>1, <2>1, <2>2, IdsGrow DEF EdgesJoinRows
  <1>3. CASE edges' = edges
    BY <1>1, <1>3 DEF EdgesJoinRows
  <1> QED
    BY <1>2, <1>3, EdgesStep

THEOREM JoinedInvariance == Spec => []Joined
  <1>1. Init => Joined
    BY DEF Init, Joined, RowsOfCall, EdgesJoinRows
  <1>2. Ordered /\ Joined /\ [Next]_vars => Joined'
    BY RowsOfCallStep, EdgesJoinRowsStep DEF Joined
  <1> QED
    BY <1>1, <1>2, OrderedInvariance, PTL DEF Spec

\* Every edge that UpsertCodeEdge has let in joins two rows that one parse of
\* one file inserted: the foreign keys hold and ids are never lost.
THEOREM EdgesJoined == Spec => []EdgesJoinRows
  <1>1. Joined => EdgesJoinRows
    BY DEF Joined
  <1> QED
    BY <1>1, JoinedInvariance, PTL

-----------------------------------------------------------------------------
\* Complete: what a clean call may count on, and what "done" is worth.

\* A call that is writing after the step was writing before it, on the same
\* work, and has not stored a node meanwhile.
Onward(d) ==
    pc'[d] \in Writing =>
        /\ pc[d] \in Writing
        /\ path'[d] = path[d] /\ lang'[d] = lang[d] /\ hash'[d] = hash[d]
        /\ clean'[d] => clean[d]
        /\ pc'[d] = "nodes" =>
              \/ next'[d] = 1
              \/ pc[d] = "nodes" /\ next'[d] = next[d]
        /\ pc'[d] \in {"edges", "finish"} =>
              \/ pc[d] \in {"edges", "finish"}
              \/ Found(d) = <<>>

\* A step at which calls go onward, that writes no row of code_nodes and puts
\* no job row at "done".
LEMMA OnwardComplete ==
    ASSUME Ordered, Complete, \A d \in Calls : Onward(d), nodes' = nodes,
           \A p \in Paths : jobs'[p].status = "done" =>
               jobs'[p] = jobs[p] /\ (suspect[p] => suspect'[p])
    PROVE  Complete'
  <1>p. \A d \in Calls : pc[d] \in Writing => path[d] \in Paths
    BY DEF Ordered, CallsInOrder, Writing
  <1>1. DoneHasHash'
    BY DEF Complete, DoneHasHash
  <1>2. CleanIsAlone'
    BY <1>p DEF Complete, CleanIsAlone, Onward
  <1>3. UncleanIsSuspect'
    BY <1>p DEF Complete, CleanIsAlone, UncleanIsSuspect, Onward
  <1>4. DoneHasNodes'
    BY DEF Complete, DoneHasNodes
  <1>5. CleanNodes'
    <2> SUFFICES ASSUME NEW d \in Calls, clean'[d], pc'[d] \in {"nodes", "edges", "finish"}
                 PROVE  /\ pc'[d] = "nodes" =>
                              HasNodes(path[d], lang[d], hash[d], next[d] - 1)'
                        /\ pc'[d] \in {"edges", "finish"} =>
                              HasNodes(path[d], lang[d], hash[d], Len(Found(d)))'
      BY DEF CleanNodes
    <2>1. /\ clean[d] /\ path'[d] = path[d] /\ lang'[d] = lang[d] /\ hash'[d] = hash[d]
          /\ Found(d)' = Found(d)
      BY DEF Onward, Writing, Found
    <2>2. \A v : HasNodes(path[d], lang[d], v, 0)
      BY DEF HasNodes
    <2>3. ASSUME pc'[d] = "nodes" PROVE HasNodes(path[d], lang[d], hash[d], next'[d] - 1)
      BY <2>1, <2>2, <2>3 DEF Onward, Writing, Complete, CleanNodes
    <2>4. ASSUME pc'[d] \in {"edges", "finish"} PROVE HasNodes(path[d], lang[d], hash[d], Len(Found(d)))
      <3>1. CASE pc[d] \in {"edges", "finish"}
        BY <2>1, <3>1 DEF Complete, CleanNodes
      <3>2. CASE Found(d) = <<>>
        BY <3>2, <2>2
      <3> QED
        BY <2>4, <3>1, <3>2 DEF Onward, Writing
    <2> QED
      BY <2>1, <2>3, <2>4 DEF HasNodes
  <1> QED
    BY <1>1, <1>2, <1>3, <1>4, <1>5 DEF Complete

LEMMA InitComplete == Init => Complete
  BY DEF Init, NoJob, Complete, DoneHasHash, CleanIsAlone, CleanNodes, UncleanIsSuspect, DoneHasNodes,
         Writing

\* After a return, the other calls are where they were.
LEMMA ReturnOnward ==
    ASSUME Ordered, NEW c \in Calls, Return(c) PROVE \A d \in Calls : Onward(d)
  BY ReturnFacts DEF Onward, Writing

\* The steps that touch no row of code_nodes and no job row, and MarkError.
LEMMA QuietComplete ==
    ASSUME Ordered, Complete, NEW c \in Calls,
           \/ \E p \in Paths, l \in Languages : Begin(c, p, l)
           \/ SkipUnchanged(c)
           \/ Parse(c)
           \/ ParseFails(c)
           \/ RefuseLanguage(c)
           \/ \E b \in BOOLEAN : Proceed(c, b) \/ Embed(c, b) \/ MarkError(c, b)
           \/ \E ref \in todo[c], b \in BOOLEAN : StoreEdge(c, ref, b)
    PROVE  Complete'
  <1>1. CASE \E p \in Paths, l \in Languages : Begin(c, p, l)
    <2>1. \A d \in Calls : Onward(d)
      BY <1>1 DEF Begin, Goto, Onward, Writing, Ordered, TypeOK, history
    <2> QED
      BY <1>1, <2>1, OnwardComplete DEF Begin, store, history
  <1>2. CASE SkipUnchanged(c) \/ RefuseLanguage(c)
    <2>1. Return(c) /\ UNCHANGED <<nodes, jobs, suspect>>
      BY <1>2 DEF SkipUnchanged, RefuseLanguage, store
    <2> QED
      BY <2>1, ReturnOnward, OnwardComplete
  <1>3. CASE Parse(c)
    <2>1. \/ Found(c) = <<>> /\ pc' = [pc EXCEPT ![c] = "finish"]
          \/ pc' = [pc EXCEPT ![c] = "embed"]
      BY <1>3 DEF Parse, Goto
    <2>2. UNCHANGED <<path, lang, hash, next, clean, nodes, jobs, suspect>> /\ pc[c] = "parse"
      BY <1>3 DEF Parse, store, history
    <2>3. \A d \in Calls : Onward(d)
      BY <2>1, <2>2 DEF Onward, Writing, Ordered, TypeOK
    <2> QED
      BY <2>2, <2>3, OnwardComplete
  <1>4. CASE ParseFails(c) \/ \E b \in BOOLEAN : Proceed(c, b) \/ Embed(c, b)
    <2>1. /\ pc[c] = "check" => pc' = [pc EXCEPT ![c] = "mark"]
          /\ pc[c] = "parse" => pc' = [pc EXCEPT ![c] = "fail"]
          /\ pc[c] = "embed" => \/ pc' = [pc EXCEPT ![c] = "nodes"]
                                \/ pc' = [pc EXCEPT ![c] = "fail"]
          /\ pc[c] \in {"check", "parse", "embed"}
      BY <1>4 DEF ParseFails, Proceed, Embed, Goto
    <2>2. UNCHANGED <<path, lang, hash, next, clean, nodes, jobs, suspect>>
      BY <1>4 DEF ParseFails, Proceed, Embed, store, history
    <2>3. next[c] = 1
      BY <2>1 DEF Ordered, CallsInOrder
    <2>4. \A d \in Calls : Onward(d)
      BY <2>1, <2>2, <2>3 DEF Onward, Writing, Ordered, TypeOK
    <2> QED
      BY <2>2, <2>4, OnwardComplete
  <1>5. ASSUME NEW b \in BOOLEAN, MarkError(c, b) PROVE Complete'
    <2>1. \A p \in Paths : jobs'[p].status = "done" => jobs'[p] = jobs[p]
      BY <1>5 DEF MarkError, UpsertIngestJob, Job, Ordered, TypeOK
    <2>2. Return(c) /\ UNCHANGED <<nodes, suspect>>
      BY <1>5 DEF MarkError
    <2> QED
      BY <2>1, <2>2, ReturnOnward, OnwardComplete
  <1>6. ASSUME NEW ref \in todo[c], NEW b \in BOOLEAN, StoreEdge(c, ref, b) PROVE Complete'
    <2>1. /\ pc[c] = "edges"
          /\ \/ pc' = [pc EXCEPT ![c] = "edges"]
             \/ pc' = [pc EXCEPT ![c] = "finish"]
      BY <1>6, Zenon DEF StoreEdge, Goto
    <2>2. UNCHANGED <<path, lang, hash, next, nodes, jobs, suspect>>
      BY <1>6 DEF StoreEdge
    <2>3. \A d \in Calls : clean'[d] => clean[d]
      BY <1>6 DEF StoreEdge, Ordered, TypeOK
    <2>4. \A d \in Calls : Onward(d)
      BY <2>1, <2>2, <2>3 DEF Onward, Writing, Ordered, TypeOK
    <2> QED
      BY <2>2, <2>4, OnwardComplete
  <1> QED
    BY <1>1, <1>2, <1>3, <1>4, <1>5, <1>6

LEMMA MarkPendingComplete ==
    ASSUME Ordered, Complete, NEW c \in Calls, NEW applied \in BOOLEAN, MarkPending(c, applied)
    PROVE  Complete'
  <1> USE DEF MarkPending, UpsertIngestJob, Goto
  <1>p. path[c] \in Paths /\ hash[c] \in Versions
    BY CallFacts
  <1>j. \A p \in Paths :
            /\ p # path[c] => jobs'[p] = jobs[p] /\ suspect'[p] = suspect[p]
            /\ jobs'[p].status = "done" => jobs'[p] = jobs[p]
            /\ suspect[p] => suspect'[p]
            /\ p = path[c] /\ jobs'[p].status = "done" => suspect'[p]
    BY <1>p DEF Ordered, TypeOK, Job
  <1>s. \A d \in Calls : path'[d] = path[d] /\ (d # c => pc'[d] = pc[d])
    BY DEF Ordered, TypeOK
  <1>c. \A d \in Calls \ {c} : clean'[d] <=> clean[d] /\ d \notin Rivals(c)
    BY DEF Ordered, TypeOK
  <1>r. \A d \in Calls \ {c} : path[d] = path[c] /\ pc[d] \in Writing => ~clean'[c] /\ ~clean'[d]
    BY DEF Ordered, TypeOK, Rivals
  <1>1. DoneHasHash'
    BY <1>j DEF Complete, DoneHasHash
  <1>2. CleanIsAlone'
    <2>1. clean'[c] => jobs'[path[c]].status # "done"
      BY <1>p DEF Ordered, TypeOK, Job
    <2> QED
      BY <2>1, <1>s, <1>c, <1>r, <1>p, <1>j DEF Ordered, Complete, CleanIsAlone, CallsInOrder, Writing
  <1>3. UncleanIsSuspect'
    BY <1>p, <1>j, <1>s, <1>c DEF Ordered, CallsInOrder, Complete, UncleanIsSuspect, CleanIsAlone,
                                  Rivals, Writing
  <1>4. DoneHasNodes'
    BY <1>j DEF Complete, DoneHasNodes
  <1>5. CleanNodes'
    <2>1. pc'[c] = "parse"
      BY DEF Ordered, TypeOK
    <2>2. \A d \in Calls : Found(d)' = Found(d)
      BY DEF Found
    <2>3. \A p, l, v, n : HasNodes(p, l, v, n)' <=> HasNodes(p, l, v, n)
      BY DEF HasNodes
    <2> QED
      BY <2>1, <2>2, <2>3, <1>s, <1>c DEF Complete, CleanNodes
  <1> QED
    BY <1>1, <1>2, <1>3, <1>4, <1>5 DEF Complete

\* The rows of other paths are left alone by a call that stores a node, its
\* own path makes no claim, and no other clean call is there.
LEMMA NodeStored ==
    ASSUME Ordered, Complete, NEW c \in Calls, pc[c] = "nodes",
           UpsertCodeNode(c), UNCHANGED parses
    PROVE  /\ \A p \in Paths \ {path[c]}, l \in Languages, s \in Symbols :
                  nodes'[<<p, l, s>>] = nodes[<<p, l, s>>]
           /\ jobs[path[c]].status = "done" => suspect[path[c]]
           /\ \A d \in Calls \ {c} : clean[d] /\ pc[d] \in Writing => path[d] # path[c]
           /\ UNCHANGED <<jobs, suspect>> => DoneHasNodes'
  <1>1. \A p \in Paths \ {path[c]}, l \in Languages, s \in Symbols : nodes'[<<p, l, s>>] = nodes[<<p, l, s>>]
    BY UpsertFacts DEF Keys, Key
  <1>2. jobs[path[c]].status = "done" => suspect[path[c]]
    BY DEF Complete, CleanIsAlone, UncleanIsSuspect, Writing
  <1>3. \A d \in Calls \ {c} : clean[d] /\ pc[d] \in Writing => path[d] # path[c]
    BY DEF Complete, CleanIsAlone, Writing
  <1>4. ASSUME UNCHANGED <<jobs, suspect>> PROVE DoneHasNodes'
    <2> SUFFICES ASSUME NEW p \in Paths, jobs[p].status = "done", ~suspect[p],
                        NEW i \in DOMAIN Defs[jobs[p].hash][jobs[p].lang]
                 PROVE  nodes'[<<p, jobs[p].lang, Defs[jobs[p].hash][jobs[p].lang][i]>>].of = jobs[p].hash
      BY <1>4 DEF DoneHasNodes
    <2>1. p # path[c] /\ jobs[p].hash \in Versions /\ jobs[p].lang \in Languages
      BY <1>2 DEF Complete, DoneHasHash
    <2>2. Defs[jobs[p].hash][jobs[p].lang] \in Seq(Symbols)
      <3>1. \A v \in Versions, l \in Languages : Defs[v][l] \in Seq(Symbols)
        BY ConstantsAssumption
      <3> QED
        BY <2>1, <3>1
    <2>3. Defs[jobs[p].hash][jobs[p].lang][i] \in Symbols
      BY <2>2
    <2> QED
      BY <1>1, <2>1, <2>3 DEF Complete, DoneHasNodes
  <1> QED
    BY <1>1, <1>2, <1>3, <1>4

\* The rows of a call on another path are what they were.
LEMMA ElsewhereHasNodes ==
    ASSUME Ordered, Complete, NEW c \in Calls, pc[c] = "nodes",
           UpsertCodeNode(c), UNCHANGED parses,
           NEW d \in Calls \ {c}, clean[d], pc[d] \in {"nodes", "edges", "finish"}
    PROVE  /\ pc[d] = "nodes" =>
                 \A i \in 1 .. next[d] - 1 : nodes'[<<path[d], lang[d], Found(d)[i]>>].of = hash[d]
           /\ pc[d] \in {"edges", "finish"} =>
                 \A i \in 1 .. Len(Found(d)) : nodes'[<<path[d], lang[d], Found(d)[i]>>].of = hash[d]
  <1>1. path[d] \in Paths \ {path[c]} /\ lang[d] \in Languages /\ Found(d) \in Seq(Symbols)
    BY NodeStored, CallFacts DEF Writing
  <1>2. \A i \in DOMAIN Found(d) : nodes'[<<path[d], lang[d], Found(d)[i]>>] = nodes[<<path[d], lang[d], Found(d)[i]>>]
    BY <1>1, NodeStored
  <1>3. pc[d] = "nodes" => next[d] \in DOMAIN Found(d)
    BY DEF Ordered, TypeOK
  <1>4. ASSUME pc[d] = "nodes"
        PROVE  \A i \in 1 .. next[d] - 1 : nodes'[<<path[d], lang[d], Found(d)[i]>>].of = hash[d]
    <2>1. \A i \in 1 .. next[d] - 1 : i \in DOMAIN Found(d)
      BY <1>1, <1>3, <1>4
    <2> QED
      BY <1>2, <1>4, <2>1 DEF Complete, CleanNodes, HasNodes, Found
  <1>5. ASSUME pc[d] \in {"edges", "finish"}
        PROVE  \A i \in 1 .. Len(Found(d)) : nodes'[<<path[d], lang[d], Found(d)[i]>>].of = hash[d]
    <2>1. HasNodes(path[d], lang[d], hash[d], Len(Found(d)))
      BY <1>5 DEF Complete, CleanNodes
    <2>2. \A i \in 1 .. Len(Found(d)) : i \in DOMAIN Found(d)
      BY <1>1
    <2> QED
      BY <1>2, <2>1, <2>2 DEF HasNodes, Found
  <1> QED
    BY <1>4, <1>5

\* A round of the loop extends the rows of a clean call by one.
LEMMA StoreNodeComplete == ASSUME Ordered, Complete, NEW c \in Calls, StoreNode(c) PROVE Complete'
  <1>s. /\ pc[c] = "nodes" /\ UpsertCodeNode(c)
        /\ UNCHANGED <<jobs, parses, path, lang, hash, clean, suspect>>
    BY DEF StoreNode, history
  <1>f. /\ Found(c) \in Seq(Symbols) /\ next[c] \in DOMAIN Found(c)
        /\ path[c] \in Paths /\ lang[c] \in Languages /\ hash[c] \in Versions
    BY <1>s, CallFacts, UpsertFacts
  <1>n. Len(Found(c)) \in Nat /\ next[c] \in 1 .. Len(Found(c))
    BY <1>f
  <1>o. \A d \in Calls \ {c} : pc'[d] = pc[d] /\ next'[d] = next[d]
    BY DEF StoreNode, Goto, Ordered, TypeOK
  <1>c. \/ next[c] = Len(Found(c)) /\ pc'[c] \in {"edges", "finish"}
        \/ pc'[c] = "nodes" /\ next'[c] = next[c] + 1
    <2>1. CASE next[c] = Len(Found(c))
      <3>1. pc' = [pc EXCEPT ![c] = IF Called(c) = {} THEN "finish" ELSE "edges"]
        BY <2>1, Zenon DEF StoreNode, Goto
      <3> QED
        BY <2>1, <3>1 DEF Ordered, TypeOK
    <2>2. CASE next[c] # Len(Found(c))
      <3>1. pc' = [pc EXCEPT ![c] = "nodes"] /\ next' = [next EXCEPT ![c] = next[c] + 1]
        BY <2>2, Zenon DEF StoreNode, Goto
      <3> QED
        BY <3>1 DEF Ordered, TypeOK
    <2> QED
      BY <2>1, <2>2
  <1>1. DoneHasHash'
    BY <1>s DEF Complete, DoneHasHash
  <1>2. (CleanIsAlone /\ UncleanIsSuspect)'
    BY <1>s, <1>o DEF Complete, CleanIsAlone, UncleanIsSuspect, Writing
  <1>3. DoneHasNodes'
    BY <1>s, NodeStored
  <1>4. CleanNodes'
    <2>1. ASSUME clean[c]
          PROVE  \A i \in 1 .. next[c] : nodes'[<<path[c], lang[c], Found(c)[i]>>].of = hash[c]
      <3>1. nodes'[Key(c)].of = hash[c]
        <4>1. \E n : nodes'[Key(c)] = [id |-> n, of |-> hash[c]]
          BY <1>s, UpsertFacts
        <4> QED
          BY <4>1
      <3>2. ASSUME NEW i \in 1 .. next[c] - 1
            PROVE  nodes'[<<path[c], lang[c], Found(c)[i]>>].of = hash[c]
        <4> DEFINE k == <<path[c], lang[c], Found(c)[i]>>
        <4>1. nodes[k].of = hash[c]
          BY <2>1, <1>s DEF Complete, CleanNodes, HasNodes, Found
        <4>2. k \in Keys
          BY <1>f, <1>n DEF Keys
        <4>3. nodes'[k] = nodes[k] \/ k = Key(c)
          BY <4>2, <1>s, UpsertFacts
        <4> QED
          BY <3>1, <4>1, <4>3
      <3>3. \A i \in 1 .. next[c] : i = next[c] \/ i \in 1 .. next[c] - 1
        BY <1>n
      <3> QED
        BY <3>1, <3>2, <3>3 DEF Key
    <2>2. ASSUME NEW d \in Calls, clean[d], pc'[d] = "nodes"
          PROVE  HasNodes(path[d], lang[d], hash[d], next[d] - 1)'
      <3>1. CASE d = c
        <4>1. next'[c] - 1 = next[c]
          BY <1>n, <1>c, <2>2, <3>1
        <4> QED
          BY <1>s, <2>1, <2>2, <3>1, <4>1 DEF HasNodes, Found
      <3>2. CASE d # c
        BY <1>s, <1>o, <2>2, <3>2, ElsewhereHasNodes DEF HasNodes, Found
      <3> QED
        BY <3>1, <3>2
    <2>3. ASSUME NEW d \in Calls, clean[d], pc'[d] \in {"edges", "finish"}
          PROVE  HasNodes(path[d], lang[d], hash[d], Len(Found(d)))'
      <3>1. CASE d = c
        BY <1>s, <1>c, <2>1, <2>3, <3>1 DEF HasNodes, Found
      <3>2. CASE d # c
        BY <1>s, <1>o, <2>3, <3>2, ElsewhereHasNodes DEF HasNodes, Found
      <3> QED
        BY <3>1, <3>2
    <2> QED
      BY <1>s, <2>2, <2>3 DEF CleanNodes
  <1> QED
    BY <1>1, <1>2, <1>3, <1>4 DEF Complete

\* A failed store breaks no claim: the path has none, or is suspect.
LEMMA StoreNodeFailsComplete ==
    ASSUME Ordered, Complete, NEW c \in Calls, NEW written \in BOOLEAN, StoreNodeFails(c, written)
    PROVE  Complete'
  <1>r. Return(c) /\ pc[c] = "nodes" /\ UNCHANGED <<jobs, parses, suspect>>
    BY DEF StoreNodeFails
  <1>1. CASE ~written
    BY <1>1, <1>r, ReturnOnward, OnwardComplete DEF StoreNodeFails
  <1>2. CASE written
    <2>u. UpsertCodeNode(c)
      BY <1>2 DEF StoreNodeFails
    <2>1. DoneHasHash'
      BY <1>r DEF Complete, DoneHasHash
    <2>2. (CleanIsAlone /\ UncleanIsSuspect)'
      BY <1>r, ReturnFacts DEF Complete, CleanIsAlone, UncleanIsSuspect, Writing
    <2>3. DoneHasNodes'
      BY <1>r, <2>u, NodeStored
    <2>4. CleanNodes'
      <3>1. ASSUME NEW d \in Calls, clean'[d], pc'[d] = "nodes"
            PROVE  HasNodes(path[d], lang[d], hash[d], next[d] - 1)'
        BY <1>r, <2>u, <3>1, ReturnFacts, ElsewhereHasNodes DEF HasNodes, Found
      <3>2. ASSUME NEW d \in Calls, clean'[d], pc'[d] \in {"edges", "finish"}
            PROVE  HasNodes(path[d], lang[d], hash[d], Len(Found(d)))'
        BY <1>r, <2>u, <3>2, ReturnFacts, ElsewhereHasNodes DEF HasNodes, Found
      <3> QED
        BY <3>1, <3>2 DEF CleanNodes
    <2> QED
      BY <2>1, <2>2, <2>3, <2>4 DEF Complete
  <1> QED
    BY <1>1, <1>2

\* The claim of a clean call is true; that of another makes the path suspect.
LEMMA MarkDoneComplete ==
    ASSUME Ordered, Complete, NEW c \in Calls, NEW applied \in BOOLEAN, MarkDone(c, applied)
    PROVE  Complete'
  <1>r. Return(c) /\ pc[c] = "finish" /\ nodes' = nodes
    BY DEF MarkDone
  <1> DEFINE p == path[c]
  <1>p. p \in Paths /\ hash[c] \in Versions /\ lang[c] \in Languages /\ Found(c) \in Seq(Symbols)
    BY <1>r, CallFacts
  <1>j. /\ \A q \in Paths \ {p} : jobs'[q] = jobs[q] /\ suspect'[q] = suspect[q]
        /\ ~applied => jobs' = jobs /\ suspect' = suspect
        /\ applied => jobs'[p] = Job("done", hash[c], lang[c]) /\ suspect'[p] = ~clean[c]
    BY <1>p DEF MarkDone, UpsertIngestJob, Ordered, TypeOK
  <1>1. DoneHasHash'
    BY <1>j, <1>p DEF Complete, DoneHasHash, Job
  <1>2. DoneHasNodes'
    <2>1. clean[c] => HasNodes(p, lang[c], hash[c], Len(Found(c)))
      BY <1>r DEF Complete, CleanNodes
    <2>2. DOMAIN Found(c) = 1 .. Len(Found(c))
      BY <1>p
    <2>3. CASE ~applied
      BY <1>r, <1>j, <2>3 DEF Complete, DoneHasNodes
    <2>4. CASE applied
      <3>1. ASSUME clean[c], NEW i \in DOMAIN Found(c)
            PROVE  nodes[<<p, lang[c], Found(c)[i]>>].of = hash[c]
        BY <2>1, <2>2, <3>1 DEF HasNodes, Found
      <3>2. /\ jobs'[p].hash = hash[c] /\ jobs'[p].lang = lang[c]
        BY <1>j, <2>4 DEF Job
      <3>3. ~suspect'[p] => clean[c]
        BY <1>j, <2>4, Zenon
      <3> QED
        BY <1>r, <1>j, <3>1, <3>2, <3>3 DEF Complete, DoneHasNodes, Found
    <2> QED
      BY <2>3, <2>4
  <1>o. \A d \in Calls \ {c} : pc[d] \in Writing /\ path[d] = p => ~clean[d] /\ ~clean[c]
    BY <1>r DEF Complete, CleanIsAlone, Writing
  <1>3. CleanIsAlone'
    BY <1>r, <1>j, <1>o, ReturnFacts DEF Ordered, Complete, CallsInOrder, CleanIsAlone, Writing
  <1>4. CleanNodes'
    BY <1>r, ReturnFacts DEF Complete, CleanNodes, HasNodes
  <1>5. UncleanIsSuspect'
    BY <1>r, <1>j, <1>o, ReturnFacts DEF Ordered, Complete, CallsInOrder, UncleanIsSuspect, Writing
  <1> QED
    BY <1>1, <1>2, <1>3, <1>4, <1>5 DEF Complete

LEMMA NextComplete == Ordered /\ Complete /\ [Next]_vars => Complete'
  <1> SUFFICES ASSUME Ordered, Complete, [Next]_vars PROVE Complete'
    OBVIOUS
  <1>1. ASSUME NEW c \in Calls, NEW p \in Paths, NEW l \in Languages, Begin(c, p, l) PROVE Complete'
    BY <1>1, QuietComplete
  <1>2. ASSUME NEW c \in Calls, Step(c) PROVE Complete'
    BY <1>2, QuietComplete, MarkPendingComplete, StoreNodeComplete, MarkDoneComplete DEF Step
  <1>3. ASSUME NEW c \in Calls, Fault(c) PROVE Complete'
    BY <1>3, QuietComplete, MarkPendingComplete, StoreNodeFailsComplete, MarkDoneComplete DEF Fault
  <1>4. CASE \/ \E p \in Paths : EditFile(p)
             \/ Crash
             \/ UNCHANGED vars
    <2>1. UNCHANGED <<nodes, jobs, suspect>>
      BY <1>4 DEF EditFile, Crash, vars, store, history
    <2>2. \A d \in Calls : Onward(d)
      BY <1>4 DEF EditFile, Crash, vars, call, history, Onward, Writing
    <2> QED
      BY <2>1, <2>2, OnwardComplete
  <1> QED
    BY <1>1, <1>2, <1>3, <1>4 DEF Next

THEOREM CompleteInvariance == Spec => []Complete
  BY InitComplete, NextComplete, OrderedInvariance, PTL DEF Spec

\* Whatever interleaves, fails or stops: a "done" row of a path that is not
\* suspect has a node row of its content for every symbol of its version, so
\* skipping the file on the next ingest loses no symbol.
THEOREM DoneComplete == Spec => []DoneHasNodes
  <1>1. Complete => DoneHasNodes
    BY DEF Complete
  <1> QED
    BY <1>1, CompleteInvariance, PTL

-----------------------------------------------------------------------------
\* Linked: which edges are there.

\* The row of a symbol that the parse of a call inserted as its last
\* definition has the id that the call uses for the symbol.
LEMMA InsertedIdOf ==
    ASSUME Ordered, RowsOfCall, NEW c \in Calls, NEW s \in Symbols,
           pc[c] # "idle", parse[c] # 0,
           Inserted(path[c], lang[c], hash[c], parse[c], s)
    PROVE  nodes[<<path[c], lang[c], s>>].id = IdOf(c, s) /\ IdOf(c, s) \in Ids
  <1> DEFINE k == <<path[c], lang[c], s>>
             n == nodes[k].id[2]
             at == {i \in DOMAIN Found(c) : Found(c)[i] = s}
  <1>k. k \in Keys
    BY CallFacts DEF Keys
  <1>1. nodes[k].id \in (0 .. MaxParses) \X Nat
    BY <1>k DEF Ordered, TypeOK, NodeRows
  <1>2. nodes[k].id = <<parse[c], n>>
    BY <1>1 DEF Inserted
  <1>3. n \in at /\ \A i \in at : i <= n
    BY <1>k, <1>2 DEF RowsOfCall, Inserted, Found
  <1>4. at \subseteq Nat
    BY CallFacts
  <1>5. (CHOOSE i \in at : \A j \in at : j <= i) = n
    <2> HIDE DEF at, n
    <2>1. \A i \in at : (\A j \in at : j <= i) => i = n
      BY <1>3, <1>4
    <2> QED
      BY <1>3, <2>1
  <1>6. nodes[k].id = IdOf(c, s)
    BY <1>2, <1>5 DEF IdOf
  <1>7. nodes[k] # NoNode
    <2>1. NoNode.id[1] = 0
      BY DEF NoNode
    <2> QED
      BY <1>2, <2>1
  <1> QED
    BY <1>k, <1>6, <1>7 DEF Ids

\* No edge is ever removed.
LEMMA EdgesGrow == ASSUME [Next]_vars PROVE edges \subseteq edges'
  BY EdgesStep DEF UpsertCodeEdge

\* A step changes rows of a path only through a call that is storing nodes
\* there.
LEMMA RowsOfPath ==
    ASSUME Ordered, Complete, [Next]_vars, NEW p \in Paths
    PROVE  \/ \A l \in Languages, s \in Symbols : nodes'[<<p, l, s>>] = nodes[<<p, l, s>>]
           \/ /\ jobs[p].status = "done" => suspect[p]
              /\ UNCHANGED <<jobs, suspect, last>>
              /\ \A d \in Calls : clean[d] /\ path[d] = p /\ pc[d] \in Writing => pc[d] = "nodes"
  <1>1. CASE nodes' = nodes
    BY <1>1
  <1>2. ASSUME NEW c \in Calls, pc[c] = "nodes", UpsertCodeNode(c),
               UNCHANGED <<jobs, parses, suspect, last>>, path[c] = p
        PROVE  /\ jobs[p].status = "done" => suspect[p]
               /\ \A d \in Calls : clean[d] /\ path[d] = p /\ pc[d] \in Writing => pc[d] = "nodes"
    BY <1>2, NodeStored
  <1>3. ASSUME NEW c \in Calls, pc[c] = "nodes", UpsertCodeNode(c), UNCHANGED parses, path[c] # p
        PROVE  \A l \in Languages, s \in Symbols : nodes'[<<p, l, s>>] = nodes[<<p, l, s>>]
    BY <1>3, NodeStored
  <1> QED
    BY <1>1, <1>2, <1>3, NodesStep

\* Edges that were there over rows that stay as they are.
LEMMA HasEdgesKept ==
    ASSUME NEW p, NEW l, NEW v, NEW n, NEW refs \in SUBSET (Symbols \X Symbols),
           HasEdges(p, l, v, n, refs), edges \subseteq edges',
           \A s \in Symbols : nodes'[<<p, l, s>>] = nodes[<<p, l, s>>]
    PROVE  HasEdges(p, l, v, n, refs)'
  <1>1. \A ref \in refs : ref[1] \in Symbols /\ ref[2] \in Symbols
    OBVIOUS
  <1>2. \A s \in Symbols : Inserted(p, l, v, n, s)' <=> Inserted(p, l, v, n, s)
    BY DEF Inserted
  <1> QED
    BY <1>1, <1>2 DEF HasEdges

\* A clean call that is past its nodes after a step was there before it, or
\* has just stored its last node, or an edge.
LEMMA LinkingStep ==
    ASSUME Ordered, [Next]_vars, NEW d \in Calls,
           clean'[d], pc'[d] \in {"edges", "finish"}, parse'[d] # 0
    PROVE  /\ clean[d] /\ parse'[d] = parse[d]
           /\ path'[d] = path[d] /\ lang'[d] = lang[d] /\ hash'[d] = hash[d]
           /\ \/ pc[d] \in {"edges", "finish"} /\ todo'[d] = todo[d]
              \/ StoreNode(d) /\ todo'[d] = Called(d)
              \/ \E ref \in todo[d] : StoreEdge(d, ref, TRUE) /\ todo'[d] = todo[d] \ {ref}
  <1> DEFINE Kept == /\ clean[d] /\ parse'[d] = parse[d]
                     /\ path'[d] = path[d] /\ lang'[d] = lang[d] /\ hash'[d] = hash[d]
             Still == Kept /\ pc[d] \in {"edges", "finish"} /\ todo'[d] = todo[d]
             Conclusion ==
                /\ Kept
                /\ \/ pc[d] \in {"edges", "finish"} /\ todo'[d] = todo[d]
                   \/ StoreNode(d) /\ todo'[d] = Called(d)
                   \/ \E ref \in todo[d] : StoreEdge(d, ref, TRUE) /\ todo'[d] = todo[d] \ {ref}
  <1>r. ASSUME NEW c \in Calls, Return(c) PROVE Still
    BY <1>r, ReturnFacts
  <1>1. ASSUME NEW c \in Calls, NEW p \in Paths, NEW l \in Languages, Begin(c, p, l) PROVE Still
    BY <1>1 DEF Begin, Goto, Ordered, TypeOK, history
  <1>2. ASSUME NEW c \in Calls, Parse(c) PROVE Still
    <2>1. c # d
      <3> SUFFICES ASSUME c = d PROVE FALSE
        OBVIOUS
      <3>1. parse[c] = 0 /\ pc[c] = "parse"
        BY <1>2 DEF Parse, Ordered, CallsInOrder, Unparsed
      <3>2. CASE Found(c) = <<>>
        BY <1>2, <3>1, <3>2 DEF Parse
      <3>3. CASE Found(c) # <<>>
        BY <1>2, <3>3 DEF Parse, Goto, Ordered, TypeOK
      <3> QED
        BY <3>2, <3>3
    <2> QED
      BY <1>2, <2>1 DEF Parse, Goto, Ordered, TypeOK, history
  <1>3. ASSUME NEW c \in Calls,
               \/ ParseFails(c)
               \/ \E b \in BOOLEAN : Proceed(c, b) \/ MarkPending(c, b) \/ Embed(c, b)
        PROVE  Still
    <2>1. UNCHANGED <<path, lang, hash, parse, todo>>
      BY <1>3 DEF ParseFails, Proceed, MarkPending, Embed
    <2>2. pc'[c] \notin {"edges", "finish"} /\ \A e \in Calls \ {c} : pc'[e] = pc[e]
      BY <1>3 DEF ParseFails, Proceed, MarkPending, Embed, Goto, Ordered, TypeOK
    <2>3. d # c
      BY <2>2
    <2>4. clean'[d] => clean[d]
      BY <1>3, <2>3 DEF ParseFails, Proceed, MarkPending, Embed, history
    <2> QED
      BY <2>1, <2>2, <2>3, <2>4
  <1>4. ASSUME NEW c \in Calls, StoreNode(c) PROVE Conclusion
    <2>1. UNCHANGED <<path, lang, hash, parse, clean>>
      BY <1>4 DEF StoreNode, history
    <2>2. CASE c = d
      <3>1. CASE next[c] = Len(Found(c))
        <4>1. todo' = [todo EXCEPT ![c] = Called(c)]
          BY <1>4, <3>1, Zenon DEF StoreNode
        <4> QED
          BY <1>4, <2>1, <2>2, <4>1 DEF Ordered, TypeOK
      <3>2. CASE next[c] # Len(Found(c))
        <4>1. pc' = [pc EXCEPT ![c] = "nodes"]
          BY <1>4, <3>2, Zenon DEF StoreNode, Goto
        <4> QED
          BY <2>2, <4>1 DEF Ordered, TypeOK
      <3> QED
        BY <3>1, <3>2
    <2>3. CASE c # d
      BY <1>4, <2>1, <2>3 DEF StoreNode, Goto, Ordered, TypeOK
    <2> QED
      BY <2>2, <2>3
  <1>5. ASSUME NEW c \in Calls, NEW ref \in todo[c], NEW applied \in BOOLEAN, StoreEdge(c, ref, applied)
        PROVE  Conclusion
    <2>1. UNCHANGED <<path, lang, hash, parse>> /\ (clean'[d] => clean[d])
      BY <1>5 DEF StoreEdge, Ordered, TypeOK
    <2>2. CASE c = d
      <3>1. applied = TRUE
        BY <1>5, <2>2 DEF StoreEdge, Ordered, TypeOK
      <3>2. todo'[d] = todo[d] \ {ref}
        BY <1>5, <2>2 DEF StoreEdge, Ordered, TypeOK
      <3> QED
        BY <1>5, <2>1, <2>2, <3>1, <3>2
    <2>3. CASE c # d
      BY <1>5, <2>1, <2>3 DEF StoreEdge, Goto, Ordered, TypeOK
    <2> QED
      BY <2>2, <2>3
  <1>6. ASSUME NEW c \in Calls,
               \/ SkipUnchanged(c)
               \/ RefuseLanguage(c)
               \/ \E b \in BOOLEAN : MarkError(c, b) \/ MarkDone(c, b) \/ StoreNodeFails(c, b)
        PROVE  Return(c)
    BY <1>6 DEF SkipUnchanged, RefuseLanguage, MarkError, MarkDone, StoreNodeFails
  <1>7. ASSUME NEW c \in Calls, Step(c) PROVE Conclusion
    BY <1>7, <1>r, <1>2, <1>3, <1>4, <1>5, <1>6 DEF Step
  <1>8. ASSUME NEW c \in Calls, Fault(c) PROVE Conclusion
    BY <1>8, <1>r, <1>3, <1>5, <1>6 DEF Fault
  <1>9. CASE (\E p \in Paths : EditFile(p)) \/ UNCHANGED vars
    BY <1>9 DEF EditFile, vars, call, history
  <1>10. CASE Crash
    BY <1>10 DEF Crash
  <1> QED
    BY <1>1, <1>7, <1>8, <1>9, <1>10 DEF Next

\* The edge that a clean call stores is let in if its parse inserted both
\* rows: their ids are those of the edge.
LEMMA EdgeStored ==
    ASSUME Ordered, RowsOfCall, NEW c \in Calls, NEW ref \in todo[c], StoreEdge(c, ref, TRUE),
           Inserted(path[c], lang[c], hash[c], parse[c], ref[1]),
           Inserted(path[c], lang[c], hash[c], parse[c], ref[2])
    PROVE  /\ nodes' = nodes
           /\ <<nodes[<<path[c], lang[c], ref[1]>>].id, nodes[<<path[c], lang[c], ref[2]>>].id>>
                 \in edges'
  <1>1. /\ pc[c] = "edges" /\ nodes' = nodes
        /\ UpsertCodeEdge(IdOf(c, ref[1]), IdOf(c, ref[2]))
    BY DEF StoreEdge
  <1>2. parse[c] # 0
    BY <1>1 DEF Ordered, CallsInOrder
  <1>3. ref[1] \in Symbols /\ ref[2] \in Symbols
    BY DEF Ordered, TypeOK
  <1>4. /\ nodes[<<path[c], lang[c], ref[1]>>].id = IdOf(c, ref[1]) /\ IdOf(c, ref[1]) \in Ids
        /\ nodes[<<path[c], lang[c], ref[2]>>].id = IdOf(c, ref[2]) /\ IdOf(c, ref[2]) \in Ids
    BY <1>1, <1>2, <1>3, InsertedIdOf
  <1> QED
    BY <1>1, <1>4 DEF UpsertCodeEdge

LEMMA CleanEdgesStep ==
    ASSUME Ordered, RowsOfCall, Complete, CleanEdges, [Next]_vars PROVE CleanEdges'
  <1> SUFFICES ASSUME NEW d \in Calls, clean'[d], pc'[d] \in {"edges", "finish"}, parse'[d] # 0,
                      NEW ref \in (Called(d) \ todo[d])',
                      Inserted(path[d], lang[d], hash[d], parse[d], ref[1])',
                      Inserted(path[d], lang[d], hash[d], parse[d], ref[2])'
               PROVE  <<nodes'[<<path'[d], lang'[d], ref[1]>>].id,
                        nodes'[<<path'[d], lang'[d], ref[2]>>].id>> \in edges'
    BY DEF CleanEdges, HasEdges
  <1>s. /\ clean[d] /\ parse'[d] = parse[d]
        /\ path'[d] = path[d] /\ lang'[d] = lang[d] /\ hash'[d] = hash[d]
    BY LinkingStep
  <1>c. ref \in Called(d) /\ ref \notin todo'[d]
    BY <1>s DEF Called
  <1>1. CASE pc[d] \in {"edges", "finish"} /\ todo'[d] = todo[d]
    <2>1. HasEdges(path[d], lang[d], hash[d], parse[d], Called(d) \ todo[d])
      BY <1>s, <1>1 DEF CleanEdges
    <2>2. path[d] \in Paths /\ lang[d] \in Languages /\ ref[1] \in Symbols /\ ref[2] \in Symbols
      BY <1>c, <1>1, CallFacts
    <2>3. \A s \in Symbols : nodes'[<<path[d], lang[d], s>>] = nodes[<<path[d], lang[d], s>>]
      BY <1>s, <1>1, <2>2, RowsOfPath DEF Writing
    <2> QED
      BY <1>s, <1>c, <1>1, <2>1, <2>2, <2>3, EdgesGrow DEF HasEdges, Inserted
  <1>2. CASE todo'[d] = Called(d)
    BY <1>c, <1>2
  <1>3. ASSUME NEW r \in todo[d], StoreEdge(d, r, TRUE), todo'[d] = todo[d] \ {r}
        PROVE  <<nodes'[<<path'[d], lang'[d], ref[1]>>].id,
                 nodes'[<<path'[d], lang'[d], ref[2]>>].id>> \in edges'
    <2>1. pc[d] = "edges" /\ nodes' = nodes
      BY <1>3 DEF StoreEdge
    <2>2. \A i \in {1, 2} : Inserted(path[d], lang[d], hash[d], parse[d], ref[i])
      BY <1>s, <2>1 DEF Inserted
    <2>3. CASE ref = r
      BY <1>s, <1>3, <2>1, <2>2, <2>3, EdgeStored
    <2>4. CASE ref # r
      <3>1. HasEdges(path[d], lang[d], hash[d], parse[d], Called(d) \ todo[d])
        BY <1>s, <2>1 DEF CleanEdges
      <3>2. ref \in Called(d) \ todo[d]
        BY <1>c, <1>3, <2>4
      <3> QED
        BY <1>s, <2>1, <2>2, <3>1, <3>2, EdgesGrow DEF HasEdges
    <2> QED
      BY <2>3, <2>4
  <1> QED
    BY <1>1, <1>2, <1>3, LinkingStep

\* After a step, "done" at a path that is not suspect is what it was, or the
\* claim that a clean call has just made.
LEMMA DoneStep ==
    ASSUME Ordered, [Next]_vars, NEW p \in Paths, jobs'[p].status = "done", ~suspect'[p]
    PROVE  \/ jobs'[p] = jobs[p] /\ ~suspect[p] /\ last'[p] = last[p]
           \/ \E c \in Calls : MarkDone(c, TRUE) /\ path[c] = p /\ clean[c]
  <1> DEFINE Still == jobs'[p] = jobs[p] /\ ~suspect[p] /\ last'[p] = last[p]
  <1>1. ASSUME NEW c \in Calls, NEW q \in Paths, NEW l \in Languages, Begin(c, q, l) PROVE Still
    BY <1>1 DEF Begin, store, history
  <1>2. ASSUME NEW c \in Calls,
               \/ SkipUnchanged(c) \/ Parse(c) \/ ParseFails(c) \/ RefuseLanguage(c) \/ StoreNode(c)
               \/ \E b \in BOOLEAN : Proceed(c, b) \/ Embed(c, b) \/ StoreNodeFails(c, b)
               \/ \E ref \in todo[c], b \in BOOLEAN : StoreEdge(c, ref, b)
        PROVE  UNCHANGED <<jobs, suspect, last>>
    BY <1>2 DEF SkipUnchanged, Parse, ParseFails, RefuseLanguage, StoreNode, Proceed, Embed,
                StoreNodeFails, StoreEdge, store, history
  <1>3. ASSUME NEW c \in Calls, NEW b \in BOOLEAN, MarkPending(c, b) PROVE Still
    <2>1. CASE path[c] = p
      <3>1. jobs'[p] = jobs[p]
        BY <1>3, <2>1 DEF MarkPending, UpsertIngestJob, Job, Ordered, TypeOK
      <3> QED
        BY <1>3, <3>1 DEF MarkPending, Ordered, TypeOK
    <2>2. CASE path[c] # p
      BY <1>3, <2>2 DEF MarkPending, UpsertIngestJob, Ordered, TypeOK
    <2> QED
      BY <2>1, <2>2
  <1>4. ASSUME NEW c \in Calls, NEW b \in BOOLEAN, MarkError(c, b) PROVE Still
    <2>1. jobs'[p] = jobs[p]
      BY <1>4 DEF MarkError, UpsertIngestJob, Job, Ordered, TypeOK
    <2> QED
      BY <1>4, <2>1 DEF MarkError
  <1>5. ASSUME NEW c \in Calls, NEW b \in BOOLEAN, MarkDone(c, b)
        PROVE  Still \/ (MarkDone(c, TRUE) /\ path[c] = p /\ clean[c])
    <2>1. CASE path[c] = p /\ b = TRUE
      <3>1. suspect'[p] = ~clean[c]
        BY <1>5, <2>1 DEF MarkDone, Ordered, TypeOK
      <3> QED
        BY <1>5, <2>1, <3>1
    <2>2. CASE path[c] # p \/ b = FALSE
      BY <1>5, <2>2 DEF MarkDone, UpsertIngestJob, Ordered, TypeOK
    <2> QED
      BY <2>1, <2>2
  <1>6. ASSUME NEW c \in Calls, Step(c)
        PROVE  Still \/ (MarkDone(c, TRUE) /\ path[c] = p /\ clean[c])
    BY <1>6, <1>2, <1>3, <1>4, <1>5 DEF Step
  <1>7. ASSUME NEW c \in Calls, Fault(c)
        PROVE  Still \/ (MarkDone(c, TRUE) /\ path[c] = p /\ clean[c])
    BY <1>7, <1>2, <1>3, <1>4, <1>5 DEF Fault
  <1>8. CASE \/ \E q \in Paths : EditFile(q)
             \/ Crash
             \/ UNCHANGED vars
    BY <1>8 DEF EditFile, Crash, vars, store, history
  <1> QED
    BY <1>1, <1>6, <1>7, <1>8 DEF Next

\* NewNodesHaveEdges says HasEdges of the parse that was last done.
LEMMA NewNodesAreLinked ==
    NewNodesHaveEdges <=>
        \A p \in Paths :
            jobs[p].status = "done" /\ ~suspect[p] /\ last[p] # 0 =>
                HasEdges(p, jobs[p].lang, jobs[p].hash, last[p], Refs[jobs[p].hash][jobs[p].lang])
  BY DEF NewNodesHaveEdges, HasEdges, Inserted

LEMMA NewNodesHaveEdgesStep ==
    ASSUME Ordered, RowsOfCall, Complete, CleanEdges, NewNodesHaveEdges, [Next]_vars
    PROVE  NewNodesHaveEdges'
  <1> SUFFICES ASSUME NEW p \in Paths, jobs'[p].status = "done", ~suspect'[p], last'[p] # 0
               PROVE  HasEdges(p, jobs[p].lang, jobs[p].hash, last[p],
                               Refs[jobs[p].hash][jobs[p].lang])'
    BY DEF NewNodesHaveEdges, HasEdges, Inserted
  <1>1. CASE jobs'[p] = jobs[p] /\ ~suspect[p] /\ last'[p] = last[p]
    <2> DEFINE l == jobs[p].lang
               v == jobs[p].hash
    <2>1. v \in Versions /\ l \in Languages
      BY <1>1 DEF Complete, DoneHasHash
    <2>2. Refs[v][l] \subseteq Symbols \X Symbols
      <3>1. \A w \in Versions, m \in Languages : Refs[w][m] \subseteq Symbols \X Symbols
        BY ConstantsAssumption
      <3> QED
        BY <2>1, <3>1
    <2>3. \A s \in Symbols : nodes'[<<p, l, s>>] = nodes[<<p, l, s>>]
      BY <1>1, <2>1, RowsOfPath
    <2>4. HasEdges(p, l, v, last[p], Refs[v][l])
      BY <1>1, NewNodesAreLinked
    <2>5. \A ref \in Refs[v][l] : ref[1] \in Symbols /\ ref[2] \in Symbols
      BY <2>2
    <2> QED
      BY <1>1, <2>3, <2>4, <2>5, EdgesGrow DEF HasEdges, Inserted
  <1>2. ASSUME NEW c \in Calls, MarkDone(c, TRUE), path[c] = p, clean[c]
        PROVE  HasEdges(p, jobs[p].lang, jobs[p].hash, last[p], Refs[jobs[p].hash][jobs[p].lang])'
    <2>1. pc[c] = "finish" /\ nodes' = nodes /\ edges' = edges
      BY <1>2 DEF MarkDone
    <2>2. jobs'[p] = Job("done", hash[c], lang[c]) /\ last'[p] = parse[c]
      BY <1>2 DEF MarkDone, UpsertIngestJob, Ordered, TypeOK
    <2>3. jobs'[p].hash = hash[c] /\ jobs'[p].lang = lang[c]
      BY <2>2 DEF Job
    <2>4. HasEdges(p, lang[c], hash[c], parse[c], Called(c) \ todo[c])
      BY <1>2, <2>1, <2>2 DEF CleanEdges
    <2>5. todo[c] = {}
      BY <2>1 DEF Ordered, CallsInOrder
    <2> QED
      BY <2>1, <2>2, <2>3, <2>4, <2>5 DEF HasEdges, Inserted, Called
  <1> QED
    BY <1>1, <1>2, DoneStep

THEOREM LinkedInvariance == Spec => []Linked
  <1>1. Init => Linked
    BY DEF Init, NoJob, Linked, CleanEdges, NewNodesHaveEdges
  <1>2. Ordered /\ Joined /\ Complete /\ Linked /\ [Next]_vars => Linked'
    BY CleanEdgesStep, NewNodesHaveEdgesStep DEF Joined, Linked
  <1> QED
    BY <1>1, <1>2, OrderedInvariance, JoinedInvariance, CompleteInvariance, PTL DEF Spec

\* An undisturbed ingest loses an edge only where a row is older than its
\* parse, or a symbol is defined twice: where the parse that was last "done"
\* inserted both rows as last definitions, UpsertCodeEdge was given their ids.
THEOREM EdgesComplete == Spec => []NewNodesHaveEdges
  <1>1. Linked => NewNodesHaveEdges
    BY DEF Linked
  <1> QED
    BY <1>1, LinkedInvariance, PTL

-----------------------------------------------------------------------------
\* Calls advance.

LEMMA Order ==
    /\ Later("check") = 1 /\ Later("mark") = 2 /\ Later("parse") = 3 /\ Later("embed") = 4
    /\ Later("nodes") = 5 /\ Later("edges") = 6 /\ Later("fail") = 7 /\ Later("finish") = 8
    /\ Later("idle") = 9
  <1> DEFINE order == <<"check", "mark", "parse", "embed", "nodes", "edges", "fail", "finish", "idle">>
  <1>1. DOMAIN order = 1 .. 9
    OBVIOUS
  <1>2. \A i \in 1 .. 9 : i = 1 \/ i = 2 \/ i = 3 \/ i = 4 \/ i = 5 \/ i = 6 \/ i = 7 \/ i = 8 \/ i = 9
    OBVIOUS
  <1>3. /\ order[1] = "check" /\ order[2] = "mark" /\ order[3] = "parse" /\ order[4] = "embed"
        /\ order[5] = "nodes" /\ order[6] = "edges" /\ order[7] = "fail" /\ order[8] = "finish"
        /\ order[9] = "idle"
    OBVIOUS
  <1>4. \A l : Later(l) = CHOOSE i \in 1 .. 9 : order[i] = l
    BY <1>1 DEF Later
  <1>5. 1 \in 1 .. 9 /\ 2 \in 1 .. 9 /\ 3 \in 1 .. 9 /\ 4 \in 1 .. 9 /\ 5 \in 1 .. 9 /\ 6 \in 1 .. 9
        /\ 7 \in 1 .. 9 /\ 8 \in 1 .. 9 /\ 9 \in 1 .. 9
    OBVIOUS
  <1> HIDE DEF order
  <1>6. ASSUME NEW k \in 1 .. 9 PROVE Later(order[k]) = k
    <2>1. \A i \in 1 .. 9 : order[i] = order[k] => i = k
      BY <1>2, <1>3
    <2>2. Later(order[k]) = CHOOSE i \in 1 .. 9 : order[i] = order[k]
      BY <1>4
    <2> QED
      BY <2>1, <2>2
  <1> QED
    BY <1>3, <1>5, <1>6

\* What brings a call nearer its return, or leaves it where it is.
LEMMA AdvanceStep ==
    ASSUME Ordered, [Next]_vars, NEW d \in Calls, pc[d] # "idle" PROVE Advances(d)
  <1> DEFINE Onwards(from, to) == pc[d] \in from /\ pc'[d] \in to
             Same == pc'[d] = pc[d] /\ next'[d] = next[d] /\ todo'[d] = todo[d]
  <1>t. /\ pc \in [Calls -> Locations] /\ next \in [Calls -> Nat \ {0}]
        /\ todo \in [Calls -> SUBSET (Symbols \X Symbols)]
    BY DEF Ordered, TypeOK
  <1>s. Same => Advances(d)
    BY DEF Advances
  <1>n. Later(pc'[d]) > Later(pc[d]) => Advances(d)
    BY DEF Advances, Nearer
  <1>i. pc'[d] = "idle" => Advances(d)
    <2>1. pc[d] \in {"check", "mark", "parse", "embed", "nodes", "edges", "fail", "finish"}
      BY <1>t DEF Locations, Writing
    <2> QED
      BY <1>n, <2>1, Order
  <1>r. ASSUME NEW c \in Calls, Return(c) PROVE Advances(d)
    <2>1. Same \/ pc'[d] = "idle"
      BY <1>r, <1>t DEF Return, Goto
    <2> QED
      BY <1>i, <1>s, <2>1
  <1>1. ASSUME NEW c \in Calls, NEW p \in Paths, NEW l \in Languages, Begin(c, p, l)
        PROVE  Advances(d)
    <2>1. Same
      BY <1>1, <1>t DEF Begin, Goto
    <2> QED
      BY <1>s, <2>1
  \* A step to one location from another.
  <1>m. ASSUME NEW c \in Calls, NEW l, Goto(c, l), UNCHANGED <<next, todo>>,
               c = d => Later(l) > Later(pc[d])
        PROVE  Advances(d)
    <2>1. CASE c = d
      <3>1. pc'[d] = l
        BY <1>m, <1>t, <2>1 DEF Goto
      <3> QED
        BY <1>m, <1>n, <2>1, <3>1
    <2>2. CASE c # d
      <3>1. Same
        BY <1>m, <1>t, <2>2 DEF Goto
      <3> QED
        BY <1>s, <3>1
    <2> QED
      BY <2>1, <2>2
  <1>2. ASSUME NEW c \in Calls, NEW b \in BOOLEAN, Proceed(c, b) \/ MarkPending(c, b) \/ Embed(c, b)
        PROVE  Advances(d)
    <2>1. /\ Later("mark") > Later("check") /\ Later("parse") > Later("mark")
          /\ Later("nodes") > Later("embed") /\ Later("fail") > Later("embed")
      BY Order
    <2>2. CASE Proceed(c, b)
      BY <1>m, <2>1, <2>2 DEF Proceed
    <2>3. CASE MarkPending(c, b)
      BY <1>m, <2>1, <2>3 DEF MarkPending
    <2>4. CASE Embed(c, b)
      <3>1. Goto(c, IF b THEN "nodes" ELSE "fail") /\ UNCHANGED <<next, todo>> /\ pc[c] = "embed"
        BY <2>4 DEF Embed
      <3>2. Later(IF b THEN "nodes" ELSE "fail") > Later("embed")
        BY <2>1
      <3> QED
        BY <1>m, <3>1, <3>2
    <2> QED
      BY <1>2, <2>2, <2>3, <2>4
  <1>3. ASSUME NEW c \in Calls, Parse(c) \/ ParseFails(c) PROVE Advances(d)
    <2>1. Later("finish") > Later("parse") /\ Later("embed") > Later("parse") /\ Later("fail") > Later("parse")
      BY Order
    <2>2. PICK l \in {"finish", "embed", "fail"} : Goto(c, l) /\ UNCHANGED <<next, todo>> /\ pc[c] = "parse"
      BY <1>3 DEF Parse, ParseFails
    <2>3. Later(l) > Later("parse")
      BY <2>1
    <2> QED
      BY <1>m, <2>2, <2>3
  <1>4. ASSUME NEW c \in Calls, StoreNode(c) PROVE Advances(d)
    <2> DEFINE final == next[c] = Len(Found(c))
    <2>1. CASE c # d
      <3>1. Same
        BY <1>4, <1>t, <2>1 DEF StoreNode, Goto
      <3> QED
        BY <1>s, <3>1
    <2>2. CASE c = d /\ ~final
      <3>1. pc[d] = "nodes" /\ pc'[d] = "nodes" /\ next'[d] = next[d] + 1
        BY <1>4, <1>t, <2>2 DEF StoreNode, Goto
      <3>2. next'[d] > next[d]
        BY <1>t, <3>1
      <3> QED
        BY <3>1, <3>2 DEF Advances, Nearer
    <2>3. CASE c = d /\ final
      <3>1. pc[d] = "nodes" /\ pc'[d] \in {"finish", "edges"}
        BY <1>4, <1>t, <2>3 DEF StoreNode, Goto
      <3>2. Later("finish") > Later("nodes") /\ Later("edges") > Later("nodes")
        BY Order
      <3> QED
        BY <1>n, <3>1, <3>2
    <2> QED
      BY <2>1, <2>2, <2>3
  <1>5. ASSUME NEW c \in Calls, NEW ref \in todo[c], NEW b \in BOOLEAN, StoreEdge(c, ref, b) PROVE Advances(d)
    <2>1. CASE c # d
      <3>1. Same
        BY <1>5, <1>t, <2>1 DEF StoreEdge, Goto
      <3> QED
        BY <1>s, <3>1
    <2>2. CASE c = d
      <3>1. pc[d] = "edges" /\ pc'[d] \in {"finish", "edges"} /\ todo'[d] = todo[d] \ {ref}
        BY <1>5, <1>t, <2>2 DEF StoreEdge, Goto
      <3>2. Later("finish") > Later("edges")
        BY Order
      <3>3. todo'[d] \subseteq todo[d] /\ todo'[d] # todo[d]
        BY <2>2, <3>1
      <3>4. CASE pc'[d] = "edges"
        BY <3>1, <3>3, <3>4 DEF Advances, Nearer
      <3> QED
        BY <1>n, <3>1, <3>2, <3>4
    <2> QED
      BY <2>1, <2>2
  <1>6. ASSUME NEW c \in Calls,
               \/ SkipUnchanged(c)
               \/ RefuseLanguage(c)
               \/ \E b \in BOOLEAN : MarkError(c, b) \/ MarkDone(c, b) \/ StoreNodeFails(c, b)
        PROVE  Return(c)
    BY <1>6 DEF SkipUnchanged, RefuseLanguage, MarkError, MarkDone, StoreNodeFails
  <1>7. ASSUME NEW c \in Calls, Step(c) PROVE Advances(d)
    BY <1>7, <1>r, <1>2, <1>3, <1>4, <1>5, <1>6 DEF Step
  <1>8. ASSUME NEW c \in Calls, Fault(c) PROVE Advances(d)
    BY <1>8, <1>r, <1>2, <1>5, <1>6 DEF Fault
  <1>9. CASE (\E p \in Paths : EditFile(p)) \/ UNCHANGED vars
    <2>1. Same
      BY <1>9 DEF EditFile, vars, call
    <2> QED
      BY <1>s, <2>1
  <1>10. CASE Crash
    <2>1. pc'[d] = "idle"
      BY <1>10 DEF Crash
    <2> QED
      BY <1>i, <2>1
  <1> QED
    BY <1>1, <1>7, <1>8, <1>9, <1>10 DEF Next

\* No step, of the call itself or of any other, takes a call of ingestFile
\* back: it goes through its locations in one direction, through the nodes it
\* has found from the first to the last, and has fewer edges to store with
\* every round.  So a call is over after a number of steps it could foresee.
THEOREM CallsAdvance == Spec => [][\A c \in Calls : pc[c] # "idle" => Advances(c)]_vars
  <1>1. Ordered /\ [Next]_vars => [\A c \in Calls : pc[c] # "idle" => Advances(c)]_vars
    BY AdvanceStep
  <1> QED
    BY <1>1, OrderedInvariance, PTL DEF Spec
=============================================================================
