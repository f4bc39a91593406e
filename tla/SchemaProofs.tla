---------------------------- MODULE SchemaProofs -----------------------------
(***************************************************************************)
(* The tables that a dataset is stored in and the schema that is suggested *)
(* for it, for all fields, masters, transformations, samples and bounds.   *)
(*                                                                         *)
(* Tables: every publication gathers a list of columns with distinct names *)
(* (DruidFields), because the fields of the dataset, of its master and of  *)
(* the system are named apart and a transformation replaces its namesakes; *)
(* the lake's columns are numbered by their places and only appended to    *)
(* (Numbered), so that a live table is a prefix of its draft.              *)
(*                                                                         *)
(* Schemas: the types of a field at the positions of the samples that have *)
(* it are as many of each kind as in the samples (TypesCounted).           *)
(***************************************************************************)
EXTENDS TableSpecs, SchemaGeneration, FiniteSetTheorems, TLAPS

-----------------------------------------------------------------------------
(* What is at some positions of a sequence. *)

\* The positions are counted in their order.
LEMMA PositionsCounted ==
  ASSUME NEW n \in Nat, NEW at \in SUBSET (1 .. n)
  PROVE  /\ Cardinality(at) \in Nat
         /\ \A k \in 1 .. Cardinality(at) : Position(at, k) \in at
         /\ \A i \in at : \E k \in 1 .. Cardinality(at) : Position(at, k) = i
         /\ \A k, l \in 1 .. Cardinality(at) : k < l => Position(at, k) < Position(at, l)
<1> DEFINE upTo(i) == { j \in at : j <= i }
           rank(i) == Cardinality(upTo(i))
           size == Cardinality(at)
<1>1. IsFiniteSet(at) /\ size \in Nat /\ at \subseteq Nat
  <2>1. IsFiniteSet(1 .. n)
    BY FS_Interval
  <2>2. IsFiniteSet(at)
    BY <2>1, FS_Subset
  <2>3. QED
    BY <2>2, FS_CardinalityType
<1>2. ASSUME NEW i \in at PROVE IsFiniteSet(upTo(i)) /\ rank(i) \in 1 .. size
  <2>1. upTo(i) \in SUBSET at /\ upTo(i) # {}
    OBVIOUS
  <2>2. IsFiniteSet(upTo(i)) /\ rank(i) <= size
    BY <1>1, <2>1, FS_Subset
  <2>3. rank(i) \in Nat /\ rank(i) # 0
    BY <2>1, <2>2, FS_CardinalityType, FS_EmptySet
  <2>4. QED
    BY <1>1, <2>2, <2>3
<1>3. ASSUME NEW i \in at, NEW j \in at, i < j PROVE rank(i) < rank(j)
  <2>1. upTo(i) \in SUBSET upTo(j) /\ upTo(i) # upTo(j)
    <3>1. i \in Nat /\ j \in Nat /\ at \subseteq Nat
      BY <1>1, <1>3
    <3>2. j \in upTo(j) /\ j \notin upTo(i)
      BY <1>3, <3>1
    <3>3. \A k \in at : k <= i => k <= j
      BY <1>3, <3>1
    <3>4. QED
      BY <3>2, <3>3
  <2>2. rank(i) <= rank(j) /\ rank(i) # rank(j)
    BY <1>2, <2>1, FS_Subset
  <2>3. QED
    BY <1>2, <2>2
<1>4. \A i, j \in at : rank(i) = rank(j) => i = j
  <2> SUFFICES ASSUME NEW i \in at, NEW j \in at, rank(i) = rank(j), i # j PROVE FALSE
    OBVIOUS
  <2>1. i < j \/ j < i
    BY <1>1
  <2>2. rank(i) < rank(j) \/ rank(j) < rank(i)
    BY <1>3, <2>1
  <2>3. QED
    BY <1>2, <2>2
<1>5. \A k \in 1 .. size : \E i \in at : rank(i) = k
  <2> DEFINE f == [i \in at |-> rank(i)]
  <2>1. f \in Injection(at, 1 .. size)
    <3>1. \A i \in at : f[i] = rank(i)
      OBVIOUS
    <3>2. f \in [at -> 1 .. size]
      BY <1>2
    <3> HIDE DEF f, rank, size
    <3>3. QED
      BY <1>4, <3>1, <3>2 DEF Injection, IsInjective
  <2>2. IsFiniteSet(1 .. size) /\ Cardinality(1 .. size) = size
    BY <1>1, FS_Interval
  <2>3. \A i \in at : f[i] = rank(i)
    OBVIOUS
  <2> HIDE DEF f, rank
  <2>4. f \in Surjection(at, 1 .. size)
    BY <2>1, <2>2, FS_Injection
  <2>5. QED
    BY <2>3, <2>4 DEF Surjection
<1>6. \A k \in 1 .. size : Position(at, k) \in at /\ rank(Position(at, k)) = k
  BY <1>5 DEF Position
<1>7. ASSUME NEW i \in at PROVE \E k \in 1 .. size : Position(at, k) = i
  BY <1>2, <1>4, <1>6
<1>8. ASSUME NEW k \in 1 .. size, NEW l \in 1 .. size, k < l PROVE Position(at, k) < Position(at, l)
  <2> DEFINE i == Position(at, k)
             j == Position(at, l)
  <2>1. i \in at /\ j \in at /\ rank(i) = k /\ rank(j) = l
    BY <1>6
  <2> HIDE DEF i, j, rank
  <2>2. i \in Nat /\ j \in Nat /\ k \in Nat /\ l \in Nat
    BY <1>1, <2>1
  <2>3. i # j
    BY <1>8, <2>1, <2>2
  <2>4. ~ (j < i)
    <3>1. j < i => l < k
      BY <1>3, <2>1
    <3>2. QED
      BY <1>8, <2>2, <3>1
  <2>5. i < j
    BY <2>2, <2>3, <2>4
  <2>6. QED
    BY <2>5 DEF i, j
<1>9. QED
  BY <1>1, <1>6, <1>7, <1>8

\* What is selected of a sequence is of the sequence, each element once, and in the same order.
LEMMA ElementsSelected ==
  ASSUME NEW S, NEW seq \in Seq(S), NEW at \in SUBSET DOMAIN seq
  PROVE  /\ Cardinality(at) \in Nat
         /\ ElementsAt(seq, at) \in Seq(S)
         /\ Len(ElementsAt(seq, at)) = Cardinality(at)
         /\ DOMAIN ElementsAt(seq, at) = 1 .. Cardinality(at)
         /\ \A k \in 1 .. Cardinality(at) : Position(at, k) \in at /\ ElementsAt(seq, at)[k] = seq[Position(at, k)]
         /\ \A i \in at : \E k \in 1 .. Cardinality(at) : Position(at, k) = i /\ ElementsAt(seq, at)[k] = seq[i]
         /\ \A k, l \in 1 .. Cardinality(at) : k < l => Position(at, k) < Position(at, l)
<1>1. Len(seq) \in Nat /\ DOMAIN seq = 1 .. Len(seq) /\ \A i \in DOMAIN seq : seq[i] \in S
  OBVIOUS
<1>2. /\ Cardinality(at) \in Nat
      /\ \A k \in 1 .. Cardinality(at) : Position(at, k) \in at
      /\ \A i \in at : \E k \in 1 .. Cardinality(at) : Position(at, k) = i
      /\ \A k, l \in 1 .. Cardinality(at) : k < l => Position(at, k) < Position(at, l)
  BY <1>1, PositionsCounted
<1>3. ElementsAt(seq, at) = [k \in 1 .. Cardinality(at) |-> seq[Position(at, k)]]
  BY DEF ElementsAt
<1>4. ElementsAt(seq, at) \in [1 .. Cardinality(at) -> S]
  BY <1>1, <1>2, <1>3
<1>5. ElementsAt(seq, at) \in Seq(S) /\ Len(ElementsAt(seq, at)) = Cardinality(at)
  BY <1>2, <1>4
<1>6. QED
  BY <1>2, <1>3, <1>5

-----------------------------------------------------------------------------
(* Tables: the inductive invariant. *)

AnyPath      == Path \cup {Syncts.path} \cup ToSet(SourceOf)
AnyType      == STRING \cup {"string"}
Typed        == [path : AnyPath, type : AnyType, deleted : BOOLEAN]
Cells(store) == [name : { NameIn(store, p) : p \in AnyPath }, type : AnyType, deleted : BOOLEAN]
LakeColumns  == [name : { NameIn(Lake, p) : p \in AnyPath }, type : AnyType, index : Nat]

PathsDistinct(fields) == \A i, j \in DOMAIN fields : fields[i].path = fields[j].path => i = j
NamesDistinct(fields) == \A i, j \in DOMAIN fields : fields[i].name = fields[j].name => i = j

\* A column has its place for its index.
Numbered(columns) == columns \in Seq(LakeColumns) /\ \A i \in DOMAIN columns : columns[i].index = i

\* What a dataset and its master are edited to; the timestamp is always there.
EditedInv ==
    /\ schema \in Seq(Typed) /\ PathsDistinct(schema)
    /\ \A i \in DOMAIN schema : schema[i].path \in { f.path : f \in Fields }
    /\ \E i \in DOMAIN schema : schema[i].path = Timestamp /\ ~ schema[i].deleted
    /\ denorm \in BOOLEAN /\ lake \in BOOLEAN
    /\ transforms = << >> \/ \E t \in Transforms : transforms = <<There(t)>>
    /\ master \in Seq(Typed) /\ PathsDistinct(master)
    /\ \A i \in DOMAIN master : master[i].path \in MasterPaths /\ ~ master[i].deleted

\* The live table of the lake has the first columns of its draft.
SpecsInv ==
    /\ EditedInv
    /\ Numbered(drafts[Lake]) /\ Numbered(lives[Lake]) /\ IsPrefix(lives[Lake], drafts[Lake])
    /\ DimensionsDistinct

\* The parts that the fields of a table are gathered from.
Joined == IF denorm THEN [i \in DOMAIN master |-> [master[i] EXCEPT !.path = <<OutKey>> \o @]] ELSE << >>
TableColumns(store) == FlattenSchema(store, schema \o Joined)
Made(store)    == FlattenSchema(store, transforms)
Kept(store)    == { i \in DOMAIN TableColumns(store) : TableColumns(store)[i].name \notin Named(Made(store)) }
Gathered(store) == (ElementsAt(TableColumns(store), Kept(store)) \o Made(store)) \o FlattenSchema(store, <<Syncts>>)

LEMMA AllFieldsGathered ==
  ASSUME NEW store
  PROVE  AllFields(store) = ElementsAt(Gathered(store), { i \in DOMAIN Gathered(store) : ~ Gathered(store)[i].deleted })
  BY DEF AllFields, Gathered, WithTransforms, TableColumns, Made, Kept, Joined

LEMMA SelectedDistinct ==
  ASSUME NEW S, NEW seq \in Seq(S), NamesDistinct(seq), NEW at \in SUBSET DOMAIN seq
  PROVE  NamesDistinct(ElementsAt(seq, at))
<1> DEFINE e == ElementsAt(seq, at)
<1>1. /\ Cardinality(at) \in Nat /\ DOMAIN e = 1 .. Cardinality(at)
      /\ \A k \in DOMAIN e : Position(at, k) \in at /\ e[k] = seq[Position(at, k)]
      /\ \A k, l \in DOMAIN e : k < l => Position(at, k) < Position(at, l)
  BY ElementsSelected
<1> HIDE DEF e
<1>2. ASSUME NEW k \in DOMAIN e, NEW l \in DOMAIN e, e[k].name = e[l].name PROVE k = l
  <2>1. Position(at, k) = Position(at, l)
    BY <1>1, <1>2 DEF NamesDistinct
  <2>2. Position(at, k) \in Nat /\ k \in Nat /\ l \in Nat
    BY <1>1
  <2>3. ~ (k < l) /\ ~ (l < k)
    BY <1>1, <2>1, <2>2
  <2>4. QED
    BY <2>2, <2>3
<1>3. QED
  BY <1>2 DEF NamesDistinct, e

LEMMA SelectedNames ==
  ASSUME NEW S, NEW seq \in Seq(S), NEW at \in SUBSET DOMAIN seq
  PROVE  Named(ElementsAt(seq, at)) = { seq[i].name : i \in at }
<1> DEFINE e == ElementsAt(seq, at)
<1>1. /\ DOMAIN e = 1 .. Cardinality(at)
      /\ \A k \in DOMAIN e : Position(at, k) \in at /\ e[k] = seq[Position(at, k)]
      /\ \A i \in at : \E k \in DOMAIN e : e[k] = seq[i]
  BY ElementsSelected
<1> HIDE DEF e
<1>2. Named(e) = { seq[i].name : i \in at }
  BY <1>1 DEF Named
<1>3. QED
  BY <1>2 DEF e

LEMMA ConcatNames ==
  ASSUME NEW S, NEW s \in Seq(S), NEW t \in Seq(S)
  PROVE  /\ Named(s \o t) = Named(s) \cup Named(t)
         /\ NamesDistinct(s) /\ NamesDistinct(t) /\ Named(s) \cap Named(t) = {} => NamesDistinct(s \o t)
<1>1. /\ Len(s) \in Nat /\ Len(t) \in Nat /\ DOMAIN s = 1 .. Len(s) /\ DOMAIN t = 1 .. Len(t)
      /\ DOMAIN (s \o t) = 1 .. Len(s) + Len(t)
      /\ \A i \in DOMAIN s : (s \o t)[i] = s[i]
      /\ \A i \in DOMAIN t : (s \o t)[Len(s) + i] = t[i]
  OBVIOUS
<1> DEFINE u == s \o t
<1> HIDE DEF u
<1>2. ASSUME NEW i \in DOMAIN u
      PROVE  (i \in DOMAIN s /\ u[i] = s[i]) \/ (i - Len(s) \in DOMAIN t /\ i > Len(s) /\ u[i] = t[i - Len(s)])
  <2>1. i \in 1 .. Len(s) + Len(t)
    BY <1>1, <1>2 DEF u
  <2>2. CASE i <= Len(s)
    BY <1>1, <2>1, <2>2 DEF u
  <2>3. CASE i > Len(s)
    <3>1. i - Len(s) \in DOMAIN t /\ Len(s) + (i - Len(s)) = i
      BY <1>1, <2>1, <2>3
    <3>2. QED
      BY <1>1, <2>3, <3>1 DEF u
  <2>4. QED
    BY <1>1, <2>1, <2>2, <2>3
<1>3. ASSUME NEW i \in DOMAIN s PROVE i \in DOMAIN u /\ u[i] = s[i]
  BY <1>1 DEF u
<1>4. ASSUME NEW i \in DOMAIN t PROVE Len(s) + i \in DOMAIN u /\ u[Len(s) + i] = t[i]
  BY <1>1 DEF u
<1>5. Named(u) = Named(s) \cup Named(t)
  BY <1>2, <1>3, <1>4 DEF Named
<1>6. ASSUME NamesDistinct(s), NamesDistinct(t), Named(s) \cap Named(t) = {} PROVE NamesDistinct(u)
  <2> SUFFICES ASSUME NEW i \in DOMAIN u, NEW j \in DOMAIN u, u[i].name = u[j].name PROVE i = j
    BY DEF NamesDistinct
  <2>1. i \in Nat /\ j \in Nat
    BY <1>1 DEF u
  <2>2. \A k \in DOMAIN s, l \in DOMAIN t : s[k].name # t[l].name
    BY <1>6 DEF Named
  <2>3. \/ i \in DOMAIN s /\ j \in DOMAIN s /\ s[i].name = s[j].name
        \/ /\ i - Len(s) \in DOMAIN t /\ j - Len(s) \in DOMAIN t
           /\ t[i - Len(s)].name = t[j - Len(s)].name
    BY <1>2, <2>2
  <2>4. i = j \/ i - Len(s) = j - Len(s)
    BY <1>6, <2>3 DEF NamesDistinct
  <2>5. QED
    BY <1>1, <2>1, <2>4
<1>7. QED
  BY <1>5, <1>6 DEF u

LEMMA Flattened ==
  ASSUME NEW store, NEW fields \in Seq(Typed)
  PROVE  /\ FlattenSchema(store, fields) \in Seq(Cells(store))
         /\ DOMAIN FlattenSchema(store, fields) = DOMAIN fields
         /\ \A i \in DOMAIN fields : /\ FlattenSchema(store, fields)[i].name = NameIn(store, fields[i].path)
                                      /\ FlattenSchema(store, fields)[i].deleted = fields[i].deleted
<1> DEFINE flat == FlattenSchema(store, fields)
<1>1. DOMAIN fields = 1 .. Len(fields) /\ Len(fields) \in Nat /\ \A i \in DOMAIN fields : fields[i] \in Typed
  OBVIOUS
<1>2. flat = [i \in DOMAIN fields |-> [name |-> NameIn(store, fields[i].path),
                                      type |-> fields[i].type, deleted |-> fields[i].deleted]]
  BY DEF FlattenSchema
<1> HIDE DEF flat
<1>3. \A i \in DOMAIN fields : flat[i] \in Cells(store)
  BY <1>1, <1>2 DEF Cells, Typed
<1>4. flat \in [1 .. Len(fields) -> Cells(store)]
  BY <1>1, <1>2, <1>3
<1>5. flat \in Seq(Cells(store))
  BY <1>1, <1>4
<1>6. QED
  BY <1>2, <1>5 DEF flat

\* The fields of the master under the out key.
LEMMA JoinedFields ==
  ASSUME EditedInv
  PROVE  /\ Joined \in Seq(Typed)
         /\ \A i \in DOMAIN Joined : /\ i \in DOMAIN master /\ ~ Joined[i].deleted
                                    /\ Joined[i].path = <<OutKey>> \o master[i].path
         /\ denorm => DOMAIN Joined = DOMAIN master
         /\ ~ denorm => Joined = << >>
<1>1. CASE denorm
  <2>1. Joined = [i \in DOMAIN master |-> [master[i] EXCEPT !.path = <<OutKey>> \o @]]
    BY <1>1 DEF Joined
  <2>2. /\ DOMAIN master = 1 .. Len(master) /\ Len(master) \in Nat
        /\ \A i \in DOMAIN master : master[i] \in Typed /\ ~ master[i].deleted
    BY DEF EditedInv
  <2>3. ASSUME NEW i \in DOMAIN master
        PROVE  /\ Joined[i] \in Typed /\ Joined[i].path = <<OutKey>> \o master[i].path /\ ~ Joined[i].deleted
    <3>1. /\ master[i].path \in Seq(Seq(STRING)) /\ master[i].type \in AnyType /\ ~ master[i].deleted
          /\ master[i] = [path |-> master[i].path, type |-> master[i].type, deleted |-> master[i].deleted]
      BY <2>2, FieldsAssumption DEF Typed, Path, EditedInv
    <3>2. <<OutKey>> \o master[i].path \in Seq(Seq(STRING))
      BY <3>1, FieldsAssumption
    <3>3. /\ Joined[i].path = <<OutKey>> \o master[i].path
          /\ Joined[i] = [path |-> <<OutKey>> \o master[i].path, type |-> master[i].type, deleted |-> master[i].deleted]
      BY <2>1, <3>1
    <3>4. QED
      BY <2>2, <3>1, <3>2, <3>3 DEF Typed, Path, AnyPath
  <2>4. Joined \in [1 .. Len(master) -> Typed]
    BY <2>1, <2>2, <2>3
  <2>5. Joined \in Seq(Typed)
    BY <2>2, <2>4
  <2>6. QED
    BY <1>1, <2>1, <2>3, <2>5
<1>2. CASE ~ denorm
  BY <1>2 DEF Joined
<1>3. QED
  BY <1>1, <1>2

\* The names of the fields that are not deleted.
ThereIn(fields) == { fields[i].name : i \in { k \in DOMAIN fields : ~ fields[k].deleted } }

LEMMA ConcatThere ==
  ASSUME NEW S, NEW s \in Seq(S), NEW t \in Seq(S)
  PROVE  ThereIn(s) \cup ThereIn(t) \subseteq ThereIn(s \o t)
<1>1. \A i \in DOMAIN s : i \in DOMAIN (s \o t) /\ (s \o t)[i] = s[i]
  OBVIOUS
<1>2. \A i \in DOMAIN t : Len(s) + i \in DOMAIN (s \o t) /\ (s \o t)[Len(s) + i] = t[i]
  OBVIOUS
<1>3. QED
  BY <1>1, <1>2 DEF ThereIn

LEMMA SelectedThere ==
  ASSUME NEW S, NEW seq \in Seq(S), NEW at \in SUBSET DOMAIN seq, NEW i \in at, ~ seq[i].deleted
  PROVE  seq[i].name \in ThereIn(ElementsAt(seq, at))
<1> PICK k \in DOMAIN ElementsAt(seq, at) : ElementsAt(seq, at)[k] = seq[i]
  BY ElementsSelected
<1> QED
  BY DEF ThereIn

LEMMA TransformFields ==
  ASSUME EditedInv
  PROVE  /\ transforms \in Seq(Typed) /\ PathsDistinct(transforms)
         /\ \A i \in DOMAIN transforms : /\ ~ transforms[i].deleted
                                        /\ transforms[i].path \in { t.path : t \in Transforms }
<1>1. CASE transforms = << >>
  BY <1>1 DEF PathsDistinct
<1>2. CASE transforms # << >>
  <2>0. PICK t \in Transforms : transforms = <<There(t)>>
    BY <1>2 DEF EditedInv
  <2>1. t \in [path : Path, type : STRING]
    BY FieldsAssumption
  <2>2. There(t) \in Typed /\ There(t).path = t.path /\ ~ There(t).deleted
    BY <2>1 DEF There, Typed, AnyPath, AnyType
  <2>3. DOMAIN transforms = {1} /\ transforms[1] = There(t) /\ transforms \in Seq(Typed)
    BY <2>0, <2>2
  <2>4. QED
    BY <2>2, <2>3 DEF PathsDistinct
<1>3. QED
  BY <1>1, <1>2

LEMMA SynctsTyped == <<Syncts>> \in Seq(Typed) /\ DOMAIN <<Syncts>> = {1} /\ <<Syncts>>[1] = Syncts /\ ~ Syncts.deleted
<1>1. Syncts.path \in AnyPath /\ Syncts.type \in AnyType /\ Syncts.deleted = FALSE
  BY DEF Syncts, AnyPath, AnyType
<1>2. Syncts = [path |-> Syncts.path, type |-> Syncts.type, deleted |-> Syncts.deleted]
  BY DEF Syncts
<1>3. Syncts \in Typed /\ ~ Syncts.deleted
  BY <1>1, <1>2 DEF Typed
<1>4. QED
  BY <1>3

LEMMA GatheredCells ==
  ASSUME EditedInv, NEW store
  PROVE  /\ schema \o Joined \in Seq(Typed)
         /\ TableColumns(store) \in Seq(Cells(store)) /\ Made(store) \in Seq(Cells(store))
         /\ Kept(store) \in SUBSET DOMAIN TableColumns(store)
         /\ ElementsAt(TableColumns(store), Kept(store)) \in Seq(Cells(store))
         /\ FlattenSchema(store, <<Syncts>>) \in Seq(Cells(store))
         /\ Gathered(store) \in Seq(Cells(store))
<1>1. schema \in Seq(Typed) /\ Joined \in Seq(Typed) /\ transforms \in Seq(Typed)
  BY JoinedFields, TransformFields DEF EditedInv
<1>2. schema \o Joined \in Seq(Typed)
  BY <1>1
<1>3. TableColumns(store) \in Seq(Cells(store)) /\ Made(store) \in Seq(Cells(store))
  BY <1>1, <1>2, Flattened DEF TableColumns, Made
<1>4. FlattenSchema(store, <<Syncts>>) \in Seq(Cells(store))
  BY SynctsTyped, Flattened
<1>5. Kept(store) \in SUBSET DOMAIN TableColumns(store)
  BY DEF Kept
<1>6. ElementsAt(TableColumns(store), Kept(store)) \in Seq(Cells(store))
  BY <1>3, <1>5, ElementsSelected
<1>7. QED
  BY <1>2, <1>3, <1>4, <1>5, <1>6 DEF Gathered

\* Every field that events have values for is among the fields of each table.
LEMMA WantedListed ==
  ASSUME EditedInv, NEW store \in Stores
  PROVE  Wanted(store) \subseteq Named(AllFields(store))
<1> DEFINE kept   == ElementsAt(TableColumns(store), Kept(store))
           syncts == FlattenSchema(store, <<Syncts>>)
           fields == schema \o Joined
<1>1. /\ fields \in Seq(Typed) /\ TableColumns(store) \in Seq(Cells(store)) /\ Made(store) \in Seq(Cells(store))
      /\ Kept(store) \in SUBSET DOMAIN TableColumns(store) /\ kept \in Seq(Cells(store)) /\ syncts \in Seq(Cells(store))
      /\ Gathered(store) \in Seq(Cells(store))
  BY GatheredCells
<1>2. ThereIn(kept) \cup ThereIn(Made(store)) \cup ThereIn(syncts) \subseteq ThereIn(Gathered(store))
  <2>1. kept \o Made(store) \in Seq(Cells(store)) /\ Gathered(store) = (kept \o Made(store)) \o syncts
    BY <1>1 DEF Gathered
  <2> HIDE DEF kept, syncts
  <2>2. ThereIn(kept) \cup ThereIn(Made(store)) \subseteq ThereIn(kept \o Made(store))
    BY <1>1, ConcatThere
  <2>3. ThereIn(kept \o Made(store)) \cup ThereIn(syncts) \subseteq ThereIn((kept \o Made(store)) \o syncts)
    BY <1>1, <2>1, ConcatThere
  <2>4. QED
    BY <2>1, <2>2, <2>3
<1>3. ThereIn(Gathered(store)) = Named(AllFields(store))
  <2> DEFINE there == { i \in DOMAIN Gathered(store) : ~ Gathered(store)[i].deleted }
  <2>1. there \in SUBSET DOMAIN Gathered(store)
    OBVIOUS
  <2>2. Named(ElementsAt(Gathered(store), there)) = { Gathered(store)[i].name : i \in there }
    BY <1>1, <2>1, SelectedNames
  <2>3. QED
    BY <2>2, AllFieldsGathered DEF ThereIn
<1>4. \A i \in DOMAIN transforms : NameIn(store, transforms[i].path) \in ThereIn(Made(store))
  <2>1. /\ DOMAIN Made(store) = DOMAIN transforms
        /\ \A i \in DOMAIN transforms : /\ ~ Made(store)[i].deleted
                                       /\ Made(store)[i].name = NameIn(store, transforms[i].path)
    BY TransformFields, Flattened DEF Made
  <2>2. QED
    BY <2>1 DEF ThereIn
<1>5. Named(Made(store)) \subseteq ThereIn(Made(store))
  <2>1. /\ DOMAIN Made(store) = DOMAIN transforms
        /\ \A i \in DOMAIN transforms : ~ transforms[i].deleted /\ Made(store)[i].deleted = transforms[i].deleted
    BY TransformFields, Flattened DEF Made
  <2>2. QED
    BY <2>1 DEF Named, ThereIn
<1>6. NameIn(store, Syncts.path) \in ThereIn(syncts)
  <2>1. /\ DOMAIN syncts = {1} /\ syncts[1].name = NameIn(store, Syncts.path) /\ ~ syncts[1].deleted
    <3>1. /\ DOMAIN syncts = DOMAIN <<Syncts>>
          /\ \A i \in DOMAIN <<Syncts>> : /\ syncts[i].name = NameIn(store, <<Syncts>>[i].path)
                                         /\ syncts[i].deleted = <<Syncts>>[i].deleted
      <4>1. <<Syncts>> \in Seq(Typed)
        BY SynctsTyped
      <4>2. QED
        BY <4>1, Flattened
    <3> HIDE DEF syncts
    <3>2. QED
      BY <3>1, SynctsTyped
  <2> HIDE DEF syncts
  <2>2. QED
    BY <2>1 DEF ThereIn
<1>7. ASSUME NEW i \in DOMAIN fields, ~ fields[i].deleted
      PROVE  NameIn(store, fields[i].path) \in ThereIn(kept) \cup ThereIn(Made(store))
  <2>1. i \in DOMAIN TableColumns(store) /\ TableColumns(store)[i].name = NameIn(store, fields[i].path) /\ ~ TableColumns(store)[i].deleted
    BY <1>1, <1>7, Flattened DEF TableColumns
  <2>2. CASE i \in Kept(store)
    BY <1>1, <2>1, <2>2, SelectedThere
  <2>3. CASE i \notin Kept(store)
    BY <1>5, <2>1, <2>3 DEF Kept
  <2>4. QED
    BY <2>2, <2>3
<1>8. ASSUME NEW i \in DOMAIN schema, ~ schema[i].deleted
      PROVE  NameIn(store, schema[i].path) \in ThereIn(kept) \cup ThereIn(Made(store))
  <2>1. i \in DOMAIN fields /\ fields[i] = schema[i]
    BY JoinedFields DEF EditedInv
  <2>2. QED
    BY <1>7, <1>8, <2>1
<1>9. ASSUME NEW i \in DOMAIN master, denorm
      PROVE  NameIn(store, <<OutKey>> \o master[i].path) \in ThereIn(kept) \cup ThereIn(Made(store))
  <2>1. i \in DOMAIN Joined /\ ~ Joined[i].deleted /\ Joined[i].path = <<OutKey>> \o master[i].path
    BY <1>9, JoinedFields
  <2>2. Len(schema) + i \in DOMAIN fields /\ fields[Len(schema) + i] = Joined[i]
    BY <2>1, JoinedFields DEF EditedInv
  <2>3. QED
    BY <1>7, <2>1, <2>2
<1>10. ASSUME NEW name \in Wanted(store) PROVE name \in ThereIn(Gathered(store))
  <2> HIDE DEF kept, syncts, fields
  <2>1. PICK p : /\ name = NameIn(store, p)
                 /\ \/ \E i \in DOMAIN schema : ~ schema[i].deleted /\ p = schema[i].path
                    \/ denorm /\ \E i \in DOMAIN master : p = <<OutKey>> \o master[i].path
                    \/ \E i \in DOMAIN transforms : p = transforms[i].path
                    \/ p = Syncts.path
    BY DEF Wanted, Paths
  <2>2. QED
    BY <1>2, <1>4, <1>6, <1>8, <1>9, <2>1
<1>11. QED
  BY <1>3, <1>10

LEMMA JoinedApart ==
  ASSUME NEW p \in Path, NEW q \in Path, <<OutKey>> \o p = <<OutKey>> \o q
  PROVE  p = q
<1>1. /\ p \in Seq(Seq(STRING)) /\ q \in Seq(Seq(STRING)) /\ <<OutKey>> \in Seq(Seq(STRING))
      /\ Len(p) \in Nat /\ Len(q) \in Nat /\ Len(<<OutKey>>) = 1
  BY FieldsAssumption DEF Path
<1>2. Len(<<OutKey>> \o p) = 1 + Len(p) /\ Len(<<OutKey>> \o q) = 1 + Len(q)
  BY <1>1
<1>3. Len(p) = Len(q)
  BY <1>1, <1>2
<1>4. ASSUME NEW i \in 1 .. Len(p) PROVE p[i] = q[i]
  <2>1. (<<OutKey>> \o p)[1 + i] = p[i] /\ (<<OutKey>> \o q)[1 + i] = q[i]
    BY <1>1, <1>3
  <2>2. QED
    BY <2>1
<1>5. \A n \in Nat : \A f, g \in [1 .. n -> Seq(STRING)] : (\A i \in 1 .. n : f[i] = g[i]) => f = g
  OBVIOUS
<1>6. p \in [1 .. Len(p) -> Seq(STRING)] /\ q \in [1 .. Len(p) -> Seq(STRING)]
  BY <1>1, <1>3
<1>7. QED
  BY <1>1, <1>4, <1>5, <1>6

\* The fields of the Druid table have names of their own.
LEMMA DruidFields ==
  ASSUME EditedInv
  PROVE  /\ AllFields(Druid) \in Seq(Cells(Druid))
         /\ NamesDistinct(AllFields(Druid)) /\ Named(AllFields(Druid)) \cap ToSet(SourceOf) = {}
<1> DEFINE own    == { f.path : f \in Fields }
           joined == { <<OutKey>> \o p : p \in MasterPaths }
           made   == { t.path : t \in Transforms }
           kept   == ElementsAt(TableColumns(Druid), Kept(Druid))
           syncts == FlattenSchema(Druid, <<Syncts>>)
           fields == schema \o Joined
<1>1. /\ fields \in Seq(Typed) /\ TableColumns(Druid) \in Seq(Cells(Druid)) /\ Made(Druid) \in Seq(Cells(Druid))
      /\ Kept(Druid) \in SUBSET DOMAIN TableColumns(Druid) /\ kept \in Seq(Cells(Druid)) /\ syncts \in Seq(Cells(Druid))
      /\ Gathered(Druid) \in Seq(Cells(Druid)) /\ Gathered(Druid) = (kept \o Made(Druid)) \o syncts
  BY GatheredCells DEF Gathered
<1>2. \A p : NameIn(Druid, p) = p
  BY DEF NameIn
<1>3. /\ own \cap joined = {}
      /\ (own \cup joined \cup made) \cap ({Syncts.path} \cup ToSet(SourceOf)) = {}
  BY PathNamesAssumption
<1>4. /\ DOMAIN TableColumns(Druid) = DOMAIN fields /\ \A i \in DOMAIN fields : TableColumns(Druid)[i].name = fields[i].path
      /\ DOMAIN Made(Druid) = DOMAIN transforms
      /\ \A i \in DOMAIN transforms : Made(Druid)[i].name = transforms[i].path
  BY <1>1, <1>2, TransformFields, Flattened DEF TableColumns, Made
<1>5. /\ Named(Made(Druid)) \subseteq made /\ NamesDistinct(Made(Druid))
  BY <1>4, TransformFields DEF Named, NamesDistinct, PathsDistinct
<1>6. Named(syncts) = {Syncts.path} /\ NamesDistinct(syncts)
  <2>1. <<Syncts>> \in Seq(Typed) /\ DOMAIN <<Syncts>> = {1} /\ <<Syncts>>[1] = Syncts
    BY SynctsTyped
  <2>2. /\ DOMAIN syncts = DOMAIN <<Syncts>>
        /\ \A i \in DOMAIN <<Syncts>> : syncts[i].name = NameIn(Druid, <<Syncts>>[i].path)
    <3>1. <<Syncts>> \in Seq(Typed)
      BY <2>1
    <3>2. QED
      BY <3>1, Flattened
  <2> HIDE DEF syncts
  <2>3. DOMAIN syncts = {1} /\ syncts[1].name = Syncts.path
    BY <1>2, <2>1, <2>2
  <2>4. QED
    BY <2>3 DEF Named, NamesDistinct
<1>7. ASSUME NEW i \in DOMAIN fields
      PROVE  \/ /\ i \in DOMAIN schema /\ fields[i].path = schema[i].path /\ fields[i].path \in own
             \/ /\ i - Len(schema) \in DOMAIN master
                /\ fields[i].path = <<OutKey>> \o master[i - Len(schema)].path /\ fields[i].path \in joined
  <2>1. schema \in Seq(Typed) /\ Joined \in Seq(Typed)
    BY JoinedFields DEF EditedInv
  <2>2. CASE i <= Len(schema)
    <3>1. i \in DOMAIN schema /\ fields[i] = schema[i]
      BY <1>7, <2>1, <2>2
    <3>2. schema[i].path \in own
      BY <3>1 DEF EditedInv
    <3>3. QED
      BY <3>1, <3>2
  <2>3. CASE i > Len(schema)
    <3>1. i - Len(schema) \in DOMAIN Joined /\ fields[i] = Joined[i - Len(schema)]
      BY <1>7, <2>1, <2>3
    <3>2. /\ i - Len(schema) \in DOMAIN master
          /\ Joined[i - Len(schema)].path = <<OutKey>> \o master[i - Len(schema)].path
      BY <3>1, JoinedFields
    <3>3. master[i - Len(schema)].path \in MasterPaths
      BY <3>2 DEF EditedInv
    <3>4. QED
      BY <3>1, <3>2, <3>3
  <2>4. i \in Nat /\ Len(schema) \in Nat
    BY <1>1, <2>1
  <2> HIDE DEF fields, own, joined
  <2>5. i <= Len(schema) \/ i > Len(schema)
    BY <2>4
  <2>6. QED
    BY <2>2, <2>3, <2>5
<1>8. Named(TableColumns(Druid)) \subseteq own \cup joined
  BY <1>4, <1>7 DEF Named
<1>9. NamesDistinct(TableColumns(Druid))
  <2> HIDE DEF own, joined
  <2> SUFFICES ASSUME NEW i \in DOMAIN fields, NEW j \in DOMAIN fields, fields[i].path = fields[j].path
               PROVE  i = j
    BY <1>4 DEF NamesDistinct
  <2>1. i \in Nat /\ j \in Nat /\ Len(schema) \in Nat
    BY <1>1 DEF EditedInv
  <2> HIDE DEF fields
  <2>2. CASE fields[i].path \in own
    <3>1. i \in DOMAIN schema /\ j \in DOMAIN schema /\ schema[i].path = schema[j].path
      BY <1>3, <1>7, <2>2
    <3>2. QED
      BY <3>1 DEF EditedInv, PathsDistinct
  <2>3. CASE fields[i].path \in joined
    <3>1. /\ i - Len(schema) \in DOMAIN master /\ j - Len(schema) \in DOMAIN master
          /\ <<OutKey>> \o master[i - Len(schema)].path = <<OutKey>> \o master[j - Len(schema)].path
      BY <1>3, <1>7, <2>3
    <3>2. master[i - Len(schema)].path \in Path /\ master[j - Len(schema)].path \in Path
      BY <3>1, FieldsAssumption DEF EditedInv
    <3>3. master[i - Len(schema)].path = master[j - Len(schema)].path
      BY <3>1, <3>2, JoinedApart
    <3>4. i - Len(schema) = j - Len(schema)
      BY <3>1, <3>3 DEF EditedInv, PathsDistinct
    <3>5. QED
      BY <2>1, <3>4
  <2>4. QED
    BY <1>7, <2>2, <2>3
<1>10. NamesDistinct(kept) /\ Named(kept) \subseteq Named(TableColumns(Druid)) /\ Named(kept) \cap Named(Made(Druid)) = {}
  <2>1. Named(kept) = { TableColumns(Druid)[i].name : i \in Kept(Druid) }
    BY <1>1, SelectedNames
  <2>2. NamesDistinct(kept)
    BY <1>1, <1>9, SelectedDistinct
  <2> HIDE DEF kept
  <2>3. QED
    BY <2>1, <2>2 DEF Kept, Named
<1> HIDE DEF own, joined, made, kept, syncts, fields
<1>11. kept \o Made(Druid) \in Seq(Cells(Druid))
  BY <1>1
<1>12. NamesDistinct(kept \o Made(Druid)) /\ Named(kept \o Made(Druid)) \subseteq own \cup joined \cup made
  <2>1. Named(kept \o Made(Druid)) = Named(kept) \cup Named(Made(Druid)) /\ NamesDistinct(kept \o Made(Druid))
    BY <1>1, <1>5, <1>10, ConcatNames
  <2>2. QED
    BY <1>5, <1>8, <1>10, <2>1
<1>13. NamesDistinct(Gathered(Druid)) /\ Named(Gathered(Druid)) \subseteq own \cup joined \cup made \cup {Syncts.path}
  <2>1. Named(kept \o Made(Druid)) \cap Named(syncts) = {}
    BY <1>3, <1>6, <1>12
  <2> DEFINE all == kept \o Made(Druid)
  <2>2. all \in Seq(Cells(Druid)) /\ NamesDistinct(all) /\ Named(all) \cap Named(syncts) = {}
    BY <1>11, <1>12, <2>1
  <2> HIDE DEF all
  <2>3. Named(all \o syncts) = Named(all) \cup Named(syncts) /\ NamesDistinct(all \o syncts)
    BY <1>1, <1>6, <2>2, ConcatNames
  <2>4. QED
    BY <1>1, <1>6, <1>12, <2>3 DEF all
<1>14. Syncts.path \notin ToSet(SourceOf)
  BY DEF Syncts, ToSet, SourceOf
<1>15. Named(Gathered(Druid)) \cap ToSet(SourceOf) = {}
  BY <1>3, <1>13, <1>14
<1>16. QED
  <2> DEFINE there == { i \in DOMAIN Gathered(Druid) : ~ Gathered(Druid)[i].deleted }
  <2>1. there \in SUBSET DOMAIN Gathered(Druid) /\ AllFields(Druid) = ElementsAt(Gathered(Druid), there)
    BY AllFieldsGathered
  <2> HIDE DEF there
  <2> DEFINE all == Gathered(Druid)
  <2>2. AllFields(Druid) \in Seq(Cells(Druid))
    <3>1. all \in Seq(Cells(Druid)) /\ there \in SUBSET DOMAIN all
      BY <1>1, <2>1
    <3> HIDE DEF all
    <3>2. ElementsAt(all, there) \in Seq(Cells(Druid))
      BY <3>1, ElementsSelected
    <3>3. QED
      BY <2>1, <3>2 DEF all
  <2>3. NamesDistinct(AllFields(Druid))
    BY <1>1, <1>13, <2>1, SelectedDistinct
  <2>4. Named(AllFields(Druid)) \subseteq Named(Gathered(Druid))
    <3>1. all \in Seq(Cells(Druid)) /\ there \in SUBSET DOMAIN all
      BY <1>1, <2>1
    <3> HIDE DEF all
    <3>2. Named(ElementsAt(all, there)) = { all[i].name : i \in there }
      BY <3>1, SelectedNames
    <3>3. QED
      BY <2>1, <3>1, <3>2 DEF all, Named
  <2>5. QED
    BY <1>15, <2>2, <2>3, <2>4

\* The partition key comes first, and nothing is lost.
LEMMA PartitionedFields ==
  ASSUME NEW S, NEW fields \in Seq(S), NamesDistinct(fields), NEW key
  PROVE  /\ Partitioned(fields, key) \in Seq(S) /\ NamesDistinct(Partitioned(fields, key))
         /\ Named(Partitioned(fields, key)) = Named(fields)
         /\ key \in Named(fields) => /\ 1 \in DOMAIN Partitioned(fields, key)
                                    /\ Partitioned(fields, key)[1].name = key
<1> DEFINE moved == { i \in DOMAIN fields : fields[i].name = key }
           first == IF moved = {} THEN << >> ELSE <<fields[Position(moved, 1)]>>
           rest  == ElementsAt(fields, DOMAIN fields \ moved)
<1>1. Partitioned(fields, key) = first \o rest
  BY DEF Partitioned
<1>2. moved \in SUBSET DOMAIN fields /\ DOMAIN fields \ moved \in SUBSET DOMAIN fields
  OBVIOUS
<1>3. Named(rest) = { fields[i].name : i \in DOMAIN fields \ moved }
  BY <1>2, SelectedNames
<1>4. NamesDistinct(rest)
  BY <1>2, SelectedDistinct
<1>5. rest \in Seq(S)
  BY <1>2, ElementsSelected
<1>6. moved # {} => Position(moved, 1) \in moved
  <2>1. /\ Len(fields) \in Nat /\ DOMAIN fields = 1 .. Len(fields)
    OBVIOUS
  <2> HIDE DEF moved
  <2>2. /\ Cardinality(moved) \in Nat
        /\ \A k \in 1 .. Cardinality(moved) : Position(moved, k) \in moved
        /\ \A i \in moved : \E k \in 1 .. Cardinality(moved) : Position(moved, k) = i
    BY <1>2, <2>1, PositionsCounted
  <2>3. moved # {} => 1 \in 1 .. Cardinality(moved)
    BY <2>2
  <2>4. QED
    BY <2>2, <2>3
<1>7. first \in Seq(S) /\ NamesDistinct(first) /\ Named(first) = (IF moved = {} THEN {} ELSE {key})
      /\ (moved # {} => DOMAIN first = {1} /\ first[1].name = key)
  <2>1. CASE moved = {}
    <3>1. first = << >>
      BY <2>1
    <3> HIDE DEF first, moved
    <3>2. QED
      BY <2>1, <3>1 DEF NamesDistinct, Named
  <2>2. CASE moved # {}
    <3>1. PICK x : x = fields[Position(moved, 1)]
      OBVIOUS
    <3>1a. Position(moved, 1) \in DOMAIN fields /\ fields[Position(moved, 1)].name = key
      BY <1>6, <2>2
    <3>1b. x \in S /\ x.name = key
      BY <3>1, <3>1a
    <3>2. first = <<x>> /\ x \in S /\ x.name = key
      BY <2>2, <3>1, <3>1b
    <3> HIDE DEF first, moved
    <3>3. DOMAIN first = {1} /\ first[1] = x /\ first \in Seq(S)
      BY <3>2
    <3>4. QED
      BY <2>2, <3>2, <3>3 DEF NamesDistinct, Named
  <2>3. QED
    BY <2>1, <2>2
<1>8. Named(first) \cap Named(rest) = {} /\ Named(first) \cup Named(rest) = Named(fields)
  <2>1. \A name : name \in Named(fields) <=> \E i \in DOMAIN fields : fields[i].name = name
    BY DEF Named
  <2>2. moved = {} <=> key \notin Named(fields)
    BY <2>1
  <2>3. Named(rest) = Named(fields) \ {key}
    BY <1>3, <2>1
  <2> HIDE DEF first, rest, moved
  <2>4. QED
    BY <1>7, <2>2, <2>3
<1>9. key \in Named(fields) => moved # {}
  BY DEF Named
<1> HIDE DEF first, rest, moved
<1>10. NamesDistinct(first \o rest) /\ Named(first \o rest) = Named(fields)
  <2>1. Named(first \o rest) = Named(first) \cup Named(rest)
    BY <1>5, <1>7, ConcatNames
  <2>2. NamesDistinct(first \o rest)
    BY <1>4, <1>5, <1>7, <1>8, ConcatNames
  <2>3. QED
    BY <1>8, <2>1, <2>2
<1>11. moved # {} => 1 \in DOMAIN (first \o rest) /\ (first \o rest)[1] = first[1]
  <2>1. moved # {} => Len(first) = 1 /\ Len(rest) \in Nat
    BY <1>5, <1>7
  <2>2. QED
    BY <1>5, <1>7, <2>1
<1>12. first \o rest \in Seq(S)
  BY <1>5, <1>7
<1>13. QED
  BY <1>1, <1>7, <1>9, <1>10, <1>11, <1>12

\* No dimension of Druid is there twice, all fields but the timestamp are dimensions, and the
\* partition key is the first of them.
LEMMA DruidDimensionsDistinct ==
  ASSUME NEW S, NEW fields \in Seq(S), NamesDistinct(fields), Named(fields) \cap ToSet(SourceOf) = {}
  PROVE  /\ \A i, j \in DOMAIN DruidDimensions(fields) : DruidDimensions(fields)[i] = DruidDimensions(fields)[j] => i = j
         /\ ToSet(DruidDimensions(fields)) = (Named(fields) \ {Timestamp}) \cup ToSet(SourceOf)
         /\ Partition \in ToSet(DruidDimensions(fields)) => DruidDimensions(fields)[1] = Partition
<1> DEFINE ordered == Partitioned(fields, Partition)
           at      == { i \in DOMAIN ordered : ordered[i].name # Timestamp }
           columns == ElementsAt(ordered, at)
           names   == [i \in DOMAIN columns |-> columns[i].name]
           dims    == DruidDimensions(fields)
<1>1. dims = names \o SourceOf
  BY DEF DruidDimensions
<1>2. /\ ordered \in Seq(S) /\ NamesDistinct(ordered) /\ Named(ordered) = Named(fields)
      /\ Partition \in Named(fields) => 1 \in DOMAIN ordered /\ ordered[1].name = Partition
  BY PartitionedFields
<1>3. at \in SUBSET DOMAIN ordered /\ \A i \in DOMAIN ordered : i \in at <=> ordered[i].name # Timestamp
  OBVIOUS
<1> HIDE DEF at, ordered
<1>4. /\ Cardinality(at) \in Nat /\ DOMAIN columns = 1 .. Cardinality(at) /\ columns \in Seq(S)
      /\ \A k \in 1 .. Cardinality(at) : Position(at, k) \in at /\ columns[k] = ordered[Position(at, k)]
      /\ \A i \in at : \E k \in 1 .. Cardinality(at) : Position(at, k) = i
      /\ \A k, l \in 1 .. Cardinality(at) : k < l => Position(at, k) < Position(at, l)
  BY <1>2, <1>3, ElementsSelected
<1>5. NamesDistinct(columns)
  BY <1>2, <1>3, SelectedDistinct
<1>6. Named(columns) = Named(fields) \ {Timestamp}
  <2>1. Named(columns) = { ordered[i].name : i \in at }
    BY <1>2, <1>3, SelectedNames
  <2>2. QED
    BY <1>2, <1>3, <2>1 DEF Named
<1>7. Partition \in Named(columns) => 1 \in DOMAIN columns /\ columns[1].name = Partition
  <2> SUFFICES ASSUME Partition \in Named(columns) PROVE 1 \in DOMAIN columns /\ columns[1].name = Partition
    OBVIOUS
  <2>1. 1 \in at /\ ordered[1].name = Partition
    BY <1>2, <1>3, <1>6
  <2>2. PICK k \in 1 .. Cardinality(at) : Position(at, k) = 1
    BY <1>4, <2>1
  <2>3. 1 \in 1 .. Cardinality(at) /\ Position(at, 1) \in at /\ k \in Nat
    BY <1>4, <2>2
  <2>4. \A i \in at : i \in Nat /\ i >= 1
    BY <1>2, <1>3
  <2>5. ~ (1 < k)
    BY <1>4, <2>2, <2>3, <2>4
  <2>6. k = 1
    BY <2>2, <2>5
  <2>7. QED
    BY <1>4, <2>1, <2>2, <2>3, <2>6
<1>8. ToSet(names) = Named(columns) /\ DOMAIN names = DOMAIN columns /\ \A i \in DOMAIN columns : names[i] = columns[i].name
  BY DEF ToSet, Named
<1>9. \A i, j \in DOMAIN names : names[i] = names[j] => i = j
  BY <1>5, <1>8 DEF NamesDistinct
<1>10. names \in Seq(ToSet(names)) /\ Len(names) = Cardinality(at)
  <2>1. names \in [1 .. Cardinality(at) -> ToSet(names)]
    BY <1>4 DEF ToSet
  <2> HIDE DEF names
  <2>2. QED
    BY <1>4, <2>1
<1> HIDE DEF names, columns
<1>11. DOMAIN SourceOf = {1, 2} /\ SourceOf[1] # SourceOf[2] /\ Len(SourceOf) = 2 /\ SourceOf \in Seq(ToSet(SourceOf))
  <2>1. DOMAIN SourceOf = {1, 2} /\ SourceOf[1] # SourceOf[2] /\ Len(SourceOf) = 2
    BY DEF SourceOf
  <2>2. PICK a, b : SourceOf = <<a, b>>
    BY DEF SourceOf
  <2>3. ToSet(SourceOf) = {a, b}
    BY <2>2 DEF ToSet
  <2>4. SourceOf \in Seq(ToSet(SourceOf))
    BY <2>2, <2>3
  <2>5. QED
    BY <2>1, <2>4
<1>12. /\ DOMAIN dims = 1 .. Cardinality(at) + 2
       /\ \A i \in 1 .. Cardinality(at) : dims[i] = names[i]
       /\ dims[Cardinality(at) + 1] = SourceOf[1] /\ dims[Cardinality(at) + 2] = SourceOf[2]
  <2> DEFINE T == ToSet(names) \cup ToSet(SourceOf)
  <2>1. names \in Seq(T) /\ SourceOf \in Seq(T)
    BY <1>10, <1>11
  <2> HIDE DEF T
  <2>2. /\ DOMAIN (names \o SourceOf) = 1 .. Len(names) + Len(SourceOf)
        /\ \A i \in 1 .. Len(names) : (names \o SourceOf)[i] = names[i]
        /\ \A i \in 1 .. Len(SourceOf) : (names \o SourceOf)[Len(names) + i] = SourceOf[i]
    BY <2>1
  <2> HIDE DEF dims
  <2>3. QED
    BY <1>1, <1>4, <1>10, <1>11, <2>2
<1> HIDE DEF dims
<1>13. ToSet(dims) = ToSet(names) \cup ToSet(SourceOf)
  <2>1. /\ \A i \in DOMAIN dims : i \in DOMAIN names \/ i = Cardinality(at) + 1 \/ i = Cardinality(at) + 2
        /\ DOMAIN names \subseteq DOMAIN dims
        /\ Cardinality(at) + 1 \in DOMAIN dims /\ Cardinality(at) + 2 \in DOMAIN dims
    BY <1>4, <1>8, <1>12
  <2>2. QED
    BY <1>4, <1>8, <1>11, <1>12, <2>1 DEF ToSet
<1>14. ASSUME NEW i \in DOMAIN dims, NEW j \in DOMAIN dims, dims[i] = dims[j] PROVE i = j
  <2>1. /\ \A k \in DOMAIN names : names[k] \notin ToSet(SourceOf)
        /\ SourceOf[1] \in ToSet(SourceOf) /\ SourceOf[2] \in ToSet(SourceOf)
    BY <1>6, <1>8, <1>11 DEF ToSet
  <2>2. /\ i \in DOMAIN names \/ i = Cardinality(at) + 1 \/ i = Cardinality(at) + 2
        /\ j \in DOMAIN names \/ j = Cardinality(at) + 1 \/ j = Cardinality(at) + 2
    BY <1>4, <1>8, <1>12, <1>14
  <2>3. \A k \in DOMAIN names : dims[k] = names[k]
    BY <1>4, <1>8, <1>12
  <2>4. QED
    BY <1>9, <1>11, <1>12, <1>14, <2>1, <2>2, <2>3
<1>15. Partition \in ToSet(dims) => dims[1] = Partition
  <2>1. Partition \notin ToSet(SourceOf)
    BY PathNamesAssumption
  <2>2. QED
    BY <1>4, <1>7, <1>8, <1>12, <1>13, <2>1
<1>16. QED
  BY <1>6, <1>8, <1>13, <1>14, <1>15 DEF dims

\* The columns of a new table of the lake are numbered, and have every field.
LEMMA LakeColumnsNew ==
  ASSUME EditedInv
  PROVE  /\ Numbered(HudiColumnSpec(AllFields(Lake)))
         /\ Named(AllFields(Lake)) \subseteq Named(HudiColumnSpec(AllFields(Lake)))
<1> DEFINE there  == { i \in DOMAIN Gathered(Lake) : ~ Gathered(Lake)[i].deleted }
           plain  == [name : { NameIn(Lake, p) : p \in AnyPath }, type : AnyType]
<1>1. AllFields(Lake) \in Seq(Cells(Lake))
  <2>1. Gathered(Lake) \in Seq(Cells(Lake)) /\ there \in SUBSET DOMAIN Gathered(Lake)
    BY GatheredCells
  <2>2. AllFields(Lake) = ElementsAt(Gathered(Lake), there)
    BY AllFieldsGathered
  <2> HIDE DEF there
  <2>3. ElementsAt(Gathered(Lake), there) \in Seq(Cells(Lake))
    BY <2>1, ElementsSelected
  <2>4. QED
    BY <2>2, <2>3
<1> SUFFICES ASSUME NEW fields \in Seq(Cells(Lake))
             PROVE  Numbered(HudiColumnSpec(fields)) /\ Named(fields) \subseteq Named(HudiColumnSpec(fields))
  BY <1>1
<1> DEFINE own     == [i \in DOMAIN fields |-> [name |-> fields[i].name, type |-> fields[i].type]]
           source  == [i \in DOMAIN SourceOf |-> [name |-> NameIn(Lake, SourceOf[i]), type |-> "string"]]
           columns == own \o source
           spec    == HudiColumnSpec(fields)
<1>2. own \in Seq(plain) /\ DOMAIN own = DOMAIN fields /\ \A i \in DOMAIN own : own[i].name = fields[i].name
  <2>1. DOMAIN fields = 1 .. Len(fields) /\ Len(fields) \in Nat /\ \A i \in DOMAIN fields : fields[i] \in Cells(Lake)
    OBVIOUS
  <2>2. \A i \in DOMAIN fields : own[i] \in plain /\ own[i].name = fields[i].name
    BY <2>1 DEF Cells
  <2>3. own \in [1 .. Len(fields) -> plain] /\ DOMAIN own = DOMAIN fields
    BY <2>1, <2>2
  <2> HIDE DEF own, plain
  <2>4. QED
    BY <2>1, <2>2, <2>3
<1>3. source \in Seq(plain)
  <2>1. DOMAIN SourceOf = 1 .. 2 /\ \A i \in 1 .. 2 : SourceOf[i] \in AnyPath
    <3>1. DOMAIN SourceOf = 1 .. 2
      BY DEF SourceOf
    <3>2. QED
      BY <3>1 DEF AnyPath, ToSet
  <2>2. "string" \in AnyType
    BY DEF AnyType
  <2>3. \A i \in 1 .. 2 : source[i] \in plain
    BY <2>1, <2>2
  <2>4. source \in [1 .. 2 -> plain]
    BY <2>1, <2>3
  <2> HIDE DEF source, plain
  <2>5. \A n \in Nat : \A f \in [1 .. n -> plain] : f \in Seq(plain)
    OBVIOUS
  <2>6. QED
    BY <2>4, <2>5
<1>4. spec = [i \in DOMAIN columns |-> [name |-> columns[i].name, type |-> columns[i].type, index |-> i]]
  BY DEF HudiColumnSpec
<1> HIDE DEF own, source, spec
<1>5. columns \in Seq(plain)
  BY <1>2, <1>3
<1>6. /\ DOMAIN columns = 1 .. Len(columns) /\ Len(columns) \in Nat /\ \A i \in DOMAIN columns : columns[i] \in plain
      /\ \A i \in DOMAIN own : i \in DOMAIN columns /\ columns[i] = own[i]
  <2> HIDE DEF plain
  <2>1. \A i \in DOMAIN own : i \in DOMAIN columns /\ columns[i] = own[i]
    BY <1>2, <1>3
  <2> HIDE DEF columns
  <2>2. QED
    BY <1>5, <2>1
<1> HIDE DEF columns
<1>7. \A i \in DOMAIN columns : spec[i] \in LakeColumns /\ spec[i].index = i /\ spec[i].name = columns[i].name
  BY <1>4, <1>6 DEF LakeColumns
<1>8. Numbered(spec)
  <2>1. spec \in [1 .. Len(columns) -> LakeColumns]
    BY <1>4, <1>6, <1>7
  <2>2. spec \in Seq(LakeColumns) /\ DOMAIN spec = DOMAIN columns
    BY <1>6, <2>1
  <2>3. QED
    BY <1>7, <2>2 DEF Numbered
<1>9. Named(fields) \subseteq Named(spec)
  <2>1. \A i \in DOMAIN fields : i \in DOMAIN spec /\ spec[i].name = fields[i].name
    BY <1>2, <1>4, <1>6, <1>7
  <2>2. QED
    BY <2>1 DEF Named
<1>10. QED
  BY <1>8, <1>9 DEF spec

\* TableColumns that are appended to a table go on with the numbers of those that it has.
LEMMA LakeColumnsUpdated ==
  ASSUME NEW old, Numbered(old), old # << >>, NEW columns, Numbered(columns)
  PROVE  /\ Numbered(UpdatedColumns(old, columns)) /\ IsPrefix(old, UpdatedColumns(old, columns))
         /\ Named(columns) \subseteq Named(UpdatedColumns(old, columns))
<1> DEFINE at  == { i \in DOMAIN columns : columns[i].name \notin Named(old) }
           new == ElementsAt(columns, at)
           added == [i \in DOMAIN new |-> [new[i] EXCEPT !.index = NextIndex(old, i)]]
           all == old \o added
<1>1. /\ old \in Seq(LakeColumns) /\ Len(old) \in Nat /\ DOMAIN old = 1 .. Len(old) /\ Len(old) > 0
      /\ \A i \in DOMAIN old : old[i].index = i
      /\ columns \in Seq(LakeColumns) /\ at \in SUBSET DOMAIN columns
  BY DEF Numbered
<1>2. UpdatedColumns(old, columns) = all
  BY DEF UpdatedColumns
<1>3. MaxIndex(old) = Len(old)
  <2> DEFINE indexes == { old[i].index : i \in DOMAIN old }
             Greatest(n) == n \in indexes /\ \A i \in DOMAIN old : old[i].index <= n
  <2>1. Len(old) \in DOMAIN old /\ old[Len(old)].index = Len(old)
    BY <1>1
  <2>2. Greatest(Len(old))
    BY <1>1, <2>1
  <2>3. MaxIndex(old) = CHOOSE n \in indexes : \A i \in DOMAIN old : old[i].index <= n
    BY DEF MaxIndex
  <2>4. Greatest(MaxIndex(old))
    BY <2>2, <2>3
  <2>5. MaxIndex(old) \in 1 .. Len(old) /\ Len(old) <= MaxIndex(old)
    BY <1>1, <2>1, <2>4
  <2>6. QED
    BY <1>1, <2>5
<1> HIDE DEF at
<1>4. /\ new \in Seq(LakeColumns) /\ Len(new) \in Nat /\ DOMAIN new = 1 .. Len(new)
      /\ \A i \in at : \E k \in DOMAIN new : new[k] = columns[i]
  BY <1>1, ElementsSelected
<1> HIDE DEF new
<1>5. ASSUME NEW i \in DOMAIN new
      PROVE  added[i] \in LakeColumns /\ added[i].index = Len(old) + i /\ added[i].name = new[i].name
  <2>1. new[i] \in LakeColumns /\ i \in Nat /\ NextIndex(old, i) = Len(old) + i
    BY <1>3, <1>4 DEF NextIndex
  <2>2. added[i] = [new[i] EXCEPT !.index = Len(old) + i]
    BY <2>1
  <2>3. Len(old) + i \in Nat
    BY <1>1, <2>1
  <2> HIDE DEF added
  <2>4. QED
    BY <2>1, <2>2, <2>3 DEF LakeColumns
<1>6. DOMAIN added = DOMAIN new
  OBVIOUS
<1> HIDE DEF added
<1>7. added \in Seq(LakeColumns) /\ Len(added) = Len(new)
  <2>1. added = [i \in DOMAIN new |-> added[i]]
    BY DEF added
  <2>2. added \in [1 .. Len(new) -> LakeColumns]
    BY <1>4, <1>5, <2>1
  <2>3. QED
    BY <1>4, <2>2
<1>8. /\ all \in Seq(LakeColumns) /\ Len(all) = Len(old) + Len(new) /\ DOMAIN all = 1 .. Len(old) + Len(new)
      /\ \A i \in 1 .. Len(old) : all[i] = old[i]
      /\ \A i \in 1 .. Len(new) : all[Len(old) + i] = added[i]
  <2>1. \A s, t \in Seq(LakeColumns) :
          /\ s \o t \in Seq(LakeColumns) /\ Len(s \o t) = Len(s) + Len(t) /\ DOMAIN (s \o t) = 1 .. Len(s) + Len(t)
          /\ \A i \in 1 .. Len(s) : (s \o t)[i] = s[i]
          /\ \A i \in 1 .. Len(t) : (s \o t)[Len(s) + i] = t[i]
    OBVIOUS
  <2> HIDE DEF all
  <2>2. /\ old \o added \in Seq(LakeColumns) /\ Len(old \o added) = Len(old) + Len(added)
        /\ DOMAIN (old \o added) = 1 .. Len(old) + Len(added)
        /\ \A i \in 1 .. Len(old) : (old \o added)[i] = old[i]
        /\ \A i \in 1 .. Len(added) : (old \o added)[Len(old) + i] = added[i]
    BY <1>1, <1>7, <2>1
  <2>3. QED
    BY <1>7, <2>2 DEF all
<1> HIDE DEF all
<1>9. ASSUME NEW i \in DOMAIN all PROVE all[i].index = i
  <2>1. i \in Nat /\ i <= Len(old) + Len(new) /\ i > 0
    BY <1>1, <1>4, <1>8
  <2>2. CASE i <= Len(old)
    BY <1>1, <1>8, <2>1, <2>2
  <2>3. CASE i > Len(old)
    <3>1. i - Len(old) \in 1 .. Len(new) /\ Len(old) + (i - Len(old)) = i
      BY <1>1, <1>4, <2>1, <2>3
    <3>2. all[i] = added[i - Len(old)]
      BY <1>8, <3>1
    <3>3. QED
      BY <1>4, <1>5, <3>1, <3>2
  <2>4. QED
    BY <1>1, <2>1, <2>2, <2>3
<1>10. Numbered(all)
  BY <1>8, <1>9 DEF Numbered
<1>11. IsPrefix(old, all)
  <2>1. SubSeq(all, 1, Len(old)) = [i \in 1 .. Len(old) |-> all[i]]
    BY <1>1, <1>4, <1>8
  <2>2. SubSeq(old, 1, Len(old)) = [i \in 1 .. Len(old) |-> old[i]]
    BY <1>1
  <2>3. QED
    BY <1>1, <1>4, <1>8, <2>1, <2>2 DEF IsPrefix
<1>12. Named(columns) \subseteq Named(all)
  <2>1. \A i \in DOMAIN columns : columns[i].name \in Named(old) \/ i \in at
    BY DEF at
  <2>2. Named(old) \subseteq Named(all)
    <3>1. \A i \in DOMAIN old : i \in DOMAIN all /\ all[i] = old[i]
      BY <1>1, <1>4, <1>8
    <3>2. QED
      BY <3>1 DEF Named
  <2>3. \A k \in DOMAIN new : new[k].name \in Named(all)
    <3>1. \A k \in DOMAIN new : Len(old) + k \in DOMAIN all /\ all[Len(old) + k].name = new[k].name
      BY <1>1, <1>4, <1>5, <1>8
    <3>2. QED
      BY <3>1 DEF Named
  <2>4. \A i \in DOMAIN columns : columns[i].name \in Named(all)
    BY <1>4, <2>1, <2>2, <2>3
  <2>5. QED
    BY <2>4 DEF Named
<1>13. QED
  BY <1>2, <1>10, <1>11, <1>12

LEMMA PrefixOfItself == ASSUME NEW S, NEW s \in Seq(S) PROVE IsPrefix(s, s) /\ IsPrefix(<< >>, s)
<1>1. Len(s) \in Nat /\ Len(s) <= Len(s) /\ 0 <= Len(s) /\ Len(<< >>) = 0
  OBVIOUS
<1>2. SubSeq(<< >>, 1, 0) = << >> /\ SubSeq(s, 1, 0) = << >>
  OBVIOUS
<1>3. QED
  BY <1>1, <1>2 DEF IsPrefix

\* A publication makes the columns of the lake out of those of the live table.
LEMMA LakeSpecMade ==
  ASSUME SpecsInv
  PROVE  /\ Numbered(GetHudiIngestionSpec) /\ IsPrefix(lives[Lake], GetHudiIngestionSpec)
         /\ Wanted(Lake) \subseteq Named(GetHudiIngestionSpec)
<1> DEFINE columns == HudiColumnSpec(AllFields(Lake))
<1>1. Numbered(columns) /\ Named(AllFields(Lake)) \subseteq Named(columns) /\ columns \in Seq(LakeColumns)
  BY LakeColumnsNew DEF SpecsInv, Numbered
<1>2. Wanted(Lake) \subseteq Named(columns)
  BY <1>1, WantedListed DEF SpecsInv, Stores
<1>3. GetHudiIngestionSpec = IF lives[Lake] = NoSpec THEN columns ELSE UpdatedColumns(lives[Lake], columns)
  BY DEF GetHudiIngestionSpec
<1> HIDE DEF columns
<1>4. CASE lives[Lake] = NoSpec
  BY <1>1, <1>2, <1>3, <1>4, PrefixOfItself DEF NoSpec
<1>5. CASE lives[Lake] # NoSpec
  BY <1>1, <1>2, <1>3, <1>5, LakeColumnsUpdated DEF NoSpec, SpecsInv
<1>6. QED
  BY <1>4, <1>5

LEMMA PublishTablesStep ==
  ASSUME SpecsInv, PublishTables
  PROVE  SpecsInv' /\ SpecsCoverEvents
<1> DEFINE fields == AllFields(Druid)
           dims   == DruidDimensions(fields)
<1>1. UNCHANGED <<schema, denorm, transforms, master, lake, lives>>
  BY DEF PublishTables
<1>2. /\ drafts'[Druid] = [dimensions |-> dims, paths |-> DruidFlattenSpec(fields)]
      /\ drafts'[Lake] = IF lake THEN GetHudiIngestionSpec ELSE drafts[Lake]
  <2>1. Druid \in Stores /\ Lake \in Stores /\ Druid # Lake
    BY DEF Stores, Druid, Lake
  <2>2. drafts' = [s \in Stores |-> CASE s = Druid -> GetDruidIngestionSpec
                                     [] s = Lake  -> IF lake THEN GetHudiIngestionSpec ELSE drafts[s]]
    BY DEF PublishTables
  <2>3. drafts'[Druid] = GetDruidIngestionSpec /\ drafts'[Lake] = IF lake THEN GetHudiIngestionSpec ELSE drafts[Lake]
    BY <2>1, <2>2
  <2>4. QED
    BY <2>3 DEF GetDruidIngestionSpec
<1>3. EditedInv'
  BY <1>1 DEF SpecsInv, EditedInv
<1>4. /\ fields \in Seq(Cells(Druid)) /\ NamesDistinct(fields) /\ Named(fields) \cap ToSet(SourceOf) = {}
  BY DruidFields DEF SpecsInv
<1>5. /\ \A i, j \in DOMAIN dims : dims[i] = dims[j] => i = j
      /\ ToSet(dims) = (Named(fields) \ {Timestamp}) \cup ToSet(SourceOf)
      /\ Partition \in ToSet(dims) => dims[1] = Partition
  <2> HIDE DEF fields
  <2>1. QED
    BY <1>4, DruidDimensionsDistinct
<1>6. Wanted(Druid) \subseteq Named(fields)
  BY WantedListed DEF SpecsInv, Stores
<1>7. Timestamp \in Named(fields)
  <2>1. Timestamp \in Wanted(Druid)
    <3>1. PICK i \in DOMAIN schema : schema[i].path = Timestamp /\ ~ schema[i].deleted
      BY DEF SpecsInv, EditedInv
    <3>2. NameIn(Druid, Timestamp) = Timestamp
      BY DEF NameIn
    <3>3. QED
      BY <3>1, <3>2 DEF Wanted
  <2>2. QED
    BY <1>6, <2>1
<1> HIDE DEF fields, dims
<1>8. DimensionsDistinct'
  <2>1. drafts'[Druid].dimensions = dims
    BY <1>2
  <2>2. QED
    BY <1>5, <2>1 DEF DimensionsDistinct
<1>9. Numbered(drafts'[Lake]) /\ IsPrefix(lives'[Lake], drafts'[Lake])
  BY <1>1, <1>2, LakeSpecMade DEF SpecsInv
<1>10. SpecsInv'
  BY <1>1, <1>3, <1>8, <1>9 DEF SpecsInv
<1>11. SpecsCoverEvents
  <2>1. drafts'[Druid].dimensions = dims /\ drafts'[Druid].paths = Named(fields) \cup ToSet(SourceOf)
    BY <1>2 DEF DruidFlattenSpec
  <2>2. lake => Wanted(Lake) \subseteq Named(drafts'[Lake])
    BY <1>2, LakeSpecMade
  <2>3. QED
    BY <1>5, <1>6, <1>7, <2>1, <2>2 DEF SpecsCoverEvents
<1>12. QED
  BY <1>10, <1>11

LEMMA DeployTablesStep ==
  ASSUME SpecsInv, DeployTables
  PROVE  SpecsInv'
<1>1. lives' = drafts /\ UNCHANGED <<schema, denorm, transforms, master, lake, drafts>>
  BY DEF DeployTables
<1>2. IsPrefix(drafts[Lake], drafts[Lake])
  BY PrefixOfItself DEF SpecsInv, Numbered
<1>3. EditedInv'
  BY <1>1 DEF SpecsInv, EditedInv
<1>4. QED
  BY <1>1, <1>2, <1>3 DEF SpecsInv, DimensionsDistinct

LEMMA ThereTyped ==
  ASSUME NEW f \in Fields \cup Transforms
  PROVE  There(f) \in Typed /\ There(f).path = f.path /\ ~ There(f).deleted /\ f.type \in AnyType
  BY FieldsAssumption DEF There, Typed, AnyPath, AnyType

LEMMA EditTablesStep ==
  ASSUME EditedInv, EditTables
  PROVE  EditedInv'
<1>1. /\ schema \in Seq(Typed) /\ Len(schema) \in Nat /\ DOMAIN schema = 1 .. Len(schema)
      /\ master \in Seq(Typed) /\ Len(master) \in Nat /\ DOMAIN master = 1 .. Len(master)
  BY DEF EditedInv
<1>2. ASSUME NEW f \in Fields, AddField(f) PROVE EditedInv'
  <2>1. /\ schema' = Append(schema, There(f)) /\ There(f) \in Typed /\ There(f).path = f.path
        /\ \A i \in DOMAIN schema : schema[i].path # f.path
        /\ UNCHANGED <<denorm, transforms, master, lake>>
    BY <1>2, ThereTyped DEF AddField, Paths
  <2>2. /\ schema' \in Seq(Typed) /\ Len(schema') = Len(schema) + 1 /\ DOMAIN schema' = 1 .. Len(schema) + 1
        /\ \A i \in DOMAIN schema : i \in DOMAIN schema' /\ schema'[i] = schema[i]
        /\ schema'[Len(schema) + 1] = There(f)
    BY <1>1, <2>1
  <2>3. \A i \in DOMAIN schema' : i \in DOMAIN schema \/ i = Len(schema) + 1
    BY <1>1, <2>2
  <2>4. PathsDistinct(schema')
    BY <2>1, <2>2, <2>3 DEF EditedInv, PathsDistinct
  <2>5. \A i \in DOMAIN schema' : schema'[i].path \in { g.path : g \in Fields }
    BY <2>1, <2>2, <2>3 DEF EditedInv
  <2>6. \E i \in DOMAIN schema' : schema'[i].path = Timestamp /\ ~ schema'[i].deleted
    BY <2>2 DEF EditedInv
  <2>7. QED
    BY <2>1, <2>2, <2>4, <2>5, <2>6 DEF EditedInv
<1>3. ASSUME NEW i \in DOMAIN schema, SwitchField(i) PROVE EditedInv'
  <2>1. /\ schema[i].path # Timestamp /\ schema' = [schema EXCEPT ![i].deleted = ~ @]
        /\ UNCHANGED <<denorm, transforms, master, lake>>
    BY <1>3 DEF SwitchField
  <2>2. \A j \in DOMAIN schema : /\ schema'[j] \in Typed /\ schema'[j].path = schema[j].path
                                 /\ j # i => schema'[j] = schema[j]
    <3>1. /\ schema'[i] = [schema[i] EXCEPT !.deleted = ~ @]
          /\ \A j \in DOMAIN schema : schema[j] \in Typed /\ (j # i => schema'[j] = schema[j])
      BY <1>1, <2>1
    <3>2. schema[i] \in Typed
      BY <3>1
    <3>3. schema'[i] \in Typed /\ schema'[i].path = schema[i].path
      BY <3>1, <3>2 DEF Typed
    <3>4. QED
      BY <3>1, <3>3
  <2>3. QED
    <3>1. schema' \in [1 .. Len(schema) -> Typed] /\ DOMAIN schema' = DOMAIN schema
      BY <1>1, <2>1, <2>2
    <3>2. schema' \in Seq(Typed)
      BY <1>1, <3>1
    <3>3. \E j \in DOMAIN schema : schema'[j].path = Timestamp /\ ~ schema'[j].deleted
      BY <2>1, <2>2 DEF EditedInv
    <3>4. QED
      BY <2>1, <2>2, <3>1, <3>2, <3>3 DEF EditedInv, PathsDistinct
<1>4. ASSUME NEW f \in Fields, NEW i \in DOMAIN schema, RetypeField(i, f) PROVE EditedInv'
  <2>1. /\ schema' = [schema EXCEPT ![i].type = f.type] /\ f.type \in AnyType
        /\ UNCHANGED <<denorm, transforms, master, lake>>
    BY <1>4, ThereTyped DEF RetypeField
  <2>2. \A j \in DOMAIN schema : /\ schema'[j] \in Typed /\ schema'[j].path = schema[j].path
                                 /\ schema'[j].deleted = schema[j].deleted
    <3>1. /\ schema'[i] = [schema[i] EXCEPT !.type = f.type]
          /\ \A j \in DOMAIN schema : schema[j] \in Typed /\ (j # i => schema'[j] = schema[j])
      BY <1>1, <2>1
    <3>2. schema[i] \in Typed
      BY <3>1
    <3>3. schema'[i] \in Typed /\ schema'[i].path = schema[i].path /\ schema'[i].deleted = schema[i].deleted
      BY <2>1, <3>1, <3>2 DEF Typed
    <3>4. QED
      BY <3>1, <3>3
  <2>3. schema' \in [1 .. Len(schema) -> Typed] /\ DOMAIN schema' = DOMAIN schema
    BY <1>1, <2>1, <2>2
  <2>4. schema' \in Seq(Typed)
    BY <1>1, <2>3
  <2>5. QED
    BY <2>1, <2>2, <2>3, <2>4 DEF EditedInv, PathsDistinct
<1>5. ASSUME NEW t \in Transforms, Transform(t) PROVE EditedInv'
  BY <1>5 DEF Transform, EditedInv
<1>6. ASSUME NEW p \in MasterPaths, ChangeMaster(p) PROVE EditedInv'
  <2> DEFINE new == [path |-> p, type |-> "string", deleted |-> FALSE]
  <2>1. UNCHANGED <<schema, denorm, transforms, lake>>
    BY <1>6 DEF ChangeMaster
  <2>2. CASE p \in Paths(master)
    <3>1. master' = << >>
      BY <1>6, <2>2 DEF ChangeMaster
    <3>2. QED
      BY <2>1, <3>1 DEF EditedInv, PathsDistinct
  <2>3. CASE p \notin Paths(master)
    <3>1. master' = Append(master, new) /\ \A i \in DOMAIN master : master[i].path # p
      BY <1>6, <2>3 DEF ChangeMaster, Paths
    <3>2. new \in Typed /\ new.path = p /\ ~ new.deleted
      BY FieldsAssumption DEF Typed, AnyPath, AnyType
    <3> HIDE DEF new
    <3>3. /\ master' \in Seq(Typed) /\ DOMAIN master' = 1 .. Len(master) + 1
          /\ \A i \in DOMAIN master : i \in DOMAIN master' /\ master'[i] = master[i]
          /\ master'[Len(master) + 1] = new
      BY <1>1, <3>1, <3>2
    <3>4. \A i \in DOMAIN master' : i \in DOMAIN master \/ i = Len(master) + 1
      BY <1>1, <3>3
    <3>5. PathsDistinct(master')
      BY <3>1, <3>2, <3>3, <3>4 DEF EditedInv, PathsDistinct
    <3>6. \A i \in DOMAIN master' : master'[i].path \in MasterPaths /\ ~ master'[i].deleted
      BY <1>6, <3>2, <3>3, <3>4 DEF EditedInv
    <3>7. QED
      BY <2>1, <3>3, <3>5, <3>6 DEF EditedInv
  <2>4. QED
    BY <2>2, <2>3
<1>7. ASSUME Denormalise \/ SwitchLake PROVE EditedInv'
  BY <1>7 DEF Denormalise, SwitchLake, EditedInv
<1>8. QED
  BY <1>2, <1>3, <1>4, <1>5, <1>6, <1>7 DEF EditTables

LEMMA TableInitial == TableInit => SpecsInv
<1> SUFFICES ASSUME TableInit PROVE SpecsInv
  OBVIOUS
<1>1. PICK f \in Fields : f.path = Timestamp /\ schema = <<There(f)>>
  BY DEF TableInit
<1>2. There(f) \in Typed /\ There(f).path = f.path /\ ~ There(f).deleted
  BY ThereTyped
<1>3. schema \in Seq(Typed) /\ DOMAIN schema = {1} /\ schema[1] = There(f)
  BY <1>1, <1>2
<1>4. EditedInv
  <2>1. master = << >> /\ transforms = << >> /\ denorm \in BOOLEAN /\ lake \in BOOLEAN
    BY DEF TableInit
  <2>2. PathsDistinct(schema) /\ PathsDistinct(master)
    BY <1>3, <2>1 DEF PathsDistinct
  <2>3. master \in Seq(Typed) /\ DOMAIN master = {}
    BY <2>1
  <2>4. \A i \in DOMAIN schema : schema[i].path \in { g.path : g \in Fields }
    BY <1>1, <1>2, <1>3
  <2>5. schema[1].path = Timestamp /\ ~ schema[1].deleted
    BY <1>1, <1>2, <1>3
  <2>6. \E i \in DOMAIN schema : schema[i].path = Timestamp /\ ~ schema[i].deleted
    BY <1>3, <2>5
  <2>7. QED
    BY <1>3, <2>1, <2>2, <2>3, <2>4, <2>6 DEF EditedInv
<1>5. drafts[Lake] = << >> /\ lives[Lake] = << >> /\ drafts[Druid] = NoSpec
  BY DEF TableInit, Stores, NoSpec
<1>6. Numbered(<< >>)
  BY DEF Numbered
<1>7. IsPrefix(<< >>, << >>)
  <2>1. << >> \in Seq({})
    OBVIOUS
  <2>2. QED
    BY <2>1, PrefixOfItself
<1>8. QED
  BY <1>4, <1>5, <1>6, <1>7 DEF SpecsInv, DimensionsDistinct

LEMMA SpecsStep == SpecsInv /\ [TableNext]_tableVars => SpecsInv'
<1> SUFFICES ASSUME SpecsInv, [TableNext]_tableVars PROVE SpecsInv'
  OBVIOUS
<1>1. CASE EditTables
  <2>1. EditedInv' /\ UNCHANGED <<drafts, lives>>
    BY <1>1, EditTablesStep DEF SpecsInv, EditTables
  <2>2. QED
    BY <2>1 DEF SpecsInv, DimensionsDistinct
<1>2. CASE UNCHANGED tableVars
  BY <1>2 DEF tableVars, SpecsInv, EditedInv, DimensionsDistinct
<1>3. QED
  BY <1>1, <1>2, PublishTablesStep, DeployTablesStep DEF TableNext

LEMMA TableSafety == TableSpec => []SpecsInv
  BY TableInitial, SpecsStep, PTL DEF TableSpec

\* No two columns of a table of the lake have one index and no dimension of Druid is there
\* twice, whichever edits of the dataset and its master precede a publication: getAllFields,
\* getDruidDimensions and getHudiIngestionSpecForUpdate.
THEOREM SpecsAreDistinct == TableSpec => []SpecsDistinct
<1>1. SpecsInv => SpecsDistinct
  BY DEF SpecsInv, Numbered, SpecsDistinct, LakeIndexesDistinct
<1>2. QED
  BY <1>1, TableSafety, PTL

\* A column of the live lake keeps its place in every later one, and a publication gives each
\* value of an event a column, a dimension and a path: getHudiIngestionSpecForUpdate,
\* getDruidFlattenSpec.
THEOREM TablesServe == TableSpec => TablesServeEvents
<1>1. ASSUME SpecsInv, [TableNext]_tableVars PROVE LakeColumnsKept /\ SpecsCoverEvents
  <2>1. IsPrefix(lives[Lake], lives[Lake]) /\ IsPrefix(lives[Lake], drafts[Lake])
    BY <1>1, PrefixOfItself DEF SpecsInv, Numbered
  <2>2. CASE PublishTables
    <3>1. lives' = lives
      BY <2>2 DEF PublishTables
    <3>2. QED
      BY <1>1, <2>1, <2>2, <3>1, PublishTablesStep DEF LakeColumnsKept
  <2>3. CASE ~ PublishTables
    <3>1. drafts' = drafts /\ (lives' = lives \/ lives' = drafts)
      BY <1>1, <2>3 DEF TableNext, EditTables, DeployTables, tableVars
    <3>2. QED
      BY <2>1, <3>1 DEF LakeColumnsKept, SpecsCoverEvents
  <2>4. QED
    BY <2>2, <2>3
<1>2. SpecsInv /\ [TableNext]_tableVars => [LakeColumnsKept /\ SpecsCoverEvents]_tableVars
  BY <1>1
<1>3. QED
  BY <1>2, TableSafety, PTL DEF TableSpec, TablesServeEvents

-----------------------------------------------------------------------------
(* The least and the greatest of naturals. *)

LEMMA LeastNumber ==
  ASSUME NEW S, S \subseteq Nat, S # {}
  PROVE  \E n \in S : \A m \in S : n <= m
<1>1. PICK n \in S : \A m \in S : ~ (<<m, n>> \in OpToRel(<, Nat))
  BY NatLessThanWellFounded, WFMin
<1>2. \A m \in S : ~ (m < n)
  BY <1>1 DEF OpToRel
<1>3. QED
  BY <1>2

LEMMA MinOf ==
  ASSUME NEW S, S \subseteq Nat, S # {}
  PROVE  Min(S) \in S /\ \A m \in S : Min(S) <= m
<1>1. \E x \in S : \A y \in S : x =< y
  BY LeastNumber
<1>2. QED
  BY <1>1 DEF Min

LEMMA MaxOf ==
  ASSUME NEW n \in Nat, NEW S, S \subseteq 0 .. n, S # {}
  PROVE  Max(S) \in S /\ \A m \in S : m <= Max(S)
<1> DEFINE below == { x \in Nat : n - x \in S }
<1>1. below \subseteq Nat /\ below # {}
  <2>1. PICK m \in S : TRUE
    OBVIOUS
  <2>2. m \in 0 .. n /\ n - (n - m) = m /\ n - m \in Nat
    BY <2>1
  <2>3. n - m \in below
    BY <2>2
  <2>4. QED
    BY <2>3
<1>2. PICK x \in below : \A y \in below : x <= y
  <2> HIDE DEF below
  <2> QED BY <1>1, LeastNumber
<1>3. n - x \in S
  BY <1>2
<1>4. ASSUME NEW m \in S PROVE n - x >= m
  <2>1. m \in 0 .. n /\ n - (n - m) = m /\ n - m \in Nat
    OBVIOUS
  <2>2. x <= n - m /\ x \in Nat
    BY <1>2, <2>1
  <2>3. QED
    BY <2>1, <2>2
<1>5. \E z \in S : \A y \in S : z >= y
  BY <1>3, <1>4
<1>6. Max(S) \in S /\ \A y \in S : Max(S) >= y
  BY <1>5 DEF Max
<1>7. ASSUME NEW m \in S PROVE m <= Max(S)
  BY <1>6
<1>8. QED
  BY <1>6, <1>7

\* Of what has a number up to a bound, something has the greatest.
LEMMA GreatestOf ==
  ASSUME NEW n \in Nat, NEW T, T # {}, NEW g \in [T -> 0 .. n]
  PROVE  \E t \in T : \A u \in T : g[u] <= g[t]
<1> DEFINE S == { g[t] : t \in T }
<1>1. S \subseteq 0 .. n /\ S # {}
  OBVIOUS
<1>2. Max(S) \in S /\ \A m \in S : m <= Max(S)
  <2> HIDE DEF S
  <2> QED BY <1>1, MaxOf
<1>3. QED
  BY <1>2

LEMMA UpToCounted == \A n \in Nat : IsFiniteSet(1 .. n) /\ Cardinality(1 .. n) = n
<1> SUFFICES ASSUME NEW n \in Nat PROVE IsFiniteSet(1 .. n) /\ Cardinality(1 .. n) = n
  OBVIOUS
<1>1. 1 \in Int /\ n \in Int
  OBVIOUS
<1>2. IsFiniteSet(1 .. n) /\ Cardinality(1 .. n) = IF 1 > n THEN 0 ELSE n - 1 + 1
  BY <1>1, FS_Interval
<1>3. QED
  BY <1>2

LEMMA PairCounted ==
  ASSUME NEW x, NEW y, y \notin {x}
  PROVE  Cardinality({x} \cup {y}) = 2
<1>1. IsFiniteSet({x}) /\ Cardinality({x}) = 1
  BY FS_Singleton
<1>2. Cardinality({x} \cup {y}) = IF y \in {x} THEN Cardinality({x}) ELSE Cardinality({x}) + 1
  BY <1>1, FS_AddElement
<1>3. QED
  BY <1>1, <1>2

-----------------------------------------------------------------------------
(* What is inferred for samples. *)

SampleTypes == Scalars \cup {Null}

Inferred == InferSchema(samples)

LEMMA ValueTypes == \A v \in Value : v # Empty <=> v.type \in SampleTypes
  BY DEF Value, Empty, SampleTypes, Scalars, Null

LEMMA InferredOf ==
  ASSUME samples \in Seq(Events)
  PROVE  /\ Len(samples) \in Nat /\ DOMAIN samples = 1 .. Len(samples) /\ DOMAIN Inferred = DOMAIN samples
         /\ Inferred \in Seq({ Inferred[i] : i \in DOMAIN samples })
         /\ \A i \in DOMAIN samples : \A f :
                /\ f \in DOMAIN Inferred[i] <=> f \in DOMAIN samples[i] /\ samples[i][f] # Empty
                /\ f \in DOMAIN samples[i] => f \in FieldNames /\ samples[i][f] \in Value
                /\ f \in DOMAIN Inferred[i] => Inferred[i][f] = samples[i][f] /\ samples[i][f].type \in SampleTypes
<1>1. Len(samples) \in Nat /\ DOMAIN samples = 1 .. Len(samples) /\ \A i \in DOMAIN samples : samples[i] \in Events
  OBVIOUS
<1>2. Inferred = [i \in DOMAIN samples |-> RemoveEmpty(samples[i])]
  BY DEF Inferred, InferSchema
<1>3. Inferred \in Seq({ Inferred[i] : i \in DOMAIN samples })
  <2> DEFINE S == { Inferred[i] : i \in DOMAIN samples }
  <2>1. \A i \in DOMAIN samples : Inferred[i] \in S
    OBVIOUS
  <2> HIDE DEF S
  <2>2. Inferred \in [1 .. Len(samples) -> S]
    BY <1>1, <1>2, <2>1
  <2>3. Inferred \in Seq(S)
    BY <1>1, <2>2
  <2>4. QED
    BY <2>3 DEF S
<1>4. ASSUME NEW i \in DOMAIN samples, NEW f
      PROVE  /\ f \in DOMAIN Inferred[i] <=> f \in DOMAIN samples[i] /\ samples[i][f] # Empty
             /\ f \in DOMAIN samples[i] => f \in FieldNames /\ samples[i][f] \in Value
             /\ f \in DOMAIN Inferred[i] => Inferred[i][f] = samples[i][f] /\ samples[i][f].type \in SampleTypes
  <2>1. f \in DOMAIN samples[i] => f \in FieldNames /\ samples[i][f] \in Value
    BY <1>1, EventsAssumption
  <2>2. Inferred[i] = [x \in { g \in DOMAIN samples[i] : samples[i][g] # Empty } |-> samples[i][x]]
    BY <1>2 DEF RemoveEmpty, Restrict
  <2>3. QED
    BY <2>1, <2>2, ValueTypes
<1>5. QED
  BY <1>1, <1>2, <1>3, <1>4

\* A field has its types at the positions of the samples that have it, in their order.
Having(f) == { i \in DOMAIN Inferred : f \in DOMAIN Inferred[i] }

LEMMA OccurrencesOf ==
  ASSUME samples \in Seq(Events), NEW f
  PROVE  LET found == Occurrences(Inferred, f) n == Cardinality(Having(f)) IN
         /\ n \in Nat /\ n <= Len(samples) /\ DOMAIN found = 1 .. n
         /\ \A k \in 1 .. n : Position(Having(f), k) \in Having(f) /\ found[k] = samples[Position(Having(f), k)][f]
         /\ \A i \in Having(f) : \E k \in 1 .. n : Position(Having(f), k) = i
         /\ \A k, l \in 1 .. n : k < l => Position(Having(f), k) < Position(Having(f), l)
         /\ \A i \in Having(f) : i \in DOMAIN samples /\ f \in DOMAIN samples[i] /\ samples[i][f] \in Value \ {Empty}
<1> DEFINE at == Having(f)
           n == Cardinality(at)
           S == { Inferred[i] : i \in DOMAIN samples }
<1>1. /\ Len(samples) \in Nat /\ DOMAIN samples = 1 .. Len(samples) /\ DOMAIN Inferred = DOMAIN samples
      /\ Inferred \in Seq(S)
      /\ \A i \in DOMAIN samples : \A g :
                /\ g \in DOMAIN Inferred[i] <=> g \in DOMAIN samples[i] /\ samples[i][g] # Empty
                /\ g \in DOMAIN samples[i] => g \in FieldNames /\ samples[i][g] \in Value
                /\ g \in DOMAIN Inferred[i] => Inferred[i][g] = samples[i][g] /\ samples[i][g].type \in SampleTypes
  BY InferredOf
<1>2. at \in SUBSET DOMAIN Inferred /\ \A i \in at : f \in DOMAIN Inferred[i]
  BY DEF Having
<1> HIDE DEF S
<1>3. /\ n \in Nat /\ DOMAIN ElementsAt(Inferred, at) = 1 .. n
      /\ \A k \in 1 .. n : Position(at, k) \in at /\ ElementsAt(Inferred, at)[k] = Inferred[Position(at, k)]
      /\ \A i \in at : \E k \in 1 .. n : Position(at, k) = i
      /\ \A k, l \in 1 .. n : k < l => Position(at, k) < Position(at, l)
  <2>1. /\ Cardinality(at) \in Nat /\ DOMAIN ElementsAt(Inferred, at) = 1 .. Cardinality(at)
        /\ \A k \in 1 .. Cardinality(at) : Position(at, k) \in at /\ ElementsAt(Inferred, at)[k] = Inferred[Position(at, k)]
        /\ \A i \in at : \E k \in 1 .. Cardinality(at) : Position(at, k) = i /\ ElementsAt(Inferred, at)[k] = Inferred[i]
        /\ \A k, l \in 1 .. Cardinality(at) : k < l => Position(at, k) < Position(at, l)
    <3> HIDE DEF at
    <3> QED BY <1>1, <1>2, ElementsSelected
  <2>2. QED
    BY <2>1
<1>4. Occurrences(Inferred, f) = [k \in 1 .. n |-> ElementsAt(Inferred, at)[k][f]]
  BY <1>3 DEF Occurrences, Having
<1>5. n <= Len(samples)
  <2>1. at \in SUBSET (1 .. Len(samples)) /\ IsFiniteSet(1 .. Len(samples)) /\ Cardinality(1 .. Len(samples)) = Len(samples)
    BY <1>1, <1>2, FS_Interval
  <2>2. QED
    BY <2>1, FS_Subset
<1>6. \A k \in 1 .. n : Occurrences(Inferred, f)[k] = samples[Position(at, k)][f]
  BY <1>1, <1>2, <1>3, <1>4
<1>7. \A i \in at : i \in DOMAIN samples /\ f \in DOMAIN samples[i] /\ samples[i][f] \in Value \ {Empty}
  BY <1>1, <1>2
<1>8. QED
  BY <1>3, <1>4, <1>5, <1>6, <1>7

\* The positions at which a field has a type.
TypeAt(f, t) == { k \in DOMAIN Types(Inferred, f) : Types(Inferred, f)[k] = t }

\* A type is as often among the types of a field as it is in the samples.
LEMMA TypesCounted ==
  ASSUME samples \in Seq(Events), NEW f
  PROVE  LET types == Types(Inferred, f) n == Cardinality(Having(f)) IN
         /\ n \in Nat /\ DOMAIN types = 1 .. n /\ \A k \in 1 .. n : types[k] \in SampleTypes
         /\ \A t \in SampleTypes : Cardinality(TypeAt(f, t)) = Count(f, t) /\ Count(f, t) \in 0 .. n
         /\ \A t \in SampleTypes : t \in ToSet(types) <=> Count(f, t) > 0
         /\ f \in FieldsOf(Inferred) <=> n # 0
         /\ f \in FieldsOf(Inferred) => f \in FieldNames
<1> DEFINE types == Types(Inferred, f)
           n == Cardinality(Having(f))
           P(k) == Position(Having(f), k)
<1>1. /\ n \in Nat /\ n <= Len(samples) /\ DOMAIN Occurrences(Inferred, f) = 1 .. n
      /\ \A k \in 1 .. n : P(k) \in Having(f) /\ Occurrences(Inferred, f)[k] = samples[P(k)][f]
      /\ \A i \in Having(f) : \E k \in 1 .. n : P(k) = i
      /\ \A k, l \in 1 .. n : k < l => P(k) < P(l)
      /\ \A i \in Having(f) : i \in DOMAIN samples /\ f \in DOMAIN samples[i] /\ samples[i][f] \in Value \ {Empty}
  BY OccurrencesOf
<1>2. /\ Len(samples) \in Nat /\ DOMAIN samples = 1 .. Len(samples) /\ DOMAIN Inferred = DOMAIN samples
      /\ \A i \in DOMAIN samples : \A g :
                /\ g \in DOMAIN Inferred[i] <=> g \in DOMAIN samples[i] /\ samples[i][g] # Empty
                /\ g \in DOMAIN samples[i] => g \in FieldNames /\ samples[i][g] \in Value
  BY InferredOf
<1>3. types = [k \in 1 .. n |-> Occurrences(Inferred, f)[k].type]
  BY <1>1 DEF Types
<1>4. DOMAIN types = 1 .. n /\ \A k \in 1 .. n : types[k] = samples[P(k)][f].type /\ types[k] \in SampleTypes
  BY <1>1, <1>3, ValueTypes
<1> HIDE DEF types, n, P
<1>5. ASSUME NEW t \in SampleTypes PROVE Cardinality(TypeAt(f, t)) = Count(f, t) /\ Count(f, t) \in 0 .. n /\ (TypeAt(f, t) # {} <=> Count(f, t) > 0)
  <2> DEFINE A == TypeAt(f, t)
             B == { i \in DOMAIN samples : f \in DOMAIN samples[i] /\ samples[i][f].type = t }
             g == [k \in A |-> P(k)]
  <2>1. A \subseteq 1 .. n /\ \A k \in A : types[k] = t
    BY <1>4 DEF TypeAt, types
  <2>2. IsFiniteSet(A) /\ Cardinality(A) \in 0 .. n /\ (A = {} <=> Cardinality(A) = 0)
    <3>1. IsFiniteSet(1 .. n) /\ Cardinality(1 .. n) = n
      BY <1>1, UpToCounted
    <3>2. QED
      BY <1>1, <2>1, <3>1, FS_Subset, FS_CardinalityType, FS_EmptySet
  <2>3. \A k \in A : P(k) \in B
    BY <1>1, <1>4, <2>1
  <2>4. \A k, l \in A : P(k) = P(l) => k = l
    <3> SUFFICES ASSUME NEW k \in A, NEW l \in A, P(k) = P(l), k # l PROVE FALSE
      OBVIOUS
    <3>1. k \in 1 .. n /\ l \in 1 .. n /\ P(k) \in Nat /\ P(l) \in Nat
      BY <1>1, <1>2, <2>1
    <3>2. k < l \/ l < k
      BY <1>1, <3>1
    <3>3. P(k) < P(l) \/ P(l) < P(k)
      BY <1>1, <3>1, <3>2
    <3>4. QED
      BY <3>1, <3>3
  <2>5. ASSUME NEW i \in B PROVE \E k \in A : P(k) = i
    <3>1. samples[i][f] # Empty
      BY <1>2, ValueTypes
    <3>2. i \in Having(f)
      BY <1>2, <3>1 DEF Having
    <3>3. PICK k \in 1 .. n : P(k) = i
      BY <1>1, <3>2
    <3>4. types[k] = t
      BY <1>4, <3>3
    <3>5. k \in A
      BY <1>4, <3>3, <3>4 DEF TypeAt, types
    <3>6. QED
      BY <3>3, <3>5
  <2>6. g \in Bijection(A, B)
    <3>1. \A k \in A : g[k] = P(k)
      OBVIOUS
    <3>2. g \in [A -> B]
      BY <2>3
    <3> HIDE DEF A, B, g
    <3>3. g \in Injection(A, B)
      BY <2>4, <3>1, <3>2 DEF Injection, IsInjective
    <3>4. g \in Surjection(A, B)
      BY <2>5, <3>1, <3>2 DEF Surjection
    <3>5. QED
      BY <3>3, <3>4 DEF Bijection
  <2>7. Cardinality(B) = Cardinality(A)
    <3> HIDE DEF A, B, g
    <3>1. ExistsBijection(A, B)
      BY <2>6 DEF ExistsBijection
    <3>2. QED
      BY <2>2, <3>1, FS_Bijection
  <2>8. QED
    BY <1>1, <2>2, <2>7 DEF Count
<1>6. \A t \in SampleTypes : t \in ToSet(types) <=> TypeAt(f, t) # {}
  BY DEF ToSet, TypeAt, types
<1>7. f \in FieldsOf(Inferred) <=> n # 0
  <2>1. f \in FieldsOf(Inferred) <=> Having(f) # {}
    BY DEF FieldsOf, Having
  <2>2. Having(f) # {} <=> 1 .. n # {}
    BY <1>1
  <2>3. QED
    BY <1>1, <2>1, <2>2
<1>8. f \in FieldsOf(Inferred) => f \in FieldNames
  BY <1>2 DEF FieldsOf
<1>9. QED
  BY <1>1, <1>4, <1>5, <1>6, <1>7, <1>8 DEF types, n

\* The type a field is resolved to: samples have it, none more often, and it is null only if
\* all have null or types differ in how often they are.
LEMMA ResolvedTo ==
  ASSUME samples \in Seq(Events), NEW f \in FieldsOf(Inferred)
  PROVE  LET types == Types(Inferred, f) t == ResolvedType(types) IN
         /\ t \in SampleTypes /\ Count(f, t) > 0 /\ \A u \in SampleTypes : Count(f, u) <= Count(f, t)
         /\ t = Null => \A u \in SampleTypes \ {Null} : Count(f, u) = 0 \/ \E v \in SampleTypes : Count(f, v) \notin {0, Count(f, u)}
<1> DEFINE types == Types(Inferred, f)
           n == Cardinality(Having(f))
           All == ToSet(types)
           Most == { t \in All : \A u \in All : Count(f, u) <= Count(f, t) }
<1>1. /\ n \in Nat /\ n # 0 /\ DOMAIN types = 1 .. n /\ \A k \in 1 .. n : types[k] \in SampleTypes
      /\ \A t \in SampleTypes : Cardinality(TypeAt(f, t)) = Count(f, t) /\ Count(f, t) \in 0 .. n
      /\ \A t \in SampleTypes : t \in ToSet(types) <=> Count(f, t) > 0
  BY TypesCounted
<1>2. All \subseteq SampleTypes /\ types[1] \in All /\ \A k \in DOMAIN types : types[k] \in All
  BY <1>1 DEF ToSet
<1>3. MostFrequentOf(types) = Most
  <2>1. \A t \in All : Cardinality({ i \in DOMAIN types : types[i] = t }) = Count(f, t)
    BY <1>1, <1>2 DEF TypeAt
  <2> HIDE DEF types
  <2>2. QED
    BY <2>1 DEF MostFrequentOf
<1>4. \A t \in Most : t \in SampleTypes /\ Count(f, t) > 0 /\ \A u \in SampleTypes : Count(f, u) <= Count(f, t)
  <2> HIDE DEF types
  <2> SUFFICES ASSUME NEW t \in Most, NEW u \in SampleTypes PROVE t \in SampleTypes /\ Count(f, t) > 0 /\ Count(f, u) <= Count(f, t)
    BY <1>1
  <2>1. t \in All /\ t \in SampleTypes /\ Count(f, t) > 0 /\ Count(f, t) \in Nat
    BY <1>1, <1>2
  <2>2. CASE u \in All
    BY <2>1, <2>2
  <2>3. CASE u \notin All
    BY <1>1, <2>1, <2>3
  <2>4. QED
    BY <2>1, <2>2, <2>3
<1>5. Most # {}
  <2> DEFINE g == [t \in All |-> Count(f, t)]
  <2>1. g \in [All -> 0 .. n] /\ All # {} /\ \A t \in All : g[t] = Count(f, t)
    BY <1>1, <1>2
  <2> HIDE DEF types, n, g
  <2>2. \E t \in All : \A u \in All : g[u] <= g[t]
    BY <1>1, <2>1, GreatestOf
  <2>3. QED
    BY <2>1, <2>2
<1>6. CASE ~ Conflicting(types)
  <2>1. \A t \in All : t = types[1]
    <3> SUFFICES ASSUME NEW t \in All, t # types[1] PROVE FALSE
      OBVIOUS
    <3>1. IsFiniteSet(All)
      <4>1. IsFiniteSet(SampleTypes) 
        <5>1. SampleTypes = ((({"string"} \cup {"number"}) \cup {"integer"}) \cup {"boolean"}) \cup {Null}
          BY DEF SampleTypes, Scalars
        <5>2. QED
          BY <5>1, FS_Singleton, FS_Union
      <4> HIDE DEF types
      <4>2. QED
        BY <1>2, <4>1, FS_Subset
    <3>2. {t, types[1]} \in SUBSET All /\ Cardinality({t, types[1]}) = 2
      <4>1. {t, types[1]} = {types[1]} \cup {t}
        OBVIOUS
      <4>2. IsFiniteSet({types[1]}) /\ Cardinality({types[1]}) = 1 /\ t \notin {types[1]}
        BY FS_Singleton
      <4>3. Cardinality({types[1]} \cup {t}) = 2
        BY <4>2, PairCounted
      <4>4. QED
        BY <1>2, <4>1, <4>3
    <3>3. 2 <= Cardinality(All) /\ Cardinality(All) \in Nat
      <4> HIDE DEF types
      <4> QED BY <3>1, <3>2, FS_Subset, FS_CardinalityType
    <3>4. QED
      BY <1>6, <3>3 DEF Conflicting
  <2>2. ResolvedType(types) = types[1]
    BY <1>6 DEF ResolvedType
  <2>3. types[1] \in Most
    BY <1>5, <2>1
  <2>4. \A u \in SampleTypes \ {types[1]} : Count(f, u) = 0
    BY <1>1, <2>1
  <2> HIDE DEF types, Most
  <2>5. QED
    BY <1>4, <2>2, <2>3, <2>4 DEF types
<1>7. CASE Conflicting(types) /\ Most = All
  <2>1. ResolvedType(types) = FirstTyped(types)
    BY <1>3, <1>7 DEF ResolvedType, Resolution
  <2> DEFINE typed == { i \in DOMAIN types : types[i] # Null }
  <2>2. typed # {}
    <3> SUFFICES ASSUME typed = {} PROVE FALSE
      OBVIOUS
    <3>1. All = {Null}
      BY <1>1, <1>2 DEF ToSet
    <3>2. Cardinality(All) = 1
      BY <3>1, FS_Singleton
    <3>3. QED
      BY <1>7, <3>2 DEF Conflicting
  <2>3. Min(typed) \in typed
    <3>1. typed \subseteq Nat
      BY <1>1
    <3> HIDE DEF typed
    <3>2. QED
      BY <2>2, <3>1, MinOf
  <2>4. FirstTyped(types) # Null /\ FirstTyped(types) \in All
    BY <1>2, <2>3 DEF FirstTyped
  <2>5. FirstTyped(types) \in Most
    BY <1>7, <2>4
  <2> HIDE DEF types, Most
  <2>6. QED
    BY <1>4, <2>1, <2>4, <2>5 DEF types
<1>8. CASE Conflicting(types) /\ Most # All
  <2> DEFINE t == CHOOSE x \in MostFrequentOf(types) : \A u \in MostFrequentOf(types) : FirstAt(types, u) <= FirstAt(types, x)
             g == [x \in Most |-> FirstAt(types, x)]
  <2>1. ResolvedType(types) = t
    BY <1>3, <1>8 DEF ResolvedType, Resolution
  <2>2. \A x \in Most : FirstAt(types, x) \in 0 .. n
    <3> SUFFICES ASSUME NEW x \in Most PROVE FirstAt(types, x) \in 0 .. n
      OBVIOUS
    <3> DEFINE S == { i \in DOMAIN types : types[i] = x }
    <3>1. S \subseteq 1 .. n /\ S \subseteq Nat /\ S # {}
      BY <1>1 DEF ToSet
    <3>2. Min(S) \in S
      <4> HIDE DEF S
      <4> QED BY <3>1, MinOf
    <3>3. Min(S) \in 1 .. n
      <4> HIDE DEF S
      <4> QED BY <3>1, <3>2
    <3>4. QED
      BY <3>3 DEF FirstAt
  <2>3. \E x \in Most : \A u \in Most : FirstAt(types, u) <= FirstAt(types, x)
    <3>1. g \in [Most -> 0 .. n] /\ \A x \in Most : g[x] = FirstAt(types, x)
      BY <2>2
    <3> HIDE DEF Most, g, n
    <3>2. \E x \in Most : \A u \in Most : g[u] <= g[x]
      BY <1>1, <1>5, <3>1, GreatestOf
    <3>3. QED
      BY <3>1, <3>2
  <2>4. t \in Most
    <3> HIDE DEF Most, types
    <3> QED BY <1>3, <2>3
  <2>5. PICK v \in All : v \notin Most
    BY <1>8
  <2>6. Count(f, v) # 0 /\ Count(f, v) # Count(f, t) /\ v \in SampleTypes
    BY <1>1, <1>2, <1>4, <2>4, <2>5
  <2>7. \A u \in SampleTypes : Count(f, u) = 0 \/ \E w \in SampleTypes : Count(f, w) \notin {0, Count(f, u)}
    <3> SUFFICES ASSUME NEW u \in SampleTypes, Count(f, u) # 0, \A w \in SampleTypes : Count(f, w) \in {0, Count(f, u)} PROVE FALSE
      OBVIOUS
    <3>1. Count(f, v) = Count(f, u) /\ Count(f, t) = Count(f, u)
      <4>1. t \in SampleTypes /\ Count(f, t) # 0
        BY <1>1, <1>4, <2>4
      <4> HIDE DEF t
      <4>2. QED
        BY <2>6, <4>1
    <3>2. QED
      BY <2>6, <3>1
  <2> HIDE DEF types, Most, t
  <2>8. QED
    BY <1>4, <2>1, <2>4, <2>7 DEF types
<1>9. QED
  BY <1>6, <1>7, <1>8

LEMMA AnswerForms ==
  /\ \A kind : Failure(kind).kind = kind /\ Failure(kind).failed
  /\ \A kind, schemas, r : /\ Answer(kind, schemas, r).kind = kind
                           /\ Unmapped(schemas) => Answer(kind, schemas, r).failed
                           /\ ~ Unmapped(schemas) => ~ Answer(kind, schemas, r).failed
<1>1. \A kind : Failure(kind).kind = kind /\ Failure(kind).failed
  BY DEF Failure, NoAnswer
<1>2. ASSUME NEW kind, NEW schemas, NEW r
      PROVE  /\ Answer(kind, schemas, r).kind = kind
             /\ Unmapped(schemas) => Answer(kind, schemas, r).failed
             /\ ~ Unmapped(schemas) => ~ Answer(kind, schemas, r).failed
  <2>1. CASE Unmapped(schemas)
    <3>1. Answer(kind, schemas, r) = Failure(kind)
      BY <2>1 DEF Answer
    <3>2. QED
      BY <1>1, <2>1, <3>1
  <2>2. CASE ~ Unmapped(schemas)
    BY <2>2 DEF Answer
  <2>3. QED
    BY <2>1, <2>2
<1>3. QED
  BY <1>1, <1>2

\* The answer to a request with schemas, whatever was found before.
AnsweredOwn == \E kind \in AnswerKinds : \E r : generated = Answer(kind, Inferred, r)

LEMMA AnswerResolves == samples \in Seq(Events) /\ AnsweredOwn => ConflictsResolved
<1> SUFFICES ASSUME samples \in Seq(Events), AnsweredOwn PROVE TypeIsMostFrequent /\ TypedSamplesAnswered
  BY DEF ConflictsResolved
<1>1. PICK kind \in AnswerKinds : \E r : generated = Answer(kind, Inferred, r)
  BY DEF AnsweredOwn
<1>2. PICK r : generated = Answer(kind, Inferred, r)
  BY <1>1
<1> DEFINE type(f) == ResolvedType(Types(Inferred, f))
<1>3. \A f \in FieldsOf(Inferred) :
        /\ f \in FieldNames
        /\ type(f) \in SampleTypes /\ Count(f, type(f)) > 0 /\ \A u \in SampleTypes : Count(f, u) <= Count(f, type(f))
        /\ type(f) = Null => \A u \in SampleTypes \ {Null} : Count(f, u) = 0 \/ \E v \in SampleTypes : Count(f, v) \notin {0, Count(f, u)}
  BY ResolvedTo, TypesCounted
<1>4. \A f : \A t \in SampleTypes : Count(f, t) \in Nat /\ (Count(f, t) > 0 => f \in FieldsOf(Inferred))
  <2> SUFFICES ASSUME NEW f, NEW t \in SampleTypes PROVE Count(f, t) \in Nat /\ (Count(f, t) > 0 => f \in FieldsOf(Inferred))
    OBVIOUS
  <2> DEFINE types == Types(Inferred, f)
             n == Cardinality(Having(f))
  <2>1. /\ n \in Nat /\ DOMAIN types = 1 .. n /\ Count(f, t) \in 0 .. n
        /\ t \in ToSet(types) <=> Count(f, t) > 0
        /\ f \in FieldsOf(Inferred) <=> n # 0
    BY TypesCounted
  <2>2. QED
    BY <2>1 DEF ToSet
<1>5. SampleTypes \ {Null} = Scalars /\ Scalars \subseteq SampleTypes /\ Null \in SampleTypes
  BY DEF SampleTypes, Scalars, Null
<1> HIDE DEF type
<1>6. CASE Unmapped(Inferred)
  <2>1. generated.failed
    BY <1>2, <1>6, AnswerForms
  <2>2. PICK f \in FieldsOf(Inferred) : type(f) = Null
    BY <1>6 DEF Unmapped, type
  <2>3. ~ (\A g \in FieldNames : Count(g, Null) > 0 => \E t \in Scalars :
            /\ Count(g, t) = Count(g, Null)
            /\ \A other \in Scalars : Count(g, other) \in {0, Count(g, Null)})
    <3> SUFFICES ASSUME NEW t \in Scalars, Count(f, t) = Count(f, Null),
                        \A other \in Scalars : Count(f, other) \in {0, Count(f, Null)}
                 PROVE FALSE
      BY <1>3, <2>2
    <3>1. Count(f, t) # 0
      BY <1>3, <1>4, <1>5, <2>2
    <3>2. PICK v \in SampleTypes : Count(f, v) \notin {0, Count(f, t)}
      BY <1>3, <1>5, <2>2, <3>1
    <3>3. QED
      BY <1>5, <3>2
  <2>4. QED
    BY <2>1, <2>3 DEF Succeeded, TypeIsMostFrequent, TypedSamplesAnswered
<1>7. CASE ~ Unmapped(Inferred)
  <2>1. generated.kind = kind /\ ~ generated.failed
    BY <1>2, <1>7, AnswerForms
  <2>2. generated.schema = [f \in FieldsOf(Inferred) |->
                              [type |-> type(f), data_type |-> DataType(type(f), ResolvedFormat(Inferred, f))]]
    BY <1>2, <1>7 DEF Answer, type
  <2>3. \A f \in FieldsOf(Inferred) : type(f) \in Scalars
    BY <1>3, <1>5, <1>7 DEF Unmapped, type
  <2>4. \A f \in FieldsOf(Inferred) : DataType(type(f), ResolvedFormat(Inferred, f)) # Null
    BY <2>3 DEF DataType, Scalars, Null, Dates
  <2>5. /\ DOMAIN generated.schema = FieldsOf(Inferred)
        /\ \A f \in FieldsOf(Inferred) : generated.schema[f].type = type(f) /\ generated.schema[f].data_type # Null
    BY <2>2, <2>4
  <2>6. TypeIsMostFrequent
    <3> SUFFICES ASSUME NEW f \in FieldsOf(Inferred), NEW u \in SampleTypes
                 PROVE  Count(f, u) <= Count(f, generated.schema[f].type) /\ Count(f, generated.schema[f].type) > 0
      BY <2>5 DEF TypeIsMostFrequent, SampleTypes
    <3>1. QED
      BY <1>3, <2>5
  <2>7. TypedSamplesAnswered
    <3>1. Succeeded
      BY <2>1 DEF Succeeded, AnswerKinds
    <3>2. \A f \in FieldNames : (\E t \in Scalars : Count(f, t) > 0) =>
            f \in DOMAIN generated.schema /\ generated.schema[f].data_type # Null
      BY <1>4, <1>5, <2>5
    <3>3. QED
      BY <3>1, <3>2 DEF TypedSamplesAnswered
  <2>8. QED
    BY <2>6, <2>7
<1>8. QED
  BY <1>6, <1>7

-----------------------------------------------------------------------------
(* What is suggested to remove duplicates by. *)

\* What a field has in a sample: nothing is as good as empty.
ValueIn(i, f) == IF f \in DOMAIN samples[i] THEN samples[i][f] ELSE Empty

\* The values of a field whose format is unique, as they are counted.
Counted(f) == [i \in DOMAIN Inferred |-> IF f \in DOMAIN Inferred[i] THEN Inferred[i][f].value ELSE Undefined.value]

LEMMA HundredPercent == ASSUME NEW n \in Nat, n # 0 PROVE Percent(n, n) = 100
<1>1. 200 * n + n = 100 * (2 * n) + n /\ n < 2 * n /\ 2 * n \in Nat /\ 2 * n # 0
  OBVIOUS
<1>2. \A d \in Nat \ {0} : \A x \in 0 .. d - 1 : (100 * d + x) \div d = 100
  OBVIOUS
<1>3. QED
  BY <1>1, <1>2 DEF Percent

LEMMA AtMostHalf == ASSUME NEW n \in Nat, n >= 2 PROVE Percent(1, n) \in 0 .. 50
<1> DEFINE q == (200 + n) \div (2 * n)
<1>1. 2 * n \in Nat \ {0} /\ 200 + n \in Nat /\ 200 + n < 51 * (2 * n)
  OBVIOUS
<1>2. \A d \in Nat \ {0} : \A x \in Nat : x < 51 * d => x \div d \in 0 .. 50
  OBVIOUS
<1>3. q \in 0 .. 50
  BY <1>1, <1>2
<1>4. QED
  BY <1>3 DEF Percent

\* The share of the most frequent value.
LEMMA ShareOf ==
  ASSUME NEW values, NEW n \in Nat, DOMAIN values = 1 .. n, n # 0, Len(values) = n
  PROVE  /\ (\A i, j \in 1 .. n : values[i] = values[j]) => Share(values) = 100
         /\ n > 1 /\ (\A i, j \in 1 .. n : values[i] = values[j] => i = j) => Share(values) \in 0 .. 50
<1> DEFINE having(v) == { i \in DOMAIN values : values[i] = v }
           percent(v) == Percent(Cardinality(having(v)), Len(values))
           S == { percent(v) : v \in ToSet(values) }
<1>1. ToSet(values) = { values[i] : i \in 1 .. n } /\ ToSet(values) # {}
  BY DEF ToSet
<1>2. Share(values) = Max(S)
  BY DEF Share
<1>3. ASSUME \A i, j \in 1 .. n : values[i] = values[j] PROVE Share(values) = 100
  <2>1. ASSUME NEW v \in ToSet(values) PROVE percent(v) = 100
    <3>1. having(v) = 1 .. n
      BY <1>1, <1>3
    <3>2. Cardinality(having(v)) = n
      BY <3>1, UpToCounted
    <3>3. Percent(n, n) = 100
      BY HundredPercent
    <3>4. QED
      BY <3>2, <3>3
  <2> HIDE DEF percent
  <2>2. S \subseteq 0 .. 100 /\ S # {} /\ \A m \in S : m = 100
    <3>1. \A m \in S : m = 100
      BY <2>1
    <3>2. \A v \in ToSet(values) : percent(v) \in S
      OBVIOUS
    <3> HIDE DEF S
    <3>3. S # {}
      BY <1>1, <3>2
    <3>4. S \subseteq 0 .. 100
      BY <3>1
    <3>5. QED
      BY <3>1, <3>3, <3>4
  <2> HIDE DEF S
  <2>3. Max(S) \in S
    BY <2>2, MaxOf
  <2>4. QED
    BY <1>2, <2>2, <2>3
<1>4. ASSUME n > 1, \A i, j \in 1 .. n : values[i] = values[j] => i = j PROVE Share(values) \in 0 .. 50
  <2>1. ASSUME NEW v \in ToSet(values) PROVE percent(v) \in 0 .. 50
    <3>1. PICK i \in 1 .. n : v = values[i]
      BY <1>1
    <3>2. having(v) = {i}
      BY <1>4, <3>1
    <3>3. Cardinality(having(v)) = 1
      BY <3>2, FS_Singleton
    <3>4. Percent(1, n) \in 0 .. 50
      BY <1>4, AtMostHalf
    <3>5. QED
      BY <3>3, <3>4
  <2> HIDE DEF percent
  <2>2. S \subseteq 0 .. 50 /\ S # {}
    <3>1. \A m \in S : m \in 0 .. 50
      BY <2>1
    <3>2. \A v \in ToSet(values) : percent(v) \in S
      OBVIOUS
    <3> HIDE DEF S
    <3>3. QED
      BY <1>1, <3>1, <3>2
  <2> HIDE DEF S
  <2>3. Max(S) \in S
    BY <2>2, MaxOf
  <2>4. QED
    BY <1>2, <2>2, <2>3
<1>5. QED
  BY <1>3, <1>4

\* The field has a finding if its last format is that of a unique value, and is found to vary.
LEMMA DedupOf ==
  ASSUME samples \in Seq(Events), samples # << >>, NEW f
  PROVE  f \in DedupKeys(Inferred, Analyse(Inferred, Inferred))
           <=> /\ f \in FieldsOf(Inferred) /\ SuggestsDedup(Inferred, f)
               /\ MergedFormat(Inferred, f) \in UniqueFormats
               /\ ~ (Share(Counted(f)) >= RollupRatio)
<1> DEFINE unique == UniqueValues(Inferred, Inferred)
           rollup == Analyse(Inferred, Inferred)
           some == { g \in FieldsOf(Inferred) : MergedFormat(Inferred, g) \in UniqueFormats }
<1>1. DOMAIN unique = some /\ \A g \in some : unique[g] = Counted(g)
  BY DEF UniqueValues, Counted
<1> HIDE DEF unique, some
<1>2. DOMAIN rollup.summary = some /\ \A g \in some : rollup.summary[g] <=> Share(Counted(g)) >= RollupRatio
  BY <1>1 DEF Analyse, Rollup, Indexed, unique
<1>3. rollup # NoRollup
  <2>1. DOMAIN rollup = {"summary"} /\ DOMAIN NoRollup = {}
    BY DEF Analyse, NoRollup
  <2> HIDE DEF rollup
  <2>2. QED
    BY <2>1
<1> HIDE DEF rollup
<1>4. f \in DedupKeys(Inferred, rollup) <=> /\ f \in FieldsOf(Inferred) /\ SuggestsDedup(Inferred, f)
                                            /\ f \in some /\ ~ rollup.summary[f]
  BY <1>2, <1>3 DEF DedupKeys
<1>5. f \in some <=> f \in FieldsOf(Inferred) /\ MergedFormat(Inferred, f) \in UniqueFormats
  BY DEF some
<1>6. QED
  BY <1>2, <1>4, <1>5 DEF rollup

\* What is the same in all samples is no key.
LEMMA KeysVary ==
  ASSUME samples \in Seq(Events), samples # << >>, NEW f \in DedupKeys(Inferred, Analyse(Inferred, Inferred))
  PROVE  \E i, j \in DOMAIN samples : ValueIn(i, f) # ValueIn(j, f)
<1> SUFFICES ASSUME \A i, j \in DOMAIN samples : ValueIn(i, f) = ValueIn(j, f) PROVE FALSE
  OBVIOUS
<1>1. f \in FieldsOf(Inferred) /\ ~ (Share(Counted(f)) >= RollupRatio)
  BY DedupOf
<1>2. /\ Len(samples) \in Nat /\ DOMAIN samples = 1 .. Len(samples) /\ DOMAIN Inferred = DOMAIN samples
      /\ \A i \in DOMAIN samples :
                /\ f \in DOMAIN Inferred[i] <=> f \in DOMAIN samples[i] /\ samples[i][f] # Empty
                /\ f \in DOMAIN Inferred[i] => Inferred[i][f] = samples[i][f]
  BY InferredOf
<1>3. PICK i \in DOMAIN samples : f \in DOMAIN Inferred[i]
  BY <1>1, <1>2 DEF FieldsOf
<1>4. ValueIn(i, f) # Empty /\ ValueIn(i, f) = samples[i][f]
  BY <1>2, <1>3 DEF ValueIn
<1>5. ASSUME NEW j \in DOMAIN samples PROVE f \in DOMAIN Inferred[j] /\ Inferred[j][f] = samples[i][f]
  <2>1. ValueIn(j, f) = samples[i][f] /\ ValueIn(j, f) # Empty
    BY <1>4
  <2>2. f \in DOMAIN samples[j] /\ samples[j][f] = samples[i][f] /\ samples[j][f] # Empty
    BY <2>1 DEF ValueIn
  <2>3. QED
    BY <1>2, <2>2
<1> DEFINE n == Len(samples) values == Counted(f)
<1>6. DOMAIN values = 1 .. n /\ \A j \in 1 .. n : values[j] = samples[i][f].value
  BY <1>2, <1>5 DEF Counted
<1>7. n \in Nat /\ n # 0
  BY <1>2, <1>3
<1>8. Len(values) = n
  BY <1>6, <1>7
<1> HIDE DEF values, n
<1>9. Share(values) = 100
  BY <1>6, <1>7, <1>8, ShareOf
<1>10. QED
  BY <1>1, <1>9, RatioAssumption DEF values

\* Uuids that all samples have and no two share are keys.
LEMMA UuidsAreKeys ==
  ASSUME samples \in Seq(Events), Len(samples) > 1, RollupRatio > 50, NEW f,
         \A i \in DOMAIN samples : ValueIn(i, f).format = "uuid",
         \A i, j \in DOMAIN samples : ValueIn(i, f) = ValueIn(j, f) => i = j
  PROVE  f \in DedupKeys(Inferred, Analyse(Inferred, Inferred))
<1> DEFINE n == Len(samples)
           found == Occurrences(Inferred, f)
           m == Cardinality(Having(f))
<1>1. /\ n \in Nat /\ DOMAIN samples = 1 .. n /\ DOMAIN Inferred = DOMAIN samples
      /\ \A i \in DOMAIN samples :
                /\ f \in DOMAIN Inferred[i] <=> f \in DOMAIN samples[i] /\ samples[i][f] # Empty
                /\ f \in DOMAIN samples[i] => samples[i][f] \in Value
                /\ f \in DOMAIN Inferred[i] => Inferred[i][f] = samples[i][f]
  BY InferredOf
<1>2. \A i \in DOMAIN samples : /\ f \in DOMAIN Inferred[i] /\ Inferred[i][f] = samples[i][f] /\ ValueIn(i, f) = samples[i][f]
                                /\ samples[i][f] \in Value /\ samples[i][f].format = "uuid"
  <2> SUFFICES ASSUME NEW i \in DOMAIN samples
               PROVE  /\ f \in DOMAIN Inferred[i] /\ Inferred[i][f] = samples[i][f] /\ ValueIn(i, f) = samples[i][f]
                      /\ samples[i][f] \in Value /\ samples[i][f].format = "uuid"
    OBVIOUS
  <2>1. Empty.format # "uuid"
    BY DEF Empty, NoFormat
  <2>2. ValueIn(i, f) # Empty
    BY <2>1
  <2>3. f \in DOMAIN samples[i] /\ ValueIn(i, f) = samples[i][f]
    BY <2>2 DEF ValueIn
  <2>4. QED
    BY <1>1, <2>2, <2>3
<1>3. Having(f) = 1 .. n /\ m = n
  <2>1. Having(f) = 1 .. n
    BY <1>1, <1>2 DEF Having
  <2>2. QED
    BY <1>1, <2>1, UpToCounted
<1>4. DOMAIN found = 1 .. n /\ \A k \in 1 .. n : found[k].format = "uuid"
  <2>1. /\ DOMAIN found = 1 .. m
        /\ \A k \in 1 .. m : Position(Having(f), k) \in Having(f) /\ found[k] = samples[Position(Having(f), k)][f]
    BY OccurrencesOf
  <2> HIDE DEF found, m, n
  <2>2. QED
    BY <1>1, <1>2, <1>3, <2>1
<1>5. f \in FieldsOf(Inferred)
  BY <1>1, <1>2 DEF FieldsOf
<1>6. SuggestsDedup(Inferred, f)
  <2>1. { v.format : v \in ToSet(found) } = {"uuid"}
    <3> HIDE DEF found
    <3>1. ToSet(found) = { found[k] : k \in 1 .. n } /\ 1 \in 1 .. n
      BY <1>1, <1>4 DEF ToSet
    <3>2. QED
      BY <1>4, <3>1
  <2>2. QED
    BY <2>1 DEF SuggestsDedup
<1>7. MergedFormat(Inferred, f) = "uuid"
  <2> DEFINE formatted == { k \in DOMAIN found : found[k].format # NoFormat }
  <2>1. formatted = 1 .. n
    BY <1>4 DEF NoFormat
  <2>2. formatted \subseteq 0 .. n /\ formatted # {}
    BY <1>1, <2>1
  <2>3. Max(formatted) \in formatted
    <3> HIDE DEF formatted
    <3> QED BY <1>1, <2>2, MaxOf
  <2>4. found[Max(formatted)].format = "uuid"
    BY <1>4, <2>3
  <2>5. QED
    BY <2>2, <2>4 DEF MergedFormat
<1> DEFINE values == Counted(f)
<1>8. DOMAIN values = 1 .. n /\ \A i \in 1 .. n : values[i] = samples[i][f].value
  BY <1>1, <1>2 DEF Counted
<1>9. \A i, j \in 1 .. n : values[i] = values[j] => i = j
  <2> SUFFICES ASSUME NEW i \in 1 .. n, NEW j \in 1 .. n, values[i] = values[j] PROVE i = j
    OBVIOUS
  <2> DEFINE v == samples[i][f] w == samples[j][f]
  <2>1. v \in Value /\ w \in Value /\ v.format = "uuid" /\ w.format = "uuid" /\ v.value = w.value
    BY <1>1, <1>2, <1>8
  <2> HIDE DEF v, w
  <2>2. v # Empty /\ w # Empty
    BY <2>1 DEF Empty, NoFormat
  <2>3. v.type = "string" /\ w.type = "string"
    BY <2>1, <2>2 DEF Value
  <2>4. \A x \in Value \ {Empty} : x = [type |-> x.type, format |-> x.format, value |-> x.value]
    BY DEF Value
  <2>5. v = w
    BY <2>1, <2>2, <2>3, <2>4
  <2>6. QED
    BY <1>1, <1>2, <2>5 DEF v, w
<1>10. Len(values) = n
  BY <1>1, <1>8
<1>11. Share(values) \in 0 .. 50
  <2> HIDE DEF values, n
  <2>1. n \in Nat /\ n > 1 /\ n # 0 /\ DOMAIN values = 1 .. n /\ Len(values) = n
    BY <1>1, <1>8, <1>10 DEF n
  <2>2. n > 1 /\ (\A i, j \in 1 .. n : values[i] = values[j] => i = j) => Share(values) \in 0 .. 50
    BY <2>1, ShareOf
  <2>3. QED
    BY <1>9, <2>1, <2>2
<1>12. ~ (Share(values) >= RollupRatio)
  <2>1. \A s \in 0 .. 50 : ~ (s >= RollupRatio)
    BY RatioAssumption
  <2> HIDE DEF values
  <2>2. QED
    BY <1>11, <2>1
<1>13. samples # << >>
  BY <1>1
<1>14. QED
  BY <1>5, <1>6, <1>7, <1>12, <1>13, DedupOf DEF UniqueFormats

LEMMA DedupSound ==
  samples \in Seq(Events) /\ samples # << >> /\ generated = Answer("samples", Inferred, Analyse(Inferred, Inferred))
    => DedupFromOwnSamples
<1> SUFFICES ASSUME samples \in Seq(Events), samples # << >>,
                    generated = Answer("samples", Inferred, Analyse(Inferred, Inferred)), Succeeded,
                    NEW f \in FieldNames
             PROVE  /\ f \in generated.dedup => \E i, j \in DOMAIN samples : ValueIn(i, f) # ValueIn(j, f)
                    /\ RollupRatio > 50 /\ Len(samples) > 1 /\ (\A i \in DOMAIN samples : ValueIn(i, f).format = "uuid")
                         /\ (\A i, j \in DOMAIN samples : ValueIn(i, f) = ValueIn(j, f) => i = j)
                         => f \in generated.dedup
  BY DEF DedupFromOwnSamples, ValueIn
<1>1. ~ Unmapped(Inferred)
  BY AnswerForms DEF Succeeded
<1>2. generated.dedup = DedupKeys(Inferred, Analyse(Inferred, Inferred))
  BY <1>1 DEF Answer
<1>3. QED
  BY <1>2, KeysVary, UuidsAreKeys

-----------------------------------------------------------------------------
(* Every request. *)

SchemaInv == samples \in Seq(Events) /\ ConflictsResolved /\ DedupFromOwnSamples

\* While there is no answer, or none for samples, there is nothing to show.
LEMMA NothingToShow ==
  /\ generated.kind = "none" => ConflictsResolved
  /\ generated.kind = "batch" /\ generated.failed => ConflictsResolved
  /\ generated.kind # "samples" => DedupFromOwnSamples
  BY DEF ConflictsResolved, TypeIsMostFrequent, TypedSamplesAnswered, DedupFromOwnSamples, Succeeded

LEMMA SchemaInitial == SchemaInit => SchemaInv
<1> SUFFICES ASSUME SchemaInit PROVE SchemaInv
  OBVIOUS
<1>1. samples \in Seq(Events) /\ generated.kind = "none"
  BY DEF SchemaInit, NoAnswer
<1>2. QED
  BY <1>1, NothingToShow DEF SchemaInv

LEMMA SchemaStep == SchemaInv /\ [SchemaNext]_schemaVars => SchemaInv'
<1> SUFFICES ASSUME SchemaInv, [SchemaNext]_schemaVars PROVE SchemaInv'
  OBVIOUS
<1>1. (/\ generated.kind = "none" => ConflictsResolved
       /\ generated.kind = "batch" /\ generated.failed => ConflictsResolved
       /\ generated.kind # "samples" => DedupFromOwnSamples)'
  BY NothingToShow, PTL
<1>2. (samples \in Seq(Events) /\ AnsweredOwn => ConflictsResolved)'
  BY AnswerResolves, PTL
<1>3. (samples \in Seq(Events) /\ samples # << >> /\ generated = Answer("samples", Inferred, Analyse(Inferred, Inferred))
        => DedupFromOwnSamples)'
  BY DedupSound, PTL
<1>4. ASSUME NEW event \in Events, AddSample(event) PROVE SchemaInv'
  <2>1. samples' \in Seq(Events)
    <3>1. samples' = Append(samples, event) \/ samples' = <<event>>
      BY <1>4 DEF AddSample
    <3>2. Append(samples, event) \in Seq(Events)
      BY DEF SchemaInv
    <3>3. <<event>> \in Seq(Events)
      OBVIOUS
    <3>4. QED
      BY <3>1, <3>2, <3>3
  <2>2. generated'.kind = "none"
    BY <1>4 DEF AddSample, NoAnswer
  <2>3. QED
    BY <1>1, <2>1, <2>2 DEF SchemaInv
<1>5. ASSUME samples # << >>, GenerateFromSamples \/ GenerateFromBatch \/ RefuseBatch \/ GenerateFromSchemas, UNCHANGED samples
      PROVE  SchemaInv'
  <2>1. samples' = samples /\ samples' \in Seq(Events) /\ Inferred' = Inferred /\ Inferred = InferSchema(samples)
    BY <1>5 DEF SchemaInv, Inferred
  <2>2. CASE GenerateFromSamples
    <3>1. generated' = Answer("samples", Inferred, Analyse(Inferred, Inferred))
      BY <2>2 DEF GenerateFromSamples, Inferred
    <3>2. AnsweredOwn'
      BY <2>1, <3>1 DEF AnsweredOwn, AnswerKinds
    <3>3. QED
      BY <1>2, <1>3, <1>5, <2>1, <3>1, <3>2 DEF SchemaInv
  <2>3. CASE GenerateFromBatch
    <3>1. \E r : generated' = Answer("batch", Inferred, r)
      BY <2>3 DEF GenerateFromBatch, Inferred
    <3>2. AnsweredOwn' /\ generated'.kind # "samples"
      BY <2>1, <3>1, AnswerForms DEF AnsweredOwn, AnswerKinds
    <3>3. QED
      BY <1>1, <1>2, <2>1, <3>2 DEF SchemaInv
  <2>4. CASE RefuseBatch
    <3>1. generated'.kind = "batch" /\ generated'.failed
      BY <2>4, AnswerForms DEF RefuseBatch
    <3>2. QED
      BY <1>1, <2>1, <3>1 DEF SchemaInv
  <2>5. CASE GenerateFromSchemas
    <3>1. generated' = Answer("schemas", Inferred, rollupInfo)
      BY <2>5 DEF GenerateFromSchemas, Inferred
    <3>2. AnsweredOwn' /\ generated'.kind # "samples"
      BY <2>1, <3>1, AnswerForms DEF AnsweredOwn, AnswerKinds
    <3>3. QED
      BY <1>1, <1>2, <2>1, <3>2 DEF SchemaInv
  <2>6. QED
    BY <1>5, <2>2, <2>3, <2>4, <2>5
<1>6. CASE UNCHANGED schemaVars
  <2>1. samples' = samples /\ generated' = generated
    BY <1>6 DEF schemaVars
  <2>2. ConflictsResolved => ConflictsResolved'
    <3>1. TypeIsMostFrequent => TypeIsMostFrequent'
      BY <2>1 DEF TypeIsMostFrequent, Succeeded, Count
    <3>2. TypedSamplesAnswered => TypedSamplesAnswered'
      BY <2>1 DEF TypedSamplesAnswered, Succeeded, Count
    <3>3. QED
      BY <3>1, <3>2 DEF ConflictsResolved
  <2>3. DedupFromOwnSamples => DedupFromOwnSamples'
    BY <2>1 DEF DedupFromOwnSamples, Succeeded
  <2>4. QED
    BY <2>1, <2>2, <2>3 DEF SchemaInv
<1>7. QED
  BY <1>4, <1>5, <1>6 DEF SchemaNext

LEMMA SchemaSafety == SchemaSpec => []SchemaInv
  BY SchemaInitial, SchemaStep, PTL DEF SchemaSpec

\* However the types of a field differ from sample to sample, the type suggested is one that
\* samples have and none more often, and typed samples get an answer: findDataTypeConflicts.
THEOREM TypesAreResolved == SchemaSpec => []ConflictsResolved
<1>1. SchemaInv => ConflictsResolved
  BY DEF SchemaInv
<1>2. QED
  BY <1>1, SchemaSafety, PTL

\* The dedup keys suggested for samples are found in these samples, never in those of a request
\* before: schemaGenerate, schemaCardinalityAnalyser and processingConfig.
THEOREM DedupIsOfOwnSamples == SchemaSpec => []DedupFromOwnSamples
<1>1. SchemaInv => DedupFromOwnSamples
  BY DEF SchemaInv
<1>2. QED
  BY <1>1, SchemaSafety, PTL

-----------------------------------------------------------------------------
(* The types of tables. *)

\* A field of the schema is one that there may be; a table that is live has a draft.
SpecsTypes ==
    /\ \A i \in DOMAIN schema : [path |-> schema[i].path, type |-> schema[i].type] \in Fields
    /\ DOMAIN drafts = Stores /\ DOMAIN lives = Stores
    /\ \A s \in Stores : lives[s] # NoSpec => drafts[s] # NoSpec

LEMMA FieldForm == \A f \in Fields : f = [path |-> f.path, type |-> f.type]
  BY FieldsAssumption

LEMMA EditTablesTypes ==
  ASSUME SpecsInv, SpecsTypes, EditTables
  PROVE  SpecsTypes'
<1> DEFINE Known(s) == \A i \in DOMAIN s : [path |-> s[i].path, type |-> s[i].type] \in Fields
<1>0. schema \in Seq(Typed) /\ UNCHANGED <<drafts, lives>> /\ Known(schema)
  BY DEF SpecsInv, EditedInv, EditTables, SpecsTypes
<1>1. schema' = schema => Known(schema')
  BY <1>0
<1>2. ASSUME NEW f \in Fields, AddField(f) PROVE Known(schema')
  <2>1. schema' = Append(schema, There(f)) /\ There(f).path = f.path /\ There(f).type = f.type
    BY <1>2 DEF AddField, There
  <2>2. QED
    BY <1>0, <2>1, FieldForm
<1>3. ASSUME NEW f \in Fields, NEW i \in DOMAIN schema, RetypeField(i, f) PROVE Known(schema')
  <2>1. /\ DOMAIN schema' = DOMAIN schema /\ schema'[i] = [schema[i] EXCEPT !.type = f.type]
        /\ f.path = schema[i].path /\ \A j \in DOMAIN schema \ {i} : schema'[j] = schema[j]
    BY <1>0, <1>3 DEF RetypeField
  <2>2. schema[i] \in Typed
    BY <1>0
  <2>3. schema'[i].path = f.path /\ schema'[i].type = f.type
    BY <2>1, <2>2 DEF Typed
  <2>4. QED
    BY <1>0, <2>1, <2>3, FieldForm
<1>4. ASSUME NEW i \in DOMAIN schema, SwitchField(i) PROVE Known(schema')
  <2>1. /\ DOMAIN schema' = DOMAIN schema /\ schema'[i] = [schema[i] EXCEPT !.deleted = ~ @]
        /\ \A j \in DOMAIN schema \ {i} : schema'[j] = schema[j]
    BY <1>0, <1>4 DEF SwitchField
  <2>2. schema[i] \in Typed
    BY <1>0
  <2>3. schema'[i].path = schema[i].path /\ schema'[i].type = schema[i].type
    BY <2>1, <2>2 DEF Typed
  <2>4. QED
    BY <1>0, <2>1, <2>3
<1> HIDE DEF Known
<1>5. Known(schema')
  BY <1>1, <1>2, <1>3, <1>4 DEF EditTables, Transform, ChangeMaster, Denormalise, SwitchLake
<1>6. QED
  BY <1>0, <1>5 DEF SpecsTypes, Known

LEMMA TableTypesStep ==
  ASSUME SpecsInv, SpecsInv', SpecsTypes, [TableNext]_tableVars
  PROVE  SpecsTypes'
<1>1. CASE EditTables
  BY <1>1, EditTablesTypes
<1>2. CASE PublishTables
  <2>1. UNCHANGED <<schema, lives>> /\ DOMAIN drafts' = Stores /\ drafts'[Druid] = GetDruidIngestionSpec
    BY <1>2 DEF PublishTables, Stores, Druid, Lake
  <2>2. drafts'[Druid] # NoSpec
    BY <2>1 DEF GetDruidIngestionSpec, NoSpec
  <2>3. lives'[Lake] # NoSpec => drafts'[Lake] # NoSpec
    <3>1. IsPrefix(lives'[Lake], drafts'[Lake]) /\ lives'[Lake] \in Seq(LakeColumns) /\ drafts'[Lake] \in Seq(LakeColumns)
      BY DEF SpecsInv, Numbered
    <3>2. QED
      BY <3>1 DEF IsPrefix, NoSpec
  <2>4. QED
    BY <2>1, <2>2, <2>3 DEF SpecsTypes, Stores
<1>3. CASE DeployTables \/ UNCHANGED tableVars
  BY <1>3 DEF DeployTables, tableVars, SpecsTypes
<1>4. QED
  BY <1>1, <1>2, <1>3 DEF TableNext

LEMMA TableTypesKept == TableSpec => []TableTypeOK
<1>1. ASSUME TableInit PROVE SpecsTypes
  <2>1. PICK f \in Fields : schema = <<There(f)>>
    BY <1>1 DEF TableInit
  <2>2. [path |-> schema[1].path, type |-> schema[1].type] \in Fields /\ DOMAIN schema = {1}
    BY <2>1, FieldForm DEF There
  <2>3. QED
    BY <1>1, <2>2 DEF TableInit, SpecsTypes
<1>2. SpecsInv /\ SpecsTypes => TableTypeOK
  BY DEF SpecsInv, EditedInv, SpecsTypes, TableTypeOK
<1>3. QED
  BY <1>1, <1>2, TableTypesStep, TableSafety, PTL DEF TableSpec

-----------------------------------------------------------------------------
(* The types of schemas. *)

GeneratedTyped(g) ==
    /\ g = NoAnswer \/ g.kind \in AnswerKinds
    /\ g.dedup \subseteq DOMAIN g.schema /\ DOMAIN g.schema \subseteq FieldNames
    /\ \A f \in DOMAIN g.schema :
        g.schema[f].type \in Scalars /\ g.schema[f].data_type \in Scalars \cup Dates \cup {"double"}

RollupTyped(r) == r = NoRollup \/ r.summary \in [DOMAIN r.summary -> BOOLEAN]

\* There is no answer without samples.
SchemaTypes ==
    /\ Len(samples) <= MaxSamples /\ (generated # NoAnswer => samples # << >>)
    /\ RollupTyped(rollupInfo) /\ GeneratedTyped(generated)

\* Every answer has types for fields of events, and keys among its fields.
LEMMA AnswerTyped ==
  ASSUME samples \in Seq(Events), NEW kind \in AnswerKinds, NEW r
  PROVE  GeneratedTyped(Failure(kind)) /\ GeneratedTyped(Answer(kind, Inferred, r))
<1> DEFINE type(f) == ResolvedType(Types(Inferred, f))
           a == Answer(kind, Inferred, r)
<1>1. GeneratedTyped(Failure(kind))
  BY DEF GeneratedTyped, Failure, NoAnswer
<1>2. CASE Unmapped(Inferred)
  BY <1>1, <1>2 DEF Answer
<1>3. CASE ~ Unmapped(Inferred)
  <2>1. \A f \in FieldsOf(Inferred) : f \in FieldNames /\ type(f) \in Scalars
    <3>1. \A f \in FieldsOf(Inferred) : type(f) \in SampleTypes /\ f \in FieldNames
      BY ResolvedTo, TypesCounted
    <3>2. \A f \in FieldsOf(Inferred) : type(f) # Null
      BY <1>3 DEF Unmapped
    <3>3. QED
      BY <3>1, <3>2 DEF SampleTypes
  <2> HIDE DEF type
  <2>2. \A f \in FieldsOf(Inferred) : \A format : DataType(type(f), format) \in Scalars \cup Dates \cup {"double"}
    BY <2>1 DEF DataType, Dates
  <2>3. /\ a.kind = kind /\ a.dedup = DedupKeys(Inferred, r) /\ DOMAIN a.schema = FieldsOf(Inferred)
        /\ \A f \in FieldsOf(Inferred) :
              a.schema[f].type = type(f) /\ a.schema[f].data_type = DataType(type(f), ResolvedFormat(Inferred, f))
    BY <1>3 DEF Answer, type
  <2>4. DedupKeys(Inferred, r) \subseteq FieldsOf(Inferred)
    BY DEF DedupKeys
  <2> HIDE DEF a
  <2>5. GeneratedTyped(a)
    BY <2>1, <2>2, <2>3, <2>4 DEF GeneratedTyped
  <2>6. QED
    BY <1>1, <2>5 DEF a
<1>4. QED
  BY <1>2, <1>3

LEMMA AnalysisTyped == \A data, schemas : RollupTyped(Analyse(data, schemas))
<1>1. \A values : Indexed(values) \in BOOLEAN
  BY DEF Indexed
<1>2. QED
  BY <1>1 DEF RollupTyped, Analyse, Rollup

LEMMA SchemaTypesStep ==
  ASSUME SchemaInv, SchemaTypes, [SchemaNext]_schemaVars
  PROVE  SchemaTypes'
<1>0. samples \in Seq(Events) /\ Len(samples) \in Nat /\ Len(samples) <= MaxSamples /\ MaxSamples \in Nat
  BY SamplesAssumption DEF SchemaInv, SchemaTypes
<1>1. ASSUME NEW event \in Events, AddSample(event) PROVE SchemaTypes'
  <2>1. generated' = NoAnswer /\ rollupInfo' = rollupInfo
    BY <1>1 DEF AddSample
  <2>2. GeneratedTyped(NoAnswer)
    BY DEF GeneratedTyped, NoAnswer
  <2>3. Len(samples') <= MaxSamples
    <3>1. CASE generated = NoAnswer
      BY <1>0, <1>1, <3>1 DEF AddSample
    <3>2. CASE generated # NoAnswer
      BY <1>0, <1>1, <3>2 DEF AddSample, SchemaTypes
    <3>3. QED
      BY <3>1, <3>2
  <2>4. QED
    BY <2>1, <2>2, <2>3 DEF SchemaTypes
<1>2. ASSUME samples # << >>, UNCHANGED samples, RollupTyped(rollupInfo'), GeneratedTyped(generated')
      PROVE  SchemaTypes'
  BY <1>0, <1>2 DEF SchemaTypes
<1>3. ASSUME samples # << >>, UNCHANGED samples, GenerateFromSamples \/ GenerateFromBatch \/ RefuseBatch \/ GenerateFromSchemas
      PROVE  SchemaTypes'
  <2>1. RollupTyped(rollupInfo')
    BY <1>3, AnalysisTyped DEF GenerateFromSamples, GenerateFromBatch, RefuseBatch, GenerateFromSchemas, SchemaTypes
  <2>2. \/ \E r : generated' = Answer("samples", Inferred, r)
        \/ \E r : generated' = Answer("batch", Inferred, r)
        \/ \E r : generated' = Answer("schemas", Inferred, r)
        \/ generated' = Failure("batch")
    BY <1>3 DEF GenerateFromSamples, GenerateFromBatch, RefuseBatch, GenerateFromSchemas, Inferred
  <2>3. GeneratedTyped(generated')
    BY <1>0, <2>2, AnswerTyped DEF AnswerKinds
  <2>4. QED
    BY <1>2, <1>3, <2>1, <2>3
<1>4. CASE UNCHANGED schemaVars
  BY <1>4 DEF schemaVars, SchemaTypes
<1>5. QED
  BY <1>1, <1>3, <1>4 DEF SchemaNext

LEMMA SchemaTypesKept == SchemaSpec => []SchemaTypeOK
<1>1. SchemaInit => SchemaTypes
  BY SamplesAssumption DEF SchemaInit, SchemaTypes, RollupTyped, GeneratedTyped, NoAnswer
<1>2. ASSUME SchemaInv, SchemaTypes PROVE SchemaTypeOK
  <2>1. \A i \in DOMAIN samples : DOMAIN samples[i] \subseteq FieldNames
    BY <1>2, EventsAssumption DEF SchemaInv
  <2>2. QED
    BY <1>2, <2>1 DEF SchemaTypes, RollupTyped, GeneratedTyped, SchemaTypeOK
<1>3. QED
  BY <1>1, <1>2, SchemaTypesStep, SchemaSafety, PTL DEF SchemaSpec

=============================================================================
