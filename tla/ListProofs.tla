----------------------------- MODULE ListProofs -----------------------------
(***************************************************************************)
(* Theorems about List for any configurations and stores, and any number   *)
(* of binaries that others remove or replace.                              *)
(***************************************************************************)
EXTENDS List, FiniteSetTheorems, SequenceTheorems, WellFoundedInduction, TLAPS

---------------------------------------------------------------------------
(* The inductive invariant.                                                *)

\* Each command has its stages, and they end when their loops do.
Stages ==
    /\ cmd = "check" => stage \in {"configured", "passed", "refused"}
    /\ cmd = "list" => stage \in {"configured", "stored", "failed", "listed"}
    /\ stage = "passed" => i > Len(toolOpts) /\ failedTools = {}
    /\ stage = "listed" => failedTools = {}
    /\ i >= 1

\* Of a tool that `binny check` has passed.
InPlace(name) ==
    /\ \E e \in DOMAIN entries : entries[e].name = name /\ entries[e].version = resolved[name]
    /\ tampers = 0 => bin[name] = resolved[name]
Passing ==
    cmd = "check" =>
        \A k \in DOMAIN toolOpts :
            k < i => toolOpts[k] \in failedTools \/ InPlace(toolOpts[k])

\* A configured tool that `binny list` has passed has its row, or is to get one.
HasRow(name) == \E r \in DOMAIN allStatus : allStatus[r].name = name /\ allStatus[r].configured
ConfiguredListed ==
    cmd = "list" =>
        \A k \in DOMAIN toolOpts :
            (stage = "configured" => k < i) => toolOpts[k] \in failedTools \/ HasRow(toolOpts[k])

\* An entry of the store is shown, or is to get a row of an error, or is still left.
Shown(entry) ==
    \E r \in DOMAIN allStatus :
        /\ allStatus[r].name = entry.name
        /\ allStatus[r].error \/ allStatus[r].installed = entry.version
Left(entry) ==
    /\ stage \in {"configured", "stored"}
    /\ \E k \in DOMAIN storedEntries :
          /\ stage = "stored" => k >= i
          /\ storedEntries[k].name = entry.name /\ storedEntries[k].version = entry.version
EntriesListed ==
    cmd = "list" =>
        \A e \in DOMAIN entries :
            Shown(entries[e]) \/ entries[e].name \in failedTools \/ Left(entries[e])

IInv ==
    TypeOK /\ Honest(entries) /\ Stages /\ Passing /\ ConfiguredListed /\ EntriesListed

---------------------------------------------------------------------------
(* The operators.                                                          *)

\* On honest entries a check that passes tells the version of the binary.
LEMMA CheckTellsVersion ==
    ASSUME NEW es \in Seq(Entry), Honest(es), NEW bins,
           NEW t \in Tool, NEW v \in Version, Check(es, bins, t, v)
    PROVE  /\ bins[t] = v
           /\ \E e \in DOMAIN es : es[e].name = t /\ es[e].version = v
  <1>1. Cardinality(NamedAt(es, t, v)) = 1
    BY DEF Check, GetResult
  <1>2. PICK k \in NamedAt(es, t, v) : TRUE
    <2>1. ASSUME NamedAt(es, t, v) = {} PROVE FALSE
      <3>1. Cardinality(NamedAt(es, t, v)) = 0
        BY <2>1, FS_EmptySet, Zenon
      <3> QED  BY <1>1, <3>1
    <2> QED  BY <2>1
  <1>3. k \in DOMAIN es /\ es[k].name = t /\ es[k].version = v
    BY <1>2 DEF NamedAt, Named
  <1>4. bins[es[k].name] = es[k].digest
    BY <1>2 DEF Check, Verify
  <1> QED  BY <1>3, <1>4 DEF Honest

\* At most one element: any choice of one is the same.
LEMMA AtMostOne ==
    ASSUME NEW S, IsFiniteSet(S), Cardinality(S) <= 1, NEW x \in S, NEW y \in S
    PROVE  x = y
  <1>1. Cardinality(S) \in Nat
    BY FS_CardinalityType
  <1>2. Cardinality(S) # 0
    BY FS_EmptySet
  <1>3. Cardinality(S) = 1
    BY <1>1, <1>2
  <1>4. \E z : S = {z}
    BY <1>3, FS_Singleton, Zenon
  <1> QED  BY <1>4

\* Numbers have a least one.
LEMMA LeastOfNaturals ==
    ASSUME NEW T, T \subseteq Nat, T # {}
    PROVE  \E x \in T : \A y \in T : x <= y
  <1> DEFINE R == {ss \in Nat \X Nat : ss[1] < ss[2]}
  <1>1. IsWellFoundedOn(R, Nat)
    BY NatLessThanWellFounded DEF OpToRel
  <1> HIDE DEF R
  <1>2. PICK x \in T : \A y \in T : ~(<<y, x>> \in R)
    BY <1>1, WFMin
  <1>3. ASSUME NEW y \in T
        PROVE  x <= y
    <2>1. <<y, x>> \in Nat \X Nat
      OBVIOUS
    <2>2. ~(y < x)
      BY <1>2, <2>1 DEF R
    <2>3. x \in Nat /\ y \in Nat
      OBVIOUS
    <2> QED  BY <2>2, <2>3
  <1> QED  BY <1>3

\* removeEntry skips one entry, of the name and version, if there is one.
LEMMA RemoveEntrySkips ==
    ASSUME NEW es \in Seq(Entry), NEW entry,
           \E m \in DOMAIN es : es[m].name = entry.name /\ es[m].version = entry.version
    PROVE  \E k \in DOMAIN es :
              /\ es[k].name = entry.name /\ es[k].version = entry.version
              /\ RemoveEntry(es, entry) \in Seq(Entry)
              /\ Len(RemoveEntry(es, entry)) = Len(es) - 1
              /\ \A j \in 1..(Len(es) - 1) :
                    RemoveEntry(es, entry)[j] = es[IF j < k THEN j ELSE j + 1]
  <1> DEFINE same == {k \in DOMAIN es : es[k].name = entry.name /\ es[k].version = entry.version}
  <1> DEFINE n == Len(es)
  <1>1. n \in Nat /\ DOMAIN es = 1..n /\ \A j \in 1..n : es[j] \in Entry
    BY LenProperties
  <1> DEFINE k == CHOOSE k \in same : \A j \in same : k <= j
  <1> DEFINE front == SubSeq(es, 1, k - 1)
  <1> DEFINE back == SubSeq(es, k + 1, n)
  <1>2. RemoveEntry(es, entry) = front \o back
    BY DEF RemoveEntry
  <1>3. k \in same
    <2>1. same \subseteq Nat /\ same # {}
      BY <1>1
    <2>2. \E m \in same : \A j \in same : m <= j
      BY <2>1, LeastOfNaturals
    <2> QED  BY <2>2
  <1>4. k \in 1..n /\ k \in Int /\ 1 <= k /\ k <= n
    BY <1>1, <1>3
  <1> HIDE DEF k, n
  <1>5. /\ front \in Seq(Entry) /\ Len(front) = k - 1
        /\ \A j \in 1..(k - 1) : front[j] = es[j]
    BY <1>1, <1>4, SubSeqProperties
  <1>6. /\ back \in Seq(Entry) /\ Len(back) = n - k
        /\ \A j \in 1..(n - k) : back[j] = es[k + j]
    <2>1. k + 1 \in Int /\ n \in Int /\ \A j \in (k + 1)..n : es[j] \in Entry
      BY <1>1, <1>4
    <2>2. /\ back \in Seq(Entry) /\ Len(back) = (IF k + 1 <= n THEN n - (k + 1) + 1 ELSE 0)
          /\ \A j \in 1..(n - (k + 1) + 1) : back[j] = es[(k + 1) + j - 1]
      BY <2>1, SubSeqProperties
    <2>3. n - (k + 1) + 1 = n - k /\ (~(k + 1 <= n) => n - k = 0)
      BY <1>1, <1>4
    <2>4. \A j \in 1..(n - k) : (k + 1) + j - 1 = k + j
      BY <1>1, <1>4
    <2> HIDE DEF back
    <2> QED  BY <2>2, <2>3, <2>4
  <1> HIDE DEF front, back
  <1>7. /\ front \o back \in Seq(Entry) /\ Len(front \o back) = n - 1
        /\ \A j \in 1..(n - 1) :
              (front \o back)[j] = IF j <= k - 1 THEN front[j] ELSE back[j - (k - 1)]
    <2>1. /\ front \o back \in Seq(Entry) /\ Len(front \o back) = Len(front) + Len(back)
          /\ \A j \in 1..(Len(front) + Len(back)) : (front \o back)[j] =
                IF j <= Len(front) THEN front[j] ELSE back[j - Len(front)]
      BY <1>5, <1>6, ConcatProperties
    <2>2. Len(front) + Len(back) = n - 1
      BY <1>1, <1>4, <1>5, <1>6
    <2> QED  BY <1>5, <2>1, <2>2
  <1>8. ASSUME NEW j \in 1..(n - 1)
        PROVE  (front \o back)[j] = es[IF j < k THEN j ELSE j + 1]
    <2>1. CASE j < k
      <3>1. j \in 1..(k - 1) /\ j <= k - 1
        BY <1>1, <1>4, <2>1
      <3> QED  BY <1>5, <1>7, <2>1, <3>1
    <2>2. CASE ~(j < k)
      <3>1. ~(j <= k - 1) /\ j - (k - 1) \in 1..(n - k) /\ k + (j - (k - 1)) = j + 1
        BY <1>1, <1>4, <2>2
      <3> QED  BY <1>6, <1>7, <2>2, <3>1
    <2> QED  BY <2>1, <2>2
  <1> QED  BY <1>1, <1>2, <1>3, <1>7, <1>8 DEF n

\* What is left after removeEntry has every entry of another name or version.
LEMMA RemoveEntryKeeps ==
    ASSUME NEW es \in Seq(Entry), NEW entry
    PROVE  /\ RemoveEntry(es, entry) \in Seq(Entry)
           /\ \A j \in DOMAIN es :
                 (es[j].name # entry.name \/ es[j].version # entry.version) =>
                 \E l \in DOMAIN RemoveEntry(es, entry) : RemoveEntry(es, entry)[l] = es[j]
  <1> DEFINE n == Len(es)
  <1>1. n \in Nat /\ DOMAIN es = 1..n
    BY LenProperties
  <1>2. CASE ~\E m \in DOMAIN es : es[m].name = entry.name /\ es[m].version = entry.version
    BY <1>2 DEF RemoveEntry
  <1>3. CASE \E m \in DOMAIN es : es[m].name = entry.name /\ es[m].version = entry.version
    <2>1. PICK k \in DOMAIN es :
             /\ es[k].name = entry.name /\ es[k].version = entry.version
             /\ RemoveEntry(es, entry) \in Seq(Entry)
             /\ Len(RemoveEntry(es, entry)) = n - 1
             /\ \A j \in 1..(n - 1) :
                   RemoveEntry(es, entry)[j] = es[IF j < k THEN j ELSE j + 1]
      BY <1>3, RemoveEntrySkips
    <2>2. DOMAIN RemoveEntry(es, entry) = 1..(n - 1)
      BY <2>1, LenProperties
    <2>3. ASSUME NEW j \in 1..n, j # k
          PROVE  \E l \in 1..(n - 1) : RemoveEntry(es, entry)[l] = es[j]
      <3>1. CASE j < k
        <4>1. j \in 1..(n - 1)
          BY <1>1, <2>1, <3>1
        <4> QED  BY <2>1, <3>1, <4>1
      <3>2. CASE j > k
        <4>1. j - 1 \in 1..(n - 1) /\ ~(j - 1 < k) /\ (j - 1) + 1 = j
          BY <1>1, <2>1, <3>2
        <4> QED  BY <2>1, <4>1
      <3> QED  BY <1>1, <2>1, <2>3, <3>1, <3>2
    <2> QED  BY <1>1, <2>1, <2>2, <2>3
  <1> QED  BY <1>2, <1>3

---------------------------------------------------------------------------
(* The invariant is inductive.                                             *)

\* A row that is appended is a row of the list, and those before it stay.
LEMMA RowAppended ==
    ASSUME TypeOK, NEW row \in Row, allStatus' = Append(allStatus, row)
    PROVE  /\ allStatus' \in Seq(Row)
           /\ \E r \in DOMAIN allStatus' : allStatus'[r] = row
           /\ \A r \in DOMAIN allStatus : r \in DOMAIN allStatus' /\ allStatus'[r] = allStatus[r]
  <1>1. /\ DOMAIN allStatus = 1..Len(allStatus) /\ Len(allStatus) \in Nat
        /\ allStatus \in Seq(Row)
    BY LenProperties DEF TypeOK
  <1>2. /\ allStatus' \in Seq(Row) /\ Len(allStatus') = Len(allStatus) + 1
        /\ \A r \in 1..Len(allStatus) : allStatus'[r] = allStatus[r]
        /\ allStatus'[Len(allStatus) + 1] = row
    BY <1>1, AppendProperties
  <1>3. DOMAIN allStatus' = 1..(Len(allStatus) + 1)
    BY <1>2, LenProperties
  <1> QED  BY <1>1, <1>2, <1>3

\* So that what is shown stays shown.
LEMMA ShownStays ==
    ASSUME TypeOK, NEW row \in Row, allStatus' = Append(allStatus, row)
    PROVE  /\ \A name : HasRow(name) => HasRow(name)'
           /\ \A entry : Shown(entry) => Shown(entry)'
  BY RowAppended DEF HasRow, Shown

LEMMA Types ==
    ASSUME TypeOK
    PROVE  /\ toolOpts \in Seq(Tool) /\ Len(toolOpts) \in Nat
           /\ DOMAIN toolOpts = 1..Len(toolOpts) /\ \A k \in DOMAIN toolOpts : toolOpts[k] \in Tool
           /\ Len(entries) \in Nat /\ DOMAIN entries = 1..Len(entries)
           /\ \A k \in DOMAIN entries : entries[k] \in Entry
           /\ Len(storedEntries) \in Nat /\ DOMAIN storedEntries = 1..Len(storedEntries)
           /\ \A k \in DOMAIN storedEntries : storedEntries[k] \in Entry
  <1>1. toolOpts \in Seq(Tool) /\ entries \in Seq(Entry) /\ storedEntries \in Seq(Entry)
    BY ListTypes DEF TypeOK
  <1> QED  BY <1>1, LenProperties

LEMMA Initially == Init => IInv
  <1> SUFFICES ASSUME Init  PROVE IInv
    OBVIOUS
  <1>1. entries \in Seq(Entry) /\ Honest(entries) /\ bin \in [Tool -> Content \cup {NoBin}]
    BY ListTypes DEF Init
  <1>2. TypeOK
    BY <1>1 DEF Init, TypeOK
  <1>3. Stages
    BY DEF Init, Stages
  <1>4. Passing /\ ConfiguredListed
    <2>1. \A k \in DOMAIN toolOpts : ~(k < i)
      BY <1>2, Types DEF Init
    <2> QED  BY <2>1 DEF Init, Passing, ConfiguredListed
  <1>5. EntriesListed
    BY DEF Init, EntriesListed, Left
  <1> QED  BY <1>1, <1>2, <1>3, <1>4, <1>5 DEF IInv

LEMMA StepGetStatus == ASSUME IInv, GetStatus  PROVE IInv'
  <1>a. TypeOK /\ i \in 1..Len(toolOpts) /\ i \in Nat /\ toolOpts[i] \in Tool
    BY Types DEF IInv, GetStatus, TypeOK, Stages
  <1>b. PICK name \in Tool : name = toolOpts[i]
    BY <1>a
  <1> DEFINE mine == Named(entries, name)
  <1>0. /\ cmd = "list" /\ stage = "configured" /\ i \in 1..Len(toolOpts) /\ i \in Nat
        /\ UNCHANGED <<cmd, toolOpts, entries, bin, stage, tampers>> /\ i' = i + 1
        /\ TypeOK /\ Honest(entries) /\ name = toolOpts[i]
    BY <1>a, <1>b DEF IInv, GetStatus, input
  <1>1. CASE failedTools' = failedTools \cup {name} /\ UNCHANGED <<storedEntries, allStatus, resolved>>
    <2>1. TypeOK'  BY <1>0, <1>1 DEF TypeOK
    <2>2. Stages' /\ Passing'  BY <1>0 DEF IInv, Stages, Passing
    <2>3. ConfiguredListed'
      BY <1>0, <1>1, Types DEF IInv, ConfiguredListed, HasRow
    <2>4. EntriesListed'
      BY <1>0, <1>1 DEF IInv, EntriesListed, Shown, Left
    <2> QED  BY <1>0, <2>1, <2>2, <2>3, <2>4 DEF IInv, Honest
  <1>2. CASE /\ Cardinality(mine) <= 1
             /\ \E version \in Version :
                   /\ resolved' = [resolved EXCEPT ![name] = version]
                   /\ allStatus' = Append(allStatus, ConfiguredRow(name, version, mine))
             /\ \/ mine = {} /\ UNCHANGED storedEntries
                \/ \E k \in mine : storedEntries' = RemoveEntry(storedEntries, entries[k])
             /\ UNCHANGED failedTools
    <2>1. PICK version \in Version :
             /\ resolved' = [resolved EXCEPT ![name] = version]
             /\ allStatus' = Append(allStatus, ConfiguredRow(name, version, mine))
      BY <1>2
    <2> DEFINE row == ConfiguredRow(name, version, mine)
    <2>2. IsFiniteSet(mine) /\ \A k \in mine : k \in DOMAIN entries /\ entries[k].name = name
      <3>1. mine \subseteq 1..Len(entries) /\ IsFiniteSet(1..Len(entries))
        BY <1>0, Types, FS_Interval DEF Named
      <3> QED  BY <3>1, FS_Subset DEF Named
    <2>3. \A k \in mine : row.installed = entries[k].version
      <3>1. \A k \in mine : k = (CHOOSE l \in mine : TRUE)
        BY <1>2, <2>2, AtMostOne
      <3> QED  BY <3>1 DEF ConfiguredRow
    <2>4. row \in Row /\ row.name = name /\ row.configured
      <3>1. row.installed \in Version \cup {None}
        <4>1. CASE mine = {}  BY <4>1 DEF ConfiguredRow
        <4>2. CASE mine # {}  BY <1>0, <2>2, <2>3, <4>2, Types DEF Entry
        <4> QED  BY <4>1, <4>2
      <3> QED  BY <1>0, <3>1 DEF ConfiguredRow, Row
    <2>5. storedEntries \in Seq(Entry) /\ storedEntries' \in Seq(Entry)
      <3>1. storedEntries \in Seq(Entry)
        BY <1>0 DEF TypeOK
      <3> QED  BY <1>2, <3>1, RemoveEntryKeeps
    <2>11. allStatus' = Append(allStatus, row)
      BY <2>1
    <2> HIDE DEF row
    <2>12. /\ allStatus' \in Seq(Row)
           /\ \E r \in DOMAIN allStatus' : allStatus'[r] = row
      BY <1>0, <2>4, <2>11, RowAppended
    <2>13. /\ \A n : HasRow(n) => HasRow(n)'
           /\ \A en : Shown(en) => Shown(en)'
      BY <1>0, <2>4, <2>11, ShownStays
    <2>6. TypeOK'
      <3>1. resolved' \in [Tool -> Version \cup {None}]
        BY <1>0, <2>1 DEF TypeOK
      <3> QED  BY <1>0, <1>2, <2>5, <2>12, <3>1 DEF TypeOK
    <2>7. Stages' /\ Passing'
      BY <1>0, <1>2 DEF IInv, Stages, Passing
    <2>8. ConfiguredListed'
      <3>1. HasRow(name)'
        BY <2>4, <2>12 DEF HasRow
      <3>2. \A n : HasRow(n) => HasRow(n)'
        BY <2>13
      <3>3. \A k \in DOMAIN toolOpts : k < i + 1 => k < i \/ k = i
        BY <1>0, Types
      <3> QED  BY <1>0, <1>2, <3>1, <3>2, <3>3 DEF IInv, ConfiguredListed
    <2>9. ASSUME NEW e \in DOMAIN entries
          PROVE  Shown(entries[e])' \/ entries[e].name \in failedTools' \/ Left(entries[e])'
      <3>1. CASE Shown(entries[e])
        <4>1. Shown(entries[e])'
          BY <1>0, <2>13, <3>1 DEF Shown
        <4> QED  BY <4>1
      <3>2. CASE entries[e].name \in failedTools
        BY <1>2, <3>2
      <3>3. CASE Left(entries[e])
        <4>1. PICK k \in DOMAIN storedEntries : /\ storedEntries[k].name = entries[e].name
                                                /\ storedEntries[k].version = entries[e].version
          BY <3>3 DEF Left
        <4>2. CASE UNCHANGED storedEntries
          BY <1>0, <4>1, <4>2 DEF Left
        <4>3. ASSUME NEW l \in mine, storedEntries' = RemoveEntry(storedEntries, entries[l])
              PROVE  Shown(entries[e])' \/ Left(entries[e])'
          <5>1. CASE entries[e].name = entries[l].name /\ entries[e].version = entries[l].version
            <6>1. PICK r \in DOMAIN allStatus' : allStatus'[r] = row
              BY <2>12
            <6>2. row.name = entries[e].name /\ row.installed = entries[e].version
              BY <2>2, <2>3, <2>4, <4>3, <5>1
            <6> QED  BY <1>0, <6>1, <6>2 DEF Shown
          <5>2. CASE ~(entries[e].name = entries[l].name /\ entries[e].version = entries[l].version)
            <6>2. storedEntries \in Seq(Entry)  BY <2>5
            <6>3. storedEntries[k].name # entries[l].name \/ storedEntries[k].version # entries[l].version
              BY <4>1, <5>2
            <6>4. \E m \in DOMAIN RemoveEntry(storedEntries, entries[l]) :
                     RemoveEntry(storedEntries, entries[l])[m] = storedEntries[k]
              BY <6>2, <6>3, RemoveEntryKeeps
            <6>1. PICK m \in DOMAIN storedEntries' : storedEntries'[m] = storedEntries[k]
              BY <4>3, <6>4
            <6> QED  BY <1>0, <4>1, <6>1 DEF Left
          <5> QED  BY <5>1, <5>2
        <4> QED  BY <1>2, <4>2, <4>3
      <3> QED  BY <1>0, <3>1, <3>2, <3>3 DEF IInv, EntriesListed
    <2>10. EntriesListed'
      BY <1>0, <2>9 DEF EntriesListed
    <2> QED  BY <1>0, <2>6, <2>7, <2>8, <2>10 DEF IInv, Honest
  <1> QED  BY <1>1, <1>2, <1>b DEF GetStatus

LEMMA StepConfiguredDone == ASSUME IInv, ConfiguredDone  PROVE IInv'
  <1>0. /\ cmd = "list" /\ stage = "configured" /\ i > Len(toolOpts) /\ i \in Nat
        /\ UNCHANGED <<cmd, toolOpts, entries, bin, storedEntries, failedTools, allStatus, resolved, tampers>>
        /\ i' = 1 /\ stage' = "stored"
        /\ TypeOK /\ Honest(entries)
    BY DEF IInv, ConfiguredDone, input, TypeOK
  <1>1. TypeOK' /\ Stages' /\ Passing'
    BY <1>0 DEF IInv, TypeOK, Stages, Passing
  <1>2. ConfiguredListed'
    <2>1. \A k \in DOMAIN toolOpts : k < i
      BY <1>0, Types
    <2> QED  BY <1>0, <2>1 DEF IInv, ConfiguredListed, HasRow
  <1>3. EntriesListed'
    <2>1. ASSUME NEW e \in DOMAIN entries, Left(entries[e])
          PROVE  Left(entries[e])'
      <3>1. \A k \in DOMAIN storedEntries : k >= 1
        BY <1>0, Types
      <3> QED  BY <1>0, <2>1, <3>1 DEF Left
    <2> QED  BY <1>0, <2>1 DEF IInv, EntriesListed, Shown
  <1> QED  BY <1>0, <1>1, <1>2, <1>3 DEF IInv, Honest

LEMMA StepListStored == ASSUME IInv, ListStored  PROVE IInv'
  <1>0. /\ cmd = "list" /\ stage = "stored" /\ i \in DOMAIN storedEntries /\ i \in Nat
        /\ UNCHANGED <<cmd, toolOpts, entries, bin, stage, storedEntries, resolved, tampers>>
        /\ i' = i + 1
        /\ TypeOK /\ Honest(entries)
    BY Types DEF IInv, ListStored, input, TypeOK, Stages
  <1>1. PICK entry \in Entry : entry = storedEntries[i]
    BY <1>0, Types
  <1>2. entry.name \in Tool /\ entry.version \in Version
    BY <1>1 DEF Entry
  <1>3. Stages' /\ Passing'
    BY <1>0 DEF IInv, Stages, Passing
  \* what is left after this entry
  <1>4. ASSUME NEW en, Left(en)
        PROVE  \/ Left(en)'
               \/ entry.name = en.name /\ entry.version = en.version
    <2>1. PICK k \in DOMAIN storedEntries :
             k >= i /\ storedEntries[k].name = en.name /\ storedEntries[k].version = en.version
      BY <1>0, <1>4 DEF Left
    <2>2. k >= i + 1 \/ k = i
      BY <1>0, <2>1, Types
    <2> QED  BY <1>0, <1>1, <2>1, <2>2 DEF Left
  <1>5. CASE failedTools' = failedTools \cup {entry.name} /\ UNCHANGED allStatus
    <2>1. TypeOK'
      BY <1>0, <1>2, <1>5 DEF TypeOK
    <2>2. ConfiguredListed'
      BY <1>0, <1>5 DEF IInv, ConfiguredListed, HasRow
    <2>3. ASSUME NEW e \in DOMAIN entries
          PROVE  Shown(entries[e])' \/ entries[e].name \in failedTools' \/ Left(entries[e])'
      <3>1. CASE Shown(entries[e])
        BY <1>0, <1>5, <3>1 DEF Shown
      <3>2. CASE entries[e].name \in failedTools
        BY <1>5, <3>2
      <3>3. CASE Left(entries[e])
        <4>1. Left(entries[e])' \/ entry.name = entries[e].name
          BY <1>0, <1>4, <3>3 DEF Left
        <4> QED  BY <1>5, <4>1
      <3> QED  BY <1>0, <3>1, <3>2, <3>3 DEF IInv, EntriesListed
    <2>4. EntriesListed'
      BY <1>0, <2>3 DEF EntriesListed
    <2> QED  BY <1>0, <1>3, <2>1, <2>2, <2>4 DEF IInv, Honest
  <1>6. ASSUME NEW row \in Row, row.name = entry.name, row.installed = entry.version,
               allStatus' = Append(allStatus, row), UNCHANGED failedTools
        PROVE  IInv'
    <2>1. /\ allStatus' \in Seq(Row)
          /\ \E r \in DOMAIN allStatus' : allStatus'[r] = row
      BY <1>0, <1>6, RowAppended
    <2>2. /\ \A n : HasRow(n) => HasRow(n)'
          /\ \A en : Shown(en) => Shown(en)'
      BY <1>0, <1>6, ShownStays
    <2>3. TypeOK'
      BY <1>0, <1>6, <2>1 DEF TypeOK
    <2>4. ConfiguredListed'
      <3>1. \A k \in DOMAIN toolOpts : HasRow(toolOpts[k]) => HasRow(toolOpts[k])'
        BY <1>0, <2>2 DEF HasRow
      <3> QED  BY <1>0, <1>6, <3>1 DEF IInv, ConfiguredListed
    <2>5. ASSUME NEW e \in DOMAIN entries
          PROVE  Shown(entries[e])' \/ entries[e].name \in failedTools' \/ Left(entries[e])'
      <3>1. CASE Shown(entries[e])
        BY <1>0, <2>2, <3>1 DEF Shown
      <3>2. CASE entries[e].name \in failedTools
        BY <1>6, <3>2
      <3>3. CASE Left(entries[e])
        <4>1. CASE Left(entries[e])'
          BY <4>1
        <4>2. CASE entry.name = entries[e].name /\ entry.version = entries[e].version
          BY <1>0, <1>6, <2>1, <4>2 DEF Shown
        <4> QED  BY <1>0, <1>4, <3>3, <4>1, <4>2 DEF Left
      <3> QED  BY <1>0, <3>1, <3>2, <3>3 DEF IInv, EntriesListed
    <2>6. EntriesListed'
      BY <1>0, <2>5 DEF EntriesListed
    <2> QED  BY <1>0, <1>3, <2>3, <2>4, <2>6 DEF IInv, Honest
  <1>8. CASE ~(failedTools' = failedTools \cup {entry.name} /\ UNCHANGED allStatus)
    <2> DEFINE row == [name |-> entry.name, configured |-> FALSE, resolved |-> None,
                       installed |-> entry.version, isInstalled |-> TRUE,
                       hashIsValid |-> Verify(entry, bin), error |-> FALSE]
    <2>1. row \in Row /\ row.name = entry.name /\ row.installed = entry.version
      BY <1>2 DEF Row, Verify
    <2>2. allStatus' = Append(allStatus, row) /\ UNCHANGED failedTools
      BY <1>1, <1>8 DEF ListStored
    <2> HIDE DEF row
    <2> QED  BY <1>6, <2>1, <2>2
  <1> QED  BY <1>5, <1>8

LEMMA StepStoredDone == ASSUME IInv, StoredDone  PROVE IInv'
  <1>0. /\ cmd = "list" /\ stage = "stored" /\ i > Len(storedEntries) /\ i \in Nat
        /\ UNCHANGED <<cmd, toolOpts, entries, bin, i, storedEntries, failedTools, allStatus, resolved, tampers>>
        /\ stage' = "failed"
        /\ TypeOK /\ Honest(entries)
    BY DEF IInv, StoredDone, input, TypeOK, Stages
  <1>1. TypeOK' /\ Stages' /\ Passing' /\ ConfiguredListed'
    BY <1>0 DEF IInv, TypeOK, Stages, Passing, ConfiguredListed, HasRow
  <1>2. EntriesListed'
    <2>1. \A en : ~Left(en)
      <3>1. \A k \in DOMAIN storedEntries : ~(k >= i)
        BY <1>0, Types
      <3> QED  BY <1>0, <3>1 DEF Left
    <2> QED  BY <1>0, <2>1 DEF IInv, EntriesListed, Shown
  <1> QED  BY <1>0, <1>1, <1>2 DEF IInv, Honest

LEMMA StepListFailed == ASSUME IInv, ListFailed  PROVE IInv'
  <1>0. /\ cmd = "list" /\ stage = "failed"
        /\ UNCHANGED <<cmd, toolOpts, entries, bin, stage, i, storedEntries, resolved, tampers>>
        /\ TypeOK /\ Honest(entries) /\ failedTools \subseteq Tool
    BY DEF IInv, ListFailed, input, TypeOK, Stages
  <1>1. PICK name \in failedTools :
          /\ allStatus' = Append(allStatus,
                [name |-> name, configured |-> \E k \in DOMAIN toolOpts : toolOpts[k] = name,
                 resolved |-> None, installed |-> None, isInstalled |-> FALSE,
                 hashIsValid |-> FALSE, error |-> TRUE])
          /\ failedTools' = failedTools \ {name}
    BY DEF ListFailed
  <1> DEFINE row == [name |-> name, configured |-> \E k \in DOMAIN toolOpts : toolOpts[k] = name,
                     resolved |-> None, installed |-> None, isInstalled |-> FALSE,
                     hashIsValid |-> FALSE, error |-> TRUE]
  <1>2. /\ row \in Row /\ row.name = name /\ row.error
        /\ row.configured = (\E k \in DOMAIN toolOpts : toolOpts[k] = name)
    BY <1>0, <1>1 DEF Row
  <1>3. allStatus' = Append(allStatus, row)
    BY <1>1
  <1> HIDE DEF row
  <1>4. /\ allStatus' \in Seq(Row)
        /\ \E r \in DOMAIN allStatus' : allStatus'[r] = row
    BY <1>0, <1>2, <1>3, RowAppended
  <1>5. /\ \A n : HasRow(n) => HasRow(n)'
        /\ \A en : Shown(en) => Shown(en)'
    BY <1>0, <1>2, <1>3, ShownStays
  <1>6. TypeOK' /\ Stages' /\ Passing'
    BY <1>0, <1>1, <1>4 DEF IInv, TypeOK, Stages, Passing
  <1>7. ConfiguredListed'
    <2>1. ASSUME NEW k \in DOMAIN toolOpts, toolOpts[k] \in failedTools \/ HasRow(toolOpts[k])
          PROVE  toolOpts[k] \in failedTools' \/ HasRow(toolOpts[k])'
      <3>1. CASE HasRow(toolOpts[k])
        BY <1>0, <1>5, <3>1 DEF HasRow
      <3>2. CASE toolOpts[k] = name
        <4>1. row.configured
          BY <1>2, <3>2
        <4> QED  BY <1>0, <1>2, <1>4, <3>2, <4>1 DEF HasRow
      <3> QED  BY <1>1, <2>1, <3>1, <3>2
    <2> QED  BY <1>0, <2>1 DEF IInv, ConfiguredListed
  <1>8. EntriesListed'
    <2>1. ASSUME NEW e \in DOMAIN entries
          PROVE  Shown(entries[e])' \/ entries[e].name \in failedTools'
      <3>1. CASE Shown(entries[e])
        BY <1>0, <1>5, <3>1 DEF Shown
      <3>2. CASE entries[e].name = name
        BY <1>0, <1>2, <1>4, <3>2 DEF Shown
      <3>3. ~Left(entries[e])
        BY <1>0 DEF Left
      <3> QED  BY <1>0, <1>1, <3>1, <3>2, <3>3 DEF IInv, EntriesListed
    <2> QED  BY <1>0, <2>1 DEF EntriesListed
  <1> QED  BY <1>0, <1>6, <1>7, <1>8 DEF IInv, Honest

LEMMA StepFailedDone == ASSUME IInv, FailedDone  PROVE IInv'
  <1>0. /\ cmd = "list" /\ stage = "failed" /\ failedTools = {}
        /\ UNCHANGED <<cmd, toolOpts, entries, bin, i, storedEntries, failedTools, allStatus, resolved, tampers>>
        /\ stage' = "listed"
    BY DEF IInv, FailedDone, input, TypeOK, Stages
  <1>1. TypeOK' /\ Stages' /\ Passing' /\ ConfiguredListed'
    BY <1>0 DEF IInv, TypeOK, Stages, Passing, ConfiguredListed, HasRow
  <1>2. EntriesListed'
    BY <1>0 DEF IInv, EntriesListed, Shown, Left
  <1> QED  BY <1>0, <1>1, <1>2 DEF IInv, Honest

LEMMA StepCheckTool == ASSUME IInv, CheckTool  PROVE IInv'
  <1>0. /\ cmd = "check" /\ stage = "configured" /\ i \in DOMAIN toolOpts /\ i \in Nat
        /\ UNCHANGED <<cmd, toolOpts, entries, bin, stage, storedEntries, allStatus, tampers>>
        /\ i' = i + 1
        /\ TypeOK /\ Honest(entries) /\ toolOpts[i] \in Tool
    BY Types DEF IInv, CheckTool, input, TypeOK, Stages
  <1>1. PICK name \in Tool : name = toolOpts[i]
    BY <1>0
  <1>2. Stages' /\ ConfiguredListed' /\ EntriesListed'
    BY <1>0 DEF IInv, Stages, ConfiguredListed, EntriesListed
  <1>3. \A k \in DOMAIN toolOpts : k < i + 1 => k < i \/ k = i
    BY <1>0, Types
  <1>4. CASE failedTools' = failedTools \cup {name} /\ UNCHANGED resolved
    <2>1. TypeOK'
      BY <1>0, <1>4 DEF TypeOK
    <2>2. Passing'
      BY <1>0, <1>1, <1>3, <1>4 DEF IInv, Passing, InPlace
    <2> QED  BY <1>0, <1>2, <2>1, <2>2 DEF IInv, Honest
  <1>5. ASSUME NEW version \in Version,
               resolved' = [resolved EXCEPT ![name] = version],
               failedTools' = IF Check(entries, bin, name, version) THEN failedTools
                              ELSE failedTools \cup {name}
        PROVE  IInv'
    <2>1. resolved' \in [Tool -> Version \cup {None}] /\ resolved'[name] = version
          /\ \A t \in Tool : t # name => resolved'[t] = resolved[t]
      BY <1>0, <1>5 DEF TypeOK
    <2>2. TypeOK'
      BY <1>0, <1>5, <2>1 DEF TypeOK
    <2>3. name \in failedTools' \/ InPlace(name)'
      <3>1. CASE Check(entries, bin, name, version)
        <4>1. entries \in Seq(Entry)
          BY <1>0 DEF TypeOK
        <4>2. bin[name] = version /\ \E e \in DOMAIN entries : entries[e].name = name /\ entries[e].version = version
          BY <1>0, <3>1, <4>1, CheckTellsVersion
        <4> QED  BY <1>0, <2>1, <4>2 DEF InPlace
      <3>2. CASE ~Check(entries, bin, name, version)
        BY <1>5, <3>2
      <3> QED  BY <3>1, <3>2
    <2>4. ASSUME NEW k \in DOMAIN toolOpts, k < i + 1
          PROVE  toolOpts[k] \in failedTools' \/ InPlace(toolOpts[k])'
      <3>1. CASE toolOpts[k] = name
        BY <1>0, <2>3, <3>1 DEF InPlace
      <3>2. CASE toolOpts[k] # name
        <4>1. k < i /\ toolOpts[k] \in Tool
          BY <1>0, <1>1, <1>3, <2>4, <3>2, Types
        <4>2. toolOpts[k] \in failedTools \/ InPlace(toolOpts[k])
          BY <1>0, <4>1 DEF IInv, Passing
        <4>3. failedTools \subseteq failedTools'
          BY <1>5
        <4>4. resolved'[toolOpts[k]] = resolved[toolOpts[k]]
          BY <2>1, <3>2, <4>1
        <4> QED  BY <1>0, <4>2, <4>3, <4>4 DEF InPlace
      <3> QED  BY <3>1, <3>2
    <2>5. Passing'
      BY <1>0, <2>4 DEF Passing
    <2> QED  BY <1>0, <1>2, <2>2, <2>5 DEF IInv, Honest
  <1> QED  BY <1>1, <1>4, <1>5 DEF CheckTool

LEMMA StepCheckDone == ASSUME IInv, CheckDone  PROVE IInv'
  <1>0. /\ cmd = "check" /\ stage = "configured" /\ i > Len(toolOpts)
        /\ UNCHANGED <<cmd, toolOpts, entries, bin, i, storedEntries, failedTools, allStatus, resolved, tampers>>
        /\ stage' = IF failedTools = {} THEN "passed" ELSE "refused"
    BY DEF CheckDone, input
  <1>1. TypeOK' /\ Stages' /\ ConfiguredListed' /\ EntriesListed'
    BY <1>0 DEF IInv, TypeOK, Stages, ConfiguredListed, EntriesListed
  <1>2. Passing'
    BY <1>0 DEF IInv, Passing, InPlace
  <1> QED  BY <1>0, <1>1, <1>2 DEF IInv, Honest

LEMMA StepTamper == ASSUME IInv, Tamper  PROVE IInv'
  <1>0. /\ UNCHANGED <<cmd, toolOpts, entries, stage, i, storedEntries, failedTools, allStatus, resolved>>
        /\ tampers' = tampers + 1 /\ tampers' # 0
        /\ bin' \in [Tool -> Content \cup {NoBin}] /\ TypeOK
    BY DEF IInv, Tamper, input, TypeOK, Content
  <1>1. TypeOK' /\ Stages' /\ ConfiguredListed' /\ EntriesListed'
    BY <1>0 DEF IInv, TypeOK, Stages, ConfiguredListed, HasRow, EntriesListed, Shown, Left
  <1>2. Passing'
    BY <1>0 DEF IInv, Passing, InPlace
  <1> QED  BY <1>0, <1>1, <1>2 DEF IInv, Honest

LEMMA Inductive == IInv /\ [Next]_vars => IInv'
  <1> SUFFICES ASSUME IInv, [Next]_vars  PROVE IInv'
    OBVIOUS
  <1>1. CASE Next
    BY <1>1, StepGetStatus, StepConfiguredDone, StepListStored, StepStoredDone, StepListFailed,
       StepFailedDone, StepCheckTool, StepCheckDone, StepTamper DEF Next
  <1>2. CASE UNCHANGED vars
    BY <1>2 DEF vars, input, IInv, TypeOK, Honest, Stages, Passing, InPlace, ConfiguredListed,
       HasRow, EntriesListed, Shown, Left
  <1> QED  BY <1>1, <1>2

---------------------------------------------------------------------------
(* The theorems.                                                           *)

\* The inductive invariant holds of every behaviour.
THEOREM Invariance == Spec => []IInv
  BY Initially, Inductive, PTL DEF Spec

\* The variables of `binny list` and `binny check` keep their types (command/list.go,
\* command/check.go).
THEOREM TypeCorrectness == Spec => []TypeOK
  <1>1. IInv => TypeOK
    BY DEF IInv
  <1> QED  BY Invariance, <1>1, PTL

\* `binny list` leaves no configured tool and no entry of the store out, for any number
\* of tools, entries and binaries that vanish meanwhile (getAllStatuses).
THEOREM EverythingListed == Spec => []EverythingIsListed
  <1>1. IInv => EverythingIsListed
    <2> SUFFICES ASSUME IInv, stage = "listed"
                 PROVE  /\ \A name \in Configured : \E k \in RowsOf(name) : allStatus[k].configured
                        /\ \A e \in DOMAIN entries : \E k \in RowsOf(entries[e].name) :
                              allStatus[k].error \/ allStatus[k].installed = entries[e].version
      BY DEF EverythingIsListed
    <2>1. cmd = "list" /\ failedTools = {}
      BY DEF IInv, TypeOK, Stages
    <2>2. \A k \in DOMAIN toolOpts : HasRow(toolOpts[k])
      BY <2>1 DEF IInv, ConfiguredListed
    <2>3. \A e \in DOMAIN entries : Shown(entries[e])
      BY <2>1 DEF IInv, EntriesListed, Left
    <2> QED  BY <2>2, <2>3 DEF Configured, RowsOf, HasRow, Shown
  <1> QED  BY Invariance, <1>1, PTL

\* When `binny check` passes, each configured tool is in place at the version it resolved
\* to last (runCheck, tool.Check).
THEOREM PassedInPlace == Spec => []PassedMeansInPlace
  <1>1. IInv => PassedMeansInPlace
    <2> SUFFICES ASSUME IInv, stage = "passed"
                 PROVE  \A name \in Configured :
                           /\ \E e \in DOMAIN entries : entries[e].name = name
                                                         /\ entries[e].version = resolved[name]
                           /\ tampers = 0 => bin[name] = resolved[name]
      BY DEF PassedMeansInPlace
    <2>1. cmd = "check" /\ i > Len(toolOpts) /\ i \in Nat /\ failedTools = {} /\ TypeOK
      BY DEF IInv, TypeOK, Stages
    <2>2. \A k \in DOMAIN toolOpts : k < i
      BY <2>1, Types
    <2>3. \A k \in DOMAIN toolOpts : InPlace(toolOpts[k])
      BY <2>1, <2>2 DEF IInv, Passing
    <2> QED  BY <2>3 DEF Configured, InPlace
  <1> QED  BY Invariance, <1>1, PTL

---------------------------------------------------------------------------
(* What `binny list` knows of updates: the invariant.                      *)

\* A row from which whether a tool is to be updated can be told.
HasEntry(name, version) ==
    \E e \in DOMAIN entries : entries[e].name = name /\ entries[e].version = version
Tells(row, name) ==
    /\ row.name = name /\ row.configured /\ ~row.error /\ row.resolved = resolved[name]
    /\ (row.isInstalled /\ row.installed = row.resolved) => HasEntry(name, resolved[name])
    /\ (tampers = 0 /\ row.installed = row.resolved /\ row.hashIsValid)
          => Check(entries, bin, name, resolved[name])
HasError(name) == \E r \in DOMAIN allStatus : allStatus[r].name = name /\ allStatus[r].error
Told(name) ==
    \/ name \in failedTools
    \/ HasError(name)
    \/ \E r \in DOMAIN allStatus : Tells(allStatus[r], name)
UpdatesTold ==
    cmd = "list" =>
        \A k \in DOMAIN toolOpts : (stage = "configured" => k < i) => Told(toolOpts[k])

\* A row that says that its one entry has the version and a digest that matches is the
\* row of a tool that Check passes.
LEMMA ValidRowChecks ==
    ASSUME TypeOK, NEW name \in Tool, NEW version \in Version,
           Cardinality(Named(entries, name)) <= 1,
           ConfiguredRow(name, version, Named(entries, name)).installed = version,
           ConfiguredRow(name, version, Named(entries, name)).hashIsValid
    PROVE  Check(entries, bin, name, version)
  <1> DEFINE mine == Named(entries, name)
  <1>1. PICK k \in mine : Verify(entries[k], bin)
    BY DEF ConfiguredRow
  <1>2. IsFiniteSet(mine)
    <2>1. mine \subseteq 1..Len(entries) /\ IsFiniteSet(1..Len(entries))
      BY Types, FS_Interval DEF Named
    <2> QED  BY <2>1, FS_Subset
  <1>3. mine = {k}
    BY <1>1, <1>2, AtMostOne
  <1>4. entries[k].version = version
    BY <1>3 DEF ConfiguredRow
  <1>5. NamedAt(entries, name, version) = {k}
    BY <1>3, <1>4 DEF NamedAt
  <1>6. Cardinality(NamedAt(entries, name, version)) = 1
    BY <1>5, FS_Singleton
  <1>7. GetResult(entries, name, version) = "entry"
    BY <1>6 DEF GetResult
  <1> QED  BY <1>1, <1>5, <1>7 DEF Check

\* The row of a tool with at most one entry is a row of the list.
LEMMA ConfiguredRowIsRow ==
    ASSUME TypeOK, NEW name \in Tool, NEW version \in Version,
           Cardinality(Named(entries, name)) <= 1
    PROVE  ConfiguredRow(name, version, Named(entries, name)) \in Row
  <1> DEFINE mine == Named(entries, name)
  <1>1. ASSUME mine # {}
        PROVE  entries[CHOOSE k \in mine : TRUE].version \in Version
    <2>1. (CHOOSE k \in mine : TRUE) \in DOMAIN entries
      BY <1>1 DEF Named
    <2> QED  BY <2>1, Types DEF Entry
  <1> QED  BY <1>1 DEF ConfiguredRow, Row

LEMMA ToldInitially == Init => UpdatesTold
  <1> SUFFICES ASSUME Init  PROVE UpdatesTold
    OBVIOUS
  <1>1. TypeOK
    BY Initially DEF IInv
  <1>2. \A k \in DOMAIN toolOpts : ~(k < i)
    BY <1>1, Types DEF Init
  <1> QED  BY <1>2 DEF Init, UpdatesTold

\* A row that is appended leaves what the rows before it tell.
LEMMA ToldStays ==
    ASSUME TypeOK, NEW row \in Row, allStatus' = Append(allStatus, row),
           UNCHANGED <<entries, bin, failedTools, tampers>>,
           NEW name, resolved'[name] = resolved[name], Told(name)
    PROVE  Told(name)'
  BY RowAppended DEF Told, HasError, Tells, HasEntry

LEMMA ToldGetStatus == ASSUME IInv, UpdatesTold, GetStatus  PROVE UpdatesTold'
  <1>a. TypeOK /\ i \in 1..Len(toolOpts) /\ i \in Nat /\ toolOpts[i] \in Tool
    BY Types DEF IInv, GetStatus, TypeOK, Stages
  <1>b. PICK name \in Tool : name = toolOpts[i]
    BY <1>a
  <1> DEFINE mine == Named(entries, name)
  <1>0. /\ cmd = "list" /\ stage = "configured" /\ i \in 1..Len(toolOpts) /\ i \in Nat
        /\ UNCHANGED <<cmd, toolOpts, entries, bin, stage, tampers>> /\ i' = i + 1
        /\ TypeOK /\ name = toolOpts[i]
    BY <1>a, <1>b DEF IInv, GetStatus, input
  <1>1. SUFFICES ASSUME \A n \in Tool : n # name /\ Told(n) => Told(n)', Told(name)'
                 PROVE  UpdatesTold'
    <2>1. CASE failedTools' = failedTools \cup {name} /\ UNCHANGED <<storedEntries, allStatus, resolved>>
      <3>1. \A n \in Tool : n # name /\ Told(n) => Told(n)'
        BY <1>0, <2>1 DEF Told, HasError, Tells, HasEntry
      <3>2. Told(name)'
        BY <2>1 DEF Told
      <3> QED  BY <1>0, <1>1, <3>1, <3>2 DEF UpdatesTold
    <2>2. CASE /\ Cardinality(mine) <= 1
               /\ \E version \in Version :
                     /\ resolved' = [resolved EXCEPT ![name] = version]
                     /\ allStatus' = Append(allStatus, ConfiguredRow(name, version, mine))
               /\ UNCHANGED failedTools
      <3>1. PICK version \in Version :
               /\ resolved' = [resolved EXCEPT ![name] = version]
               /\ allStatus' = Append(allStatus, ConfiguredRow(name, version, mine))
        BY <2>2
      <3> DEFINE row == ConfiguredRow(name, version, mine)
      <3>2. row \in Row
        BY <1>0, <2>2, ConfiguredRowIsRow
      <3>3. resolved'[name] = version /\ \A n \in Tool : n # name => resolved'[n] = resolved[n]
        BY <1>0, <3>1 DEF TypeOK
      <3>4. \A n \in Tool : n # name /\ Told(n) => Told(n)'
        BY <1>0, <2>2, <3>1, <3>2, <3>3, ToldStays
      <3>5. Told(name)'
        <4>1. (row.installed = version /\ row.hashIsValid) => Check(entries, bin, name, version)
          BY <1>0, <2>2, ValidRowChecks
        <4>2. row.name = name /\ row.configured /\ ~row.error /\ row.resolved = version
          BY DEF ConfiguredRow
        <4>5. (row.isInstalled /\ row.installed = version) => HasEntry(name, version)
          <5>1. (CHOOSE k \in mine : TRUE) \in mine \/ mine = {}
            OBVIOUS
          <5> QED  BY <5>1 DEF ConfiguredRow, HasEntry, Named
        <4>3. PICK r \in DOMAIN allStatus' : allStatus'[r] = row
          BY <1>0, <3>1, <3>2, RowAppended
        <4> HIDE DEF row
        <4>4. Tells(allStatus[r], name)'
          BY <1>0, <3>3, <4>1, <4>2, <4>3, <4>5 DEF Tells, HasEntry
        <4> QED  BY <4>3, <4>4 DEF Told
      <3> QED  BY <1>0, <1>1, <3>4, <3>5 DEF UpdatesTold
    <2> QED  BY <1>b, <2>1, <2>2 DEF GetStatus
  <1>2. \A k \in DOMAIN toolOpts : k < i + 1 => k < i \/ k = i
    BY <1>0, Types
  <1>3. \A k \in DOMAIN toolOpts : toolOpts[k] \in Tool
    BY <1>0, Types
  <1>4. \A k \in DOMAIN toolOpts : k < i + 1 => Told(toolOpts[k])'
    <2> SUFFICES ASSUME NEW k \in DOMAIN toolOpts, k < i + 1, NEW t \in Tool, t = toolOpts[k]
                 PROVE  Told(t)'
      BY <1>0, <1>3 DEF Told, Tells, HasError, HasEntry
    <2> QED  BY <1>0, <1>1, <1>2 DEF UpdatesTold
  <1> QED  BY <1>0, <1>4 DEF UpdatesTold, Told, Tells, HasError, HasEntry

\* The other steps append a row that says nothing of updates, or an error.
LEMMA ToldOtherSteps ==
    ASSUME IInv, UpdatesTold,
           ConfiguredDone \/ ListStored \/ StoredDone \/ ListFailed \/ FailedDone
             \/ CheckTool \/ CheckDone \/ Tamper
    PROVE  UpdatesTold'
  <1>0. TypeOK /\ \A k \in DOMAIN toolOpts : toolOpts[k] \in Tool
    BY Types DEF IInv
  <1>1. CASE ConfiguredDone
    <2>1. i > Len(toolOpts) /\ i \in Nat
      BY <1>0, <1>1 DEF ConfiguredDone, TypeOK
    <2>2. \A k \in DOMAIN toolOpts : k < i
      BY <1>0, <2>1, Types
    <2> QED  BY <1>1, <2>2 DEF ConfiguredDone, input, UpdatesTold, Told, HasError, Tells, HasEntry
  <1>2. CASE StoredDone \/ FailedDone
    BY <1>2 DEF StoredDone, FailedDone, input, UpdatesTold, Told, HasError, Tells, HasEntry
  <1>3. CASE CheckTool \/ CheckDone
    BY <1>3 DEF CheckTool, CheckDone, input, UpdatesTold
  <1>4. CASE Tamper
    <2>1. tampers' # 0
      BY <1>0, <1>4 DEF Tamper, TypeOK
    <2>2. UNCHANGED <<cmd, toolOpts, entries, stage, i, failedTools, allStatus, resolved>>
      BY <1>4 DEF Tamper, input
    <2> QED  BY <2>1, <2>2 DEF UpdatesTold, Told, HasError, Tells, HasEntry
  <1>5. CASE ListStored
    <2>0. /\ stage = "stored" /\ i \in DOMAIN storedEntries
          /\ UNCHANGED <<cmd, toolOpts, entries, bin, stage, storedEntries, resolved, tampers>>
      BY <1>0, <1>5, Types DEF ListStored, input, TypeOK, IInv, Stages
    <2>1. PICK entry \in Entry : entry = storedEntries[i]
      BY <1>0, <2>0, Types
    <2>2. ASSUME NEW n, Told(n)  PROVE Told(n)'
      <3>1. CASE failedTools' = failedTools \cup {entry.name} /\ UNCHANGED allStatus
        BY <2>0, <2>2, <3>1 DEF Told, HasError, Tells, HasEntry
      <3>2. CASE ~(failedTools' = failedTools \cup {entry.name} /\ UNCHANGED allStatus)
        <4> DEFINE row == [name |-> entry.name, configured |-> FALSE, resolved |-> None,
                           installed |-> entry.version, isInstalled |-> TRUE,
                           hashIsValid |-> Verify(entry, bin), error |-> FALSE]
        <4>1. row \in Row
          BY <2>1 DEF Row, Entry, Verify
        <4>2. allStatus' = Append(allStatus, row) /\ UNCHANGED failedTools
          BY <1>5, <2>1, <3>2 DEF ListStored
        <4> HIDE DEF row
        <4> QED  BY <1>0, <2>0, <2>2, <4>1, <4>2, ToldStays
      <3> QED  BY <3>1, <3>2
    <2> QED  BY <2>0, <2>2 DEF UpdatesTold, Told, HasError, Tells, HasEntry
  <1>6. CASE ListFailed
    <2>0. /\ stage = "failed" /\ failedTools \subseteq Tool
          /\ UNCHANGED <<cmd, toolOpts, entries, bin, stage, i, storedEntries, resolved, tampers>>
      BY <1>0, <1>6 DEF ListFailed, input, TypeOK
    <2>1. PICK name \in failedTools :
            /\ allStatus' = Append(allStatus,
                  [name |-> name, configured |-> \E k \in DOMAIN toolOpts : toolOpts[k] = name,
                   resolved |-> None, installed |-> None, isInstalled |-> FALSE,
                   hashIsValid |-> FALSE, error |-> TRUE])
            /\ failedTools' = failedTools \ {name}
      BY <1>6 DEF ListFailed
    <2> DEFINE row == [name |-> name, configured |-> \E k \in DOMAIN toolOpts : toolOpts[k] = name,
                       resolved |-> None, installed |-> None, isInstalled |-> FALSE,
                       hashIsValid |-> FALSE, error |-> TRUE]
    <2>2. row \in Row /\ row.name = name /\ row.error
      BY <2>0, <2>1 DEF Row
    <2>3. allStatus' = Append(allStatus, row)
      BY <2>1
    <2> HIDE DEF row
    <2>4. HasError(name)'
      BY <1>0, <2>2, <2>3, RowAppended DEF HasError
    <2>5. ASSUME NEW n, Told(n)  PROVE Told(n)'
      <3>1. CASE n = name
        BY <2>4, <3>1 DEF Told
      <3>2. CASE n # name /\ n \in failedTools
        BY <2>1, <3>2 DEF Told
      <3>3. CASE n \notin failedTools
        BY <1>0, <2>0, <2>2, <2>3, <2>5, <3>3, RowAppended DEF Told, HasError, Tells, HasEntry
      <3> QED  BY <3>1, <3>2, <3>3
    <2> QED  BY <2>0, <2>5 DEF UpdatesTold, Told, HasError, Tells, HasEntry
  <1> QED  BY <1>1, <1>2, <1>3, <1>4, <1>5, <1>6

\* `binny list --updates` leaves out only tools that are up to date: its JSON those that
\* `binny check` would pass at the version they resolved to, if nobody touched a binary
\* meanwhile, and its table those that have an entry of that version
\* (filterToolsWithoutUpdates, getToolUpdatesRow, getStatus, tool.Check).
THEOREM LeftOutUpToDate == Spec => []LeftOutIsUpToDate
  <1>1. IInv /\ UpdatesTold /\ [Next]_vars => UpdatesTold'
    <2> SUFFICES ASSUME IInv, UpdatesTold, [Next]_vars  PROVE UpdatesTold'
      OBVIOUS
    <2>1. CASE Next
      BY <2>1, ToldGetStatus, ToldOtherSteps DEF Next
    <2>2. CASE UNCHANGED vars
      BY <2>2 DEF vars, input, UpdatesTold, Told, HasError, Tells, HasEntry
    <2> QED  BY <2>1, <2>2
  <1>2. IInv /\ UpdatesTold => LeftOutIsUpToDate
    <2> SUFFICES ASSUME IInv, UpdatesTold, stage = "listed",
                        NEW names \in Include, NEW name \in Configured,
                        names = {} \/ name \in names
                 PROVE  /\ (tampers = 0 /\ \A row \in UpdatesJSON(names) : row.name # name)
                              => Check(entries, bin, name, resolved[name])
                        /\ (\A row \in UpdatesTable(names) : row.name # name)
                              => HasEntry(name, resolved[name])
      BY DEF LeftOutIsUpToDate, HasEntry
    <2>1. cmd = "list" /\ failedTools = {}
      BY DEF IInv, TypeOK, Stages
    <2>2. Told(name)
      BY <2>1 DEF UpdatesTold, Configured
    <2>3. ASSUME tampers = 0, \A row \in UpdatesJSON(names) : row.name # name
          PROVE  Check(entries, bin, name, resolved[name])
      <3>1. \A r \in DOMAIN allStatus : allStatus[r].name = name => ~HasUpdate(allStatus[r])
        BY <2>3 DEF UpdatesJSON, Asked, FilterStatus
      <3>2. ~HasError(name)
        BY <3>1 DEF HasError, HasUpdate
      <3>3. PICK r \in DOMAIN allStatus : Tells(allStatus[r], name)
        BY <2>1, <2>2, <3>2 DEF Told
      <3> QED  BY <2>3, <3>1, <3>3 DEF HasUpdate, Tells
    <2>4. ASSUME \A row \in UpdatesTable(names) : row.name # name
          PROVE  HasEntry(name, resolved[name])
      <3>1. \A r \in DOMAIN allStatus : allStatus[r].name = name => ~HasCommentary(allStatus[r])
        BY <2>4 DEF UpdatesTable, Asked, FilterStatus
      <3>2. ~HasError(name)
        BY <3>1 DEF HasError, HasCommentary
      <3>3. PICK r \in DOMAIN allStatus : Tells(allStatus[r], name)
        BY <2>1, <2>2, <3>2 DEF Told
      <3> QED  BY <3>1, <3>3 DEF HasCommentary, Tells
    <2> QED  BY <2>3, <2>4
  <1> QED  BY Invariance, ToldInitially, <1>1, <1>2, PTL DEF Spec

---------------------------------------------------------------------------
(* Each is listed once: the invariant.                                     *)

\* The entries that are left are entries of the store, each at a place of its own.
Part ==
    \E f \in [DOMAIN storedEntries -> DOMAIN entries] :
        /\ \A j, k \in DOMAIN storedEntries : f[j] = f[k] => j = k
        /\ \A j \in DOMAIN storedEntries : storedEntries[j] = entries[f[j]]

\* Nothing has failed, and no tool is configured twice.
Clean ==
    /\ cmd = "list" /\ failedTools = {}
    /\ \A r \in DOMAIN allStatus : ~allStatus[r].error
    /\ \A k, l \in DOMAIN toolOpts : toolOpts[k] = toolOpts[l] => k = l

Installed == {r \in DOMAIN allStatus : allStatus[r].isInstalled}
\* how many entries are still to be listed
Pending ==
    CASE stage = "configured" -> Len(storedEntries)
      [] stage = "stored" -> Len(storedEntries) - (i - 1)
      [] OTHER -> 0

\* A configured tool that was passed has its one row and no entry left.
OneRow(name) ==
    /\ \E r \in DOMAIN allStatus : RowsOf(name) = {r}
    /\ \A j \in DOMAIN storedEntries : storedEntries[j].name # name

RowsArePassed ==
    stage = "configured" =>
        \A r \in DOMAIN allStatus :
            \E k \in DOMAIN toolOpts : k < i /\ toolOpts[k] = allStatus[r].name
OneRowEach ==
    \A k \in DOMAIN toolOpts : (stage = "configured" => k < i) => OneRow(toolOpts[k])
CountedOnce == Cardinality(Installed) + Pending = Len(entries)

ListedOnce ==
    /\ Part
    /\ stage = "stored" => i <= Len(storedEntries) + 1
    /\ Clean => RowsArePassed /\ OneRowEach /\ CountedOnce

\* A row that is appended counts if it is of an entry.
LEMMA InstalledAppended ==
    ASSUME TypeOK, NEW row \in Row, allStatus' = Append(allStatus, row)
    PROVE  Cardinality(Installed)' =
              IF row.isInstalled THEN Cardinality(Installed) + 1 ELSE Cardinality(Installed)
  <1> DEFINE n == Len(allStatus)
  <1>1. DOMAIN allStatus = 1..n /\ n \in Nat /\ allStatus \in Seq(Row)
    BY LenProperties DEF TypeOK
  <1>2. /\ allStatus' \in Seq(Row) /\ Len(allStatus') = n + 1
        /\ \A r \in 1..n : allStatus'[r] = allStatus[r]
        /\ allStatus'[n + 1] = row
    BY <1>1, AppendProperties
  <1>3. DOMAIN allStatus' = 1..(n + 1)
    BY <1>2, LenProperties
  <1>4. IsFiniteSet(Installed) /\ Cardinality(Installed) \in Nat
    <2>1. Installed \subseteq 1..n /\ IsFiniteSet(1..n)
      BY <1>1, FS_Interval DEF Installed
    <2> QED  BY <2>1, FS_Subset, FS_CardinalityType
  <1>5. n + 1 \notin Installed /\ 1..(n + 1) = 1..n \cup {n + 1}
    BY <1>1 DEF Installed
  <1>6. Installed' = IF row.isInstalled THEN Installed \cup {n + 1} ELSE Installed
    BY <1>1, <1>2, <1>3, <1>5 DEF Installed
  <1> QED  BY <1>4, <1>5, <1>6, FS_AddElement

LEMMA AppendedRows ==
    ASSUME TypeOK, NEW row \in Row, allStatus' = Append(allStatus, row)
    PROVE  \A r \in DOMAIN allStatus' :
              \/ r \in DOMAIN allStatus /\ allStatus'[r] = allStatus[r]
              \/ allStatus'[r] = row
  <1>1. DOMAIN allStatus = 1..Len(allStatus) /\ Len(allStatus) \in Nat /\ allStatus \in Seq(Row)
    BY LenProperties DEF TypeOK
  <1>2. /\ allStatus' \in Seq(Row) /\ Len(allStatus') = Len(allStatus) + 1
        /\ \A r \in 1..Len(allStatus) : allStatus'[r] = allStatus[r]
        /\ allStatus'[Len(allStatus) + 1] = row
    BY <1>1, AppendProperties
  <1>3. DOMAIN allStatus' = 1..(Len(allStatus) + 1)
    BY <1>2, LenProperties
  <1> QED  BY <1>1, <1>2, <1>3

LEMMA InstalledIsNat == ASSUME TypeOK  PROVE Cardinality(Installed) \in Nat
  <1>1. DOMAIN allStatus = 1..Len(allStatus) /\ Len(allStatus) \in Nat
    BY LenProperties DEF TypeOK
  <1>2. Installed \subseteq 1..Len(allStatus) /\ IsFiniteSet(1..Len(allStatus))
    BY <1>1, FS_Interval DEF Installed
  <1> QED  BY <1>2, FS_Subset, FS_CardinalityType

\* The rows of a name when a row is appended.
LEMMA RowsOfAppended ==
    ASSUME TypeOK, NEW row \in Row, allStatus' = Append(allStatus, row), NEW name
    PROVE  RowsOf(name)' = IF row.name = name THEN RowsOf(name) \cup {Len(allStatus) + 1}
                           ELSE RowsOf(name)
  <1> DEFINE n == Len(allStatus)
  <1>1. DOMAIN allStatus = 1..n /\ n \in Nat /\ allStatus \in Seq(Row)
    BY LenProperties DEF TypeOK
  <1>2. /\ allStatus' \in Seq(Row) /\ Len(allStatus') = n + 1
        /\ \A r \in 1..n : allStatus'[r] = allStatus[r]
        /\ allStatus'[n + 1] = row
    BY <1>1, AppendProperties
  <1>3. DOMAIN allStatus' = 1..(n + 1)
    BY <1>2, LenProperties
  <1>4. n + 1 \notin 1..n /\ 1..(n + 1) = 1..n \cup {n + 1}
    BY <1>1
  <1> QED  BY <1>1, <1>2, <1>3, <1>4 DEF RowsOf

\* What is left after removeEntry is part of what was left before, and if the entry was
\* left and is the only one of its name, none of that name is.
LEMMA PartRemoved ==
    ASSUME TypeOK, Part, NEW entry, UNCHANGED entries,
           storedEntries' = RemoveEntry(storedEntries, entry)
    PROVE  /\ Part'
           /\ \A j \in DOMAIN storedEntries' :
                 \E k \in DOMAIN storedEntries : storedEntries'[j] = storedEntries[k]
           /\ \A l \in DOMAIN entries :
                 (/\ Named(entries, entry.name) = {l}
                  /\ \E m \in DOMAIN storedEntries : storedEntries[m].name = entry.name
                                                      /\ storedEntries[m].version = entry.version) =>
                    /\ Len(storedEntries') = Len(storedEntries) - 1
                    /\ \A j \in DOMAIN storedEntries' : storedEntries'[j].name # entry.name
  <1> DEFINE n == Len(storedEntries)
  <1>1. n \in Nat /\ DOMAIN storedEntries = 1..n /\ storedEntries \in Seq(Entry)
    BY Types DEF TypeOK
  <1>2. CASE ~\E m \in DOMAIN storedEntries : storedEntries[m].name = entry.name
                                               /\ storedEntries[m].version = entry.version
    <2>1. storedEntries' = storedEntries
      BY <1>2 DEF RemoveEntry
    <2> QED  BY <1>2, <2>1 DEF Part
  <1>3. CASE \E m \in DOMAIN storedEntries : storedEntries[m].name = entry.name
                                              /\ storedEntries[m].version = entry.version
    <2>1. PICK k \in DOMAIN storedEntries :
             /\ storedEntries[k].name = entry.name /\ storedEntries[k].version = entry.version
             /\ storedEntries' \in Seq(Entry) /\ Len(storedEntries') = n - 1
             /\ \A j \in 1..(n - 1) :
                   storedEntries'[j] = storedEntries[IF j < k THEN j ELSE j + 1]
      BY <1>1, <1>3, RemoveEntrySkips
    <2>2. DOMAIN storedEntries' = 1..(n - 1)
      BY <2>1, LenProperties
    <2> DEFINE at(j) == IF j < k THEN j ELSE j + 1
    <2>3. \A j \in 1..(n - 1) : at(j) \in 1..n /\ at(j) # k
      BY <1>1, <2>1
    <2>4. \A j, m \in 1..(n - 1) : at(j) = at(m) => j = m
      BY <1>1, <2>1
    <2>5. PICK f \in [DOMAIN storedEntries -> DOMAIN entries] :
             /\ \A j, m \in DOMAIN storedEntries : f[j] = f[m] => j = m
             /\ \A j \in DOMAIN storedEntries : storedEntries[j] = entries[f[j]]
      BY DEF Part
    <2>6. \A j \in 1..(n - 1) : storedEntries'[j] = storedEntries[at(j)]
      BY <2>1
    <2> HIDE DEF at
    <2>7. Part'
      <3> DEFINE g == [j \in 1..(n - 1) |-> f[at(j)]]
      <3>1. g \in [DOMAIN storedEntries' -> DOMAIN entries']
        BY <1>1, <2>2, <2>3, <2>5
      <3>2. \A j, m \in 1..(n - 1) : g[j] = g[m] => j = m
        BY <1>1, <2>3, <2>4, <2>5
      <3>3. \A j \in 1..(n - 1) : storedEntries'[j] = entries'[g[j]]
        BY <1>1, <2>3, <2>5, <2>6
      <3> HIDE DEF g
      <3> QED  BY <2>2, <3>1, <3>2, <3>3 DEF Part
    <2>8. ASSUME NEW l \in DOMAIN entries, Named(entries, entry.name) = {l}
          PROVE  \A j \in DOMAIN storedEntries' : storedEntries'[j].name # entry.name
      <3>1. \A m \in DOMAIN storedEntries : storedEntries[m].name = entry.name => f[m] = l
        BY <2>5, <2>8 DEF Named
      <3>2. \A m \in DOMAIN storedEntries : storedEntries[m].name = entry.name => m = k
        BY <2>1, <2>5, <3>1
      <3> QED  BY <1>1, <2>2, <2>3, <2>6, <3>2
    <2> QED  BY <1>1, <2>1, <2>2, <2>3, <2>6, <2>7, <2>8
  <1> QED  BY <1>2, <1>3

LEMMA OnceInitially == Init => ListedOnce
  <1> SUFFICES ASSUME Init  PROVE ListedOnce
    OBVIOUS
  <1>1. TypeOK
    BY Initially DEF IInv
  <1>2. Part
    <2> DEFINE f == [j \in DOMAIN storedEntries |-> j]
    <2>1. /\ f \in [DOMAIN storedEntries -> DOMAIN entries]
          /\ \A j, k \in DOMAIN storedEntries : f[j] = f[k] => j = k
          /\ \A j \in DOMAIN storedEntries : storedEntries[j] = entries[f[j]]
      BY DEF Init
    <2> QED  BY <2>1 DEF Part
  <1>3. DOMAIN allStatus = {}
    BY DEF Init
  <1>4. RowsArePassed /\ OneRowEach
    <2>1. \A k \in DOMAIN toolOpts : ~(k < i)
      BY <1>1, Types DEF Init
    <2> QED  BY <1>3, <2>1 DEF Init, RowsArePassed, OneRowEach
  <1>5. CountedOnce
    <2>1. Installed = {}
      BY <1>3 DEF Installed
    <2>2. Cardinality(Installed) = 0
      BY <2>1, FS_EmptySet
    <2>3. Pending = Len(entries) /\ Len(entries) \in Nat
      BY <1>1, Types DEF Init, Pending
    <2> QED  BY <2>2, <2>3 DEF CountedOnce
  <1> QED  BY <1>2, <1>4, <1>5 DEF Init, ListedOnce

LEMMA OnceGetStatus == ASSUME IInv, ListedOnce, GetStatus  PROVE ListedOnce'
  <1>a. TypeOK /\ i \in 1..Len(toolOpts) /\ i \in Nat /\ toolOpts[i] \in Tool
    BY Types DEF IInv, GetStatus, TypeOK, Stages
  <1>b. PICK name \in Tool : name = toolOpts[i]
    BY <1>a
  <1> DEFINE mine == Named(entries, name)
  <1>0. /\ cmd = "list" /\ stage = "configured" /\ i \in 1..Len(toolOpts) /\ i \in Nat
        /\ UNCHANGED <<cmd, toolOpts, entries, bin, stage, tampers>> /\ i' = i + 1
        /\ TypeOK /\ name = toolOpts[i]
    BY <1>a, <1>b DEF IInv, GetStatus, input
  <1>1. CASE failedTools' = failedTools \cup {name} /\ UNCHANGED <<storedEntries, allStatus, resolved>>
    <2>1. ~Clean'
      BY <1>1 DEF Clean
    <2> QED  BY <1>0, <1>1, <2>1 DEF ListedOnce, Part
  <1>2. CASE /\ Cardinality(mine) <= 1
             /\ \E version \in Version :
                   /\ resolved' = [resolved EXCEPT ![name] = version]
                   /\ allStatus' = Append(allStatus, ConfiguredRow(name, version, mine))
             /\ \/ mine = {} /\ UNCHANGED storedEntries
                \/ \E k \in mine : storedEntries' = RemoveEntry(storedEntries, entries[k])
             /\ UNCHANGED failedTools
    <2>1. PICK version \in Version : allStatus' = Append(allStatus, ConfiguredRow(name, version, mine))
      BY <1>2
    <2>2. PICK row \in Row : row = ConfiguredRow(name, version, mine)
      BY <1>0, <1>2, ConfiguredRowIsRow
    <2>3. /\ row.name = name /\ row.isInstalled = (mine # {})
          /\ allStatus' = Append(allStatus, row)
      BY <2>1, <2>2 DEF ConfiguredRow
    <2>4. Part'
      BY <1>0, <1>2, PartRemoved DEF ListedOnce, Part
    <2>5. ASSUME Clean'  PROVE RowsArePassed' /\ OneRowEach' /\ CountedOnce'
      <3>1. Clean /\ RowsArePassed /\ OneRowEach /\ CountedOnce
        <4>1. \A r \in DOMAIN allStatus : r \in DOMAIN allStatus' /\ allStatus'[r] = allStatus[r]
          BY <1>0, <2>3, RowAppended
        <4> QED  BY <1>0, <1>2, <2>5, <4>1 DEF Clean, ListedOnce
      <3>2. \A k \in DOMAIN toolOpts : k # i => toolOpts[k] # name
        BY <1>0, <3>1, Types DEF Clean
      <3>3. RowsOf(name) = {}
        <4>1. \A r \in DOMAIN allStatus : allStatus[r].name # name
          BY <1>0, <3>1, <3>2 DEF RowsArePassed
        <4> QED  BY <4>1 DEF RowsOf
      <3>4. RowsArePassed'
        <4>1. \A r \in DOMAIN allStatus' :
                 \/ r \in DOMAIN allStatus /\ allStatus'[r] = allStatus[r]
                 \/ allStatus'[r] = row
          BY <1>0, <2>3, AppendedRows
        <4>2. \A k \in DOMAIN toolOpts : k < i => k < i + 1
          BY <1>0, Types
        <4>3. i \in DOMAIN toolOpts /\ i < i + 1
          BY <1>0, Types
        <4> QED  BY <1>0, <2>3, <3>1, <4>1, <4>2, <4>3 DEF RowsArePassed
      <3>5. /\ \A j \in DOMAIN storedEntries' : storedEntries'[j].name # name
            /\ \A j \in DOMAIN storedEntries' :
                  \E k \in DOMAIN storedEntries : storedEntries'[j] = storedEntries[k]
            /\ Len(storedEntries') = IF mine = {} THEN Len(storedEntries) ELSE Len(storedEntries) - 1
        <4>1. CASE mine = {} /\ UNCHANGED storedEntries
          BY <1>0, <4>1 DEF ListedOnce, Part, Named
        <4>2. ASSUME NEW l \in mine, storedEntries' = RemoveEntry(storedEntries, entries[l])
              PROVE  /\ \A j \in DOMAIN storedEntries' : storedEntries'[j].name # name
                     /\ \A j \in DOMAIN storedEntries' :
                           \E k \in DOMAIN storedEntries : storedEntries'[j] = storedEntries[k]
                     /\ Len(storedEntries') = Len(storedEntries) - 1
          <5>1. l \in DOMAIN entries /\ entries[l].name = name
            BY DEF Named
          <5>2. mine = {l}
            <6>1. mine \subseteq 1..Len(entries) /\ IsFiniteSet(1..Len(entries))
              BY <1>0, Types, FS_Interval DEF Named
            <6> QED  BY <1>2, <6>1, FS_Subset, AtMostOne
          <5>3. ~Shown(entries[l])
            BY <3>3, <5>1 DEF Shown, RowsOf
          <5>4. Left(entries[l])
            BY <1>0, <3>1, <5>1, <5>3 DEF IInv, EntriesListed, Clean
          <5>5. \E m \in DOMAIN storedEntries : storedEntries[m].name = entries[l].name
                                                 /\ storedEntries[m].version = entries[l].version
            BY <5>4 DEF Left
          <5> QED  BY <1>0, <4>2, <5>1, <5>2, <5>5, PartRemoved DEF ListedOnce
        <4> QED  BY <1>2, <4>1, <4>2
      <3>6. OneRowEach'
        <4>1. \A n : n # name => RowsOf(n)' = RowsOf(n)
          BY <1>0, <2>3, RowsOfAppended
        <4>2. RowsOf(name)' = {Len(allStatus) + 1} /\ Len(allStatus) + 1 \in DOMAIN allStatus'
          <5>1. RowsOf(name)' = RowsOf(name) \cup {Len(allStatus) + 1}
            BY <1>0, <2>3, RowsOfAppended
          <5> QED  BY <3>3, <5>1 DEF RowsOf
        <4>3. \A r \in DOMAIN allStatus : r \in DOMAIN allStatus'
          BY <1>0, <2>3, RowAppended
        <4>4. OneRow(name)'
          BY <3>5, <4>2 DEF OneRow
        <4>5. ASSUME NEW k \in DOMAIN toolOpts, k < i + 1, NEW n, n = toolOpts[k]
              PROVE  OneRow(n)'
          <5>1. CASE k = i
            BY <1>0, <4>4, <4>5, <5>1
          <5>2. CASE k # i
            <6>1. k < i /\ n # name
              BY <1>0, <3>2, <4>5, <5>2, Types
            <6>2. OneRow(n)
              BY <1>0, <3>1, <4>5, <6>1 DEF OneRowEach
            <6> QED  BY <3>5, <4>1, <4>3, <6>1, <6>2 DEF OneRow
          <5> QED  BY <5>1, <5>2
        <4> QED  BY <1>0, <4>5 DEF OneRowEach, OneRow, RowsOf
      <3>7. CountedOnce'
        <4>1. Cardinality(Installed)' =
                 IF mine = {} THEN Cardinality(Installed) ELSE Cardinality(Installed) + 1
          BY <1>0, <2>3, InstalledAppended
        <4>2. Cardinality(Installed) \in Int /\ Len(storedEntries) \in Int
          BY <1>0, InstalledIsNat, Types
        <4>3. Cardinality(Installed) + Len(storedEntries) = Len(entries)
          BY <1>0, <3>1 DEF CountedOnce, Pending
        <4>4. Pending' = Len(storedEntries') /\ Len(entries') = Len(entries)
          BY <1>0 DEF Pending
        <4> QED  BY <3>5, <4>1, <4>2, <4>3, <4>4 DEF CountedOnce
      <3> QED  BY <3>4, <3>6, <3>7
    <2> QED  BY <1>0, <2>4, <2>5 DEF ListedOnce
  <1> QED  BY <1>b, <1>1, <1>2 DEF GetStatus

LEMMA OnceListStored == ASSUME IInv, ListedOnce, ListStored  PROVE ListedOnce'
  <1>0. /\ cmd = "list" /\ stage = "stored" /\ i \in DOMAIN storedEntries /\ i \in Nat
        /\ UNCHANGED <<cmd, toolOpts, entries, bin, stage, storedEntries, resolved, tampers>>
        /\ i' = i + 1 /\ TypeOK
    BY Types DEF IInv, ListStored, input, TypeOK, Stages
  <1>1. PICK entry \in Entry : entry = storedEntries[i]
    BY <1>0, Types
  <1>2. Part' /\ i' <= Len(storedEntries') + 1
    BY <1>0, Types DEF ListedOnce, Part
  <1>3. CASE failedTools' = failedTools \cup {entry.name} /\ UNCHANGED allStatus
    <2>1. ~Clean'
      BY <1>3 DEF Clean
    <2> QED  BY <1>2, <2>1 DEF ListedOnce
  <1>4. CASE ~(failedTools' = failedTools \cup {entry.name} /\ UNCHANGED allStatus)
    <2> DEFINE row == [name |-> entry.name, configured |-> FALSE, resolved |-> None,
                       installed |-> entry.version, isInstalled |-> TRUE,
                       hashIsValid |-> Verify(entry, bin), error |-> FALSE]
    <2>1. row \in Row /\ row.name = entry.name /\ row.isInstalled
      BY DEF Row, Entry, Verify
    <2>2. allStatus' = Append(allStatus, row) /\ UNCHANGED failedTools
      BY <1>1, <1>4 DEF ListStored
    <2> HIDE DEF row
    <2>3. ASSUME Clean'  PROVE OneRowEach' /\ CountedOnce'
      <3>1. Clean /\ OneRowEach /\ CountedOnce
        <4>1. \A r \in DOMAIN allStatus : r \in DOMAIN allStatus' /\ allStatus'[r] = allStatus[r]
          BY <1>0, <2>1, <2>2, RowAppended
        <4> QED  BY <1>0, <2>2, <2>3, <4>1 DEF Clean, ListedOnce
      <3>2. ASSUME NEW k \in DOMAIN toolOpts, NEW n, n = toolOpts[k]
            PROVE  OneRow(n)'
        <4>1. OneRow(n)
          BY <1>0, <3>1, <3>2 DEF OneRowEach
        <4>2. row.name # n
          BY <1>0, <1>1, <2>1, <4>1 DEF OneRow
        <4>3. RowsOf(n)' = RowsOf(n)
          BY <1>0, <2>1, <2>2, <4>2, RowsOfAppended
        <4> QED  BY <1>0, <4>1, <4>3 DEF OneRow, RowsOf
      <3>3. Cardinality(Installed)' = Cardinality(Installed) + 1
        BY <1>0, <2>1, <2>2, InstalledAppended
      <3>4. Cardinality(Installed) \in Int /\ Len(storedEntries) \in Int
        BY <1>0, InstalledIsNat, Types
      <3>5. Cardinality(Installed) + (Len(storedEntries) - (i - 1)) = Len(entries)
        BY <1>0, <3>1 DEF CountedOnce, Pending
      <3>6. Pending' = Len(storedEntries) - ((i + 1) - 1) /\ Len(entries') = Len(entries)
        BY <1>0 DEF Pending
      <3>7. CountedOnce'
        <4>1. (Cardinality(Installed) + 1) + (Len(storedEntries) - ((i + 1) - 1)) = Len(entries)
          BY <1>0, <3>4, <3>5
        <4> QED  BY <3>3, <3>6, <4>1 DEF CountedOnce
      <3> QED  BY <1>0, <3>2, <3>7 DEF OneRowEach, OneRow, RowsOf
    <2> QED  BY <1>0, <1>2, <2>3 DEF ListedOnce, RowsArePassed
  <1> QED  BY <1>3, <1>4

LEMMA OnceOtherSteps ==
    ASSUME IInv, ListedOnce,
           ConfiguredDone \/ StoredDone \/ ListFailed \/ FailedDone \/ CheckTool \/ CheckDone
             \/ Tamper
    PROVE  ListedOnce'
  <1>0. TypeOK /\ i \in Nat /\ Len(storedEntries) \in Nat
    BY Types DEF IInv, TypeOK
  <1>1. CASE ConfiguredDone
    <2>0. /\ stage = "configured" /\ stage' = "stored" /\ i > Len(toolOpts) /\ i' = 1
          /\ UNCHANGED <<cmd, toolOpts, entries, storedEntries, failedTools, allStatus>>
      BY <1>1 DEF ConfiguredDone, input
    <2>1. \A k \in DOMAIN toolOpts : k < i
      BY <1>0, <2>0, Types
    <2>2. Pending' = Pending
      BY <1>0, <2>0 DEF Pending
    <2> QED  BY <1>0, <2>0, <2>1, <2>2 DEF ListedOnce, Part, Clean, RowsArePassed, OneRowEach,
                OneRow, RowsOf, CountedOnce, Installed
  <1>2. CASE StoredDone
    <2>0. /\ stage = "stored" /\ stage' = "failed" /\ i > Len(storedEntries)
          /\ UNCHANGED <<cmd, toolOpts, entries, i, storedEntries, failedTools, allStatus>>
      BY <1>2 DEF StoredDone, input
    <2>1. i = Len(storedEntries) + 1
      BY <1>0, <2>0 DEF ListedOnce
    <2>2. Pending' = Pending
      BY <1>0, <2>0, <2>1 DEF Pending
    <2> QED  BY <1>0, <2>0, <2>2 DEF ListedOnce, Part, Clean, RowsArePassed, OneRowEach,
                OneRow, RowsOf, CountedOnce, Installed
  <1>3. CASE ListFailed
    <2>1. stage' = "failed" /\ UNCHANGED <<entries, storedEntries>> /\ failedTools # {}
      BY <1>3 DEF ListFailed, input
    <2>2. ~Clean'
      <3>1. PICK name \in failedTools : allStatus' = Append(allStatus,
                  [name |-> name, configured |-> \E k \in DOMAIN toolOpts : toolOpts[k] = name,
                   resolved |-> None, installed |-> None, isInstalled |-> FALSE,
                   hashIsValid |-> FALSE, error |-> TRUE])
        BY <1>3 DEF ListFailed
      <3> DEFINE row == [name |-> name, configured |-> \E k \in DOMAIN toolOpts : toolOpts[k] = name,
                         resolved |-> None, installed |-> None, isInstalled |-> FALSE,
                         hashIsValid |-> FALSE, error |-> TRUE]
      <3>2. row \in Row /\ row.error
        BY <1>0 DEF Row, TypeOK
      <3>3. allStatus' = Append(allStatus, row)
        BY <3>1
      <3> HIDE DEF row
      <3>4. \E r \in DOMAIN allStatus' : allStatus'[r] = row
        BY <1>0, <3>2, <3>3, RowAppended
      <3> QED  BY <3>2, <3>4 DEF Clean
    <2> QED  BY <2>1, <2>2 DEF ListedOnce, Part
  <1>4. CASE FailedDone
    <2>0. /\ stage = "failed" /\ stage' = "listed"
          /\ UNCHANGED <<cmd, toolOpts, entries, i, storedEntries, failedTools, allStatus>>
      BY <1>4 DEF FailedDone, input
    <2> QED  BY <2>0 DEF ListedOnce, Part, Clean, RowsArePassed, OneRowEach,
                OneRow, RowsOf, CountedOnce, Installed, Pending
  <1>5. CASE CheckTool \/ CheckDone
    <2>1. cmd = "check" /\ cmd' = "check" /\ UNCHANGED <<entries, storedEntries>>
          /\ stage' # "stored"
      BY <1>5 DEF CheckTool, CheckDone, input
    <2> QED  BY <2>1 DEF ListedOnce, Part, Clean
  <1>6. CASE Tamper
    <2>1. UNCHANGED <<cmd, toolOpts, entries, stage, i, storedEntries, failedTools, allStatus>>
      BY <1>6 DEF Tamper, input
    <2> QED  BY <2>1 DEF ListedOnce, Part, Clean, RowsArePassed, OneRowEach, OneRow, RowsOf,
                CountedOnce, Installed, Pending
  <1> QED  BY <1>1, <1>2, <1>3, <1>4, <1>5, <1>6

\* Without a failure `binny list` shows each entry of any store exactly once, and each tool
\* that is configured once in exactly one row (getAllStatuses, removeEntry).
THEOREM EachListedOnce == Spec => []EachIsListedOnce
  <1>1. IInv /\ ListedOnce /\ [Next]_vars => ListedOnce'
    <2> SUFFICES ASSUME IInv, ListedOnce, [Next]_vars  PROVE ListedOnce'
      OBVIOUS
    <2>1. CASE Next
      BY <2>1, OnceGetStatus, OnceListStored, OnceOtherSteps DEF Next
    <2>2. CASE UNCHANGED vars
      BY <2>2 DEF vars, input, ListedOnce, Part, Clean, RowsArePassed, OneRowEach, OneRow, RowsOf,
         CountedOnce, Installed, Pending
    <2> QED  BY <2>1, <2>2
  <1>2. IInv /\ ListedOnce => EachIsListedOnce
    <2> SUFFICES ASSUME IInv, ListedOnce, stage = "listed",
                        \A k \in DOMAIN allStatus : ~allStatus[k].error,
                        \A k, l \in DOMAIN toolOpts : toolOpts[k] = toolOpts[l] => k = l
                 PROVE  /\ \A name \in Configured : Cardinality(RowsOf(name)) = 1
                        /\ Cardinality(Installed) = Len(entries)
      BY DEF EachIsListedOnce, Installed
    <2>1. Clean
      BY DEF Clean, IInv, TypeOK, Stages
    <2>2. \A name \in Configured : Cardinality(RowsOf(name)) = 1
      <3> SUFFICES ASSUME NEW name \in Configured  PROVE Cardinality(RowsOf(name)) = 1
        OBVIOUS
      <3>1. PICK r \in DOMAIN allStatus : RowsOf(name) = {r}
        BY <2>1 DEF ListedOnce, OneRowEach, OneRow, Configured
      <3> QED  BY <3>1, FS_Singleton
    <2>3. Cardinality(Installed) = Len(entries)
      <3>1. Cardinality(Installed) + 0 = Len(entries)
        BY <2>1 DEF ListedOnce, CountedOnce, Pending
      <3> QED  BY <3>1, InstalledIsNat DEF IInv
    <2> QED  BY <2>2, <2>3
  <1> QED  BY Invariance, OnceInitially, <1>1, <1>2, PTL DEF Spec
=============================================================================
