---------------------------- MODULE GuestSetup_proofs ----------------------------
(* Proofs about what the guest is set up from, one part for each of the three modules:
   the memory map, the memory types, the VMX capabilities. *)
EXTENDS MemoryMap, Mtrr, VmxControls, TLAPS, SequenceTheorems

(* I. The memory map, for any firmware map, any memory and any number of programs: what
   the guest is told of every byte, what the EPT maps, and what each program is given.
   The loops copy the firmware's map entry by entry (Copied), PatchMemoryMap splits
   one entry exactly (SplitIsExact, TypesOfSplit) and leaves what lies around it
   (TypesAround); from then on the list does not change. *)
AnyArea == [base : Nat, length : Nat, type : {UsableRAM, Reserved}]

\* How many of the entries that an entry was split into cover a.
CoveredBy(entries, a) == {i \in DOMAIN entries : Covers(entries[i], a)}

\* The three cases of PatchMemoryMap are exact: each byte of the entry is in one
\* of the entries it becomes and in no second one, a reserved one if and only if
\* it lies in the cut; no byte outside of the entry is in any of them.
THEOREM SplitIsExact ==
    ASSUME NEW e \in AnyArea, NEW cut \in AnyArea, NEW a \in Nat,
           e.type = UsableRAM, cut.type = Reserved,
           e.base <= cut.base, End(cut) <= End(e)
    PROVE  /\ Covers(e, a) => \E i \in DOMAIN Split(e, cut) :
                /\ CoveredBy(Split(e, cut), a) = {i}
                /\ Split(e, cut)[i].type = IF Covers(cut, a) THEN Reserved ELSE UsableRAM
           /\ ~Covers(e, a) => CoveredBy(Split(e, cut), a) = {}
<1> USE DEF AnyArea, Covers, End, CoveredBy, UsableRAM, Reserved
<1>1. CASE e.base = cut.base
  <2> DEFINE rest == CutFront(e, cut)
  <2>1. Split(e, cut) = <<rest, cut>>
    BY <1>1 DEF Split
  <2>2. rest.base = End(cut) /\ End(rest) = End(e) /\ rest.type = UsableRAM
    BY <1>1 DEF CutFront
  <2> HIDE DEF rest
  <2>3. QED
    BY <1>1, <2>1, <2>2
<1>2. CASE e.base # cut.base /\ End(e) = End(cut)
  <2> DEFINE rest == CutEnd(e, cut)
  <2>1. Split(e, cut) = <<cut, rest>>
    BY <1>2 DEF Split
  <2>2. rest.base = e.base /\ End(rest) = cut.base /\ rest.type = UsableRAM
    BY <1>2 DEF CutEnd
  <2> HIDE DEF rest
  <2>3. QED
    BY <1>2, <2>1, <2>2
<1>3. CASE e.base # cut.base /\ End(e) # End(cut)
  <2> DEFINE front == KeptFront(e, cut)
             back  == KeptBack(e, cut)
  <2>1. Split(e, cut) = <<front, cut, back>>
    BY <1>3 DEF Split
  <2>2. front.base = e.base /\ End(front) = cut.base /\ front.type = UsableRAM
    BY <1>3 DEF KeptFront
  <2>3. back.base = End(cut) /\ End(back) = End(e) /\ back.type = UsableRAM
    BY <1>3 DEF KeptBack
  <2> HIDE DEF front, back
  <2>4. QED
    BY <1>3, <2>1, <2>2, <2>3
<1>4. QED
  BY <1>1, <1>2, <1>3

-------------------------------------------------------------------------------
(* The invariant of the boot. *)
Measured == {"normalize", "patch", "mapLow", "mapHigh", "guest"}
Patched  == {"mapLow", "mapHigh", "guest"}

MapTypes ==
    /\ phase \in {"retrieve", "determine", "halted"} \union Measured
    /\ firmwareMap \in Seq(FirmwareEntry)
    /\ MemoryMap \in Seq(AnyArea)
    /\ entryIndex \in Nat \ {0}
    /\ AvailableSystemMemory \in Nat /\ HighestAvailablePhysicalAddress \in Nat

\* The valid entries of the firmware lie beside each other.
FirmwareIsSane ==
    \A i, j \in DOMAIN firmwareMap :
        i # j /\ firmwareMap[i].valid /\ firmwareMap[j].valid =>
            Disjoint(firmwareMap[i].area, firmwareMap[j].area)

\* No entry that the loop has passed ends above the highest address.
HighestIsHighest ==
    /\ phase = "retrieve" => entryIndex = 1
    /\ \A i \in DOMAIN firmwareMap :
          (phase \in Measured \/ (phase = "determine" /\ i < entryIndex)) =>
              End(firmwareMap[i].area) <= HighestAvailablePhysicalAddress

\* The list holds the first n - 1 entries of the firmware, those that are valid.
Copied(n) ==
    /\ \A k \in DOMAIN MemoryMap : \E i \in DOMAIN firmwareMap :
          i < n /\ firmwareMap[i].valid /\ firmwareMap[i].area = MemoryMap[k]
    /\ \A i \in DOMAIN firmwareMap :
          i < n /\ firmwareMap[i].valid =>
              \E k \in DOMAIN MemoryMap : firmwareMap[i].area = MemoryMap[k]
    /\ \A k, l \in DOMAIN MemoryMap : k # l => Disjoint(MemoryMap[k], MemoryMap[l])

\* What the guest will be told of one byte.
ToldTheTruth(a) ==
    IF Covers(HvArea, a)
    THEN TypesIn(MemoryMap, a) = {Reserved} /\ FirmwareTypes(a) = {UsableRAM}
    ELSE TypesIn(MemoryMap, a) = FirmwareTypes(a)

ListIsRight ==
    /\ phase \in {"retrieve", "determine"} => MemoryMap = <<>>
    /\ phase = "normalize" => Copied(entryIndex)
    /\ phase = "patch" => Copied(Len(firmwareMap) + 1)
    /\ phase \in Patched => MemoryMap # <<>> /\ \A a \in Addresses : ToldTheTruth(a)

EptIsRight ==
    /\ phase \in {"retrieve", "determine", "normalize", "patch", "mapLow"} => eptPages = {}
    /\ phase = "mapHigh" => eptPages = 0..(KernelBase - 1)
    /\ phase = "guest" =>
          eptPages = 0..(KernelBase - 1) \union
                     HighBase..(HighBase + HighestAvailablePhysicalAddress - 1)

MapInv == MapTypes /\ FirmwareIsSane /\ HighestIsHighest /\ ListIsRight /\ EptIsRight

(* The invariant of the calls. *)
NobodyAsked ==
    /\ lastContinuation = 0 /\ currentEntry = 0
    /\ walk = [p \in Programs |-> <<>>] /\ done = {}

PlaceIsRight ==
    /\ lastContinuation \in Nat
    /\ currentEntry \in Nat
    /\ lastContinuation # 0 =>
          currentEntry = lastContinuation + 1 /\ currentEntry <= Len(MemoryMap)

WalkIsRight(p) ==
    /\ walk[p] \in Seq(AnyArea)
    /\ Len(walk[p]) <= Len(MemoryMap)
    /\ walk[p] = SubSeq(MemoryMap, 1, Len(walk[p]))
    /\ p \in done => walk[p] = MemoryMap

WalkInv ==
    /\ walk \in [Programs -> Seq(AnyArea)]
    /\ phase # "guest" => NobodyAsked
    /\ phase = "guest" => PlaceIsRight /\ \A p \in Programs : WalkIsRight(p)

-------------------------------------------------------------------------------
(* Lemmas about areas and lists of them. *)
LEMMA MapConstants ==
    /\ HighestAddress \in Nat \ {0} /\ KernelBase \in Nat \ {0}
    /\ FixedLength \in Nat \ {0} /\ HeapDivisor \in Nat \ {0} /\ MaxEntries \in Nat \ {0}
BY MemoryMapAssumption

LEMMA FirmwareAreas ==
    ASSUME NEW f \in FirmwareEntry
    PROVE  /\ f.area \in AnyArea /\ f.valid \in BOOLEAN
           /\ End(f.area) \in Nat /\ End(f.area) <= HighestAddress
BY MapConstants DEF FirmwareEntry, Area, AnyArea, End

LEMMA QuotientIsNat == \A x \in Nat, d \in Nat \ {0} : x \div d \in Nat
OBVIOUS

\* What is taken out of the memory, whatever the memory is.
LEMMA HvAreaIsArea ==
    ASSUME AvailableSystemMemory \in Nat
    PROVE  /\ HvArea \in AnyArea /\ TotalLength \in Nat
           /\ HvArea.base = KernelBase /\ End(HvArea) = HighBase
           /\ HvArea.type = Reserved
<1>1. AvailableSystemMemory + HeapDivisor - 1 \in Nat
  BY MapConstants
<1>2. TotalLength \in Nat
  BY <1>1, QuotientIsNat, MapConstants DEF TotalLength
<1>3. QED
  BY <1>2, MapConstants DEF HvArea, AnyArea, End, HighBase

LEMMA TypesInMeaning ==
    ASSUME NEW s \in Seq(AnyArea), NEW a, NEW t
    PROVE  t \in TypesIn(s, a) <=>
               \E i \in 1..Len(s) : Covers(s[i], a) /\ s[i].type = t
BY DEF TypesIn

LEMMA TypesOfConcat ==
    ASSUME NEW s \in Seq(AnyArea), NEW r \in Seq(AnyArea), NEW a
    PROVE  TypesIn(s \o r, a) = TypesIn(s, a) \union TypesIn(r, a)
<1> DEFINE both == s \o r
<1>1. /\ both \in Seq(AnyArea) /\ Len(both) = Len(s) + Len(r)
      /\ Len(s) \in Nat /\ Len(r) \in Nat
      /\ \A i \in 1..Len(both) : both[i] = IF i <= Len(s) THEN s[i] ELSE r[i - Len(s)]
  BY ConcatProperties, LenProperties
<1> HIDE DEF both
<1>2. ASSUME NEW t PROVE t \in TypesIn(both, a) <=> t \in TypesIn(s, a) \union TypesIn(r, a)
  <2>1. ASSUME NEW i \in 1..Len(both), Covers(both[i], a), both[i].type = t
        PROVE  t \in TypesIn(s, a) \union TypesIn(r, a)
    <3>1. CASE i <= Len(s)
      BY <2>1, <3>1, <1>1, TypesInMeaning
    <3>2. CASE i > Len(s)
      <4>1. i - Len(s) \in 1..Len(r) /\ both[i] = r[i - Len(s)]
        BY <3>2, <1>1
      <4>2. QED
        BY <2>1, <4>1, TypesInMeaning
    <3>3. QED
      BY <3>1, <3>2, <1>1
  <2>2. ASSUME NEW i \in 1..Len(s), Covers(s[i], a), s[i].type = t
        PROVE  t \in TypesIn(both, a)
    <3>1. i \in 1..Len(both) /\ both[i] = s[i]
      BY <1>1
    <3>2. QED
      BY <2>2, <3>1, <1>1, TypesInMeaning
  <2>3. ASSUME NEW i \in 1..Len(r), Covers(r[i], a), r[i].type = t
        PROVE  t \in TypesIn(both, a)
    <3> DEFINE k == Len(s) + i
    <3>1. k \in 1..Len(both) /\ ~(k <= Len(s)) /\ k - Len(s) = i
      BY <1>1
    <3>2. both[k] = r[k - Len(s)]
      BY <3>1, <1>1
    <3>3. QED
      BY <2>3, <3>1, <3>2, <1>1, TypesInMeaning
  <2>4. QED
    BY <2>1, <2>2, <2>3, <1>1, TypesInMeaning
<1>3. QED
  BY <1>2 DEF both

\* The entry at i, and what lies before and behind it.
LEMMA TypesAround ==
    ASSUME NEW s \in Seq(AnyArea), NEW i \in 1..Len(s), NEW a
    PROVE  /\ SubSeq(s, 1, i - 1) \in Seq(AnyArea)
           /\ SubSeq(s, i + 1, Len(s)) \in Seq(AnyArea)
           /\ \A t : t \in TypesIn(s, a) <=>
                 \/ t \in TypesIn(SubSeq(s, 1, i - 1), a)
                 \/ Covers(s[i], a) /\ s[i].type = t
                 \/ t \in TypesIn(SubSeq(s, i + 1, Len(s)), a)
           /\ (\A j \in 1..Len(s) : j # i => ~Covers(s[j], a)) =>
                 /\ TypesIn(SubSeq(s, 1, i - 1), a) = {}
                 /\ TypesIn(SubSeq(s, i + 1, Len(s)), a) = {}
<1> DEFINE front == SubSeq(s, 1, i - 1)
           back  == SubSeq(s, i + 1, Len(s))
<1>1. /\ Len(s) \in Nat /\ i \in Nat /\ front \in Seq(AnyArea) /\ Len(front) = i - 1
      /\ \A j \in 1..(i - 1) : front[j] = s[j]
  <2>1. Len(s) \in Nat /\ i \in Nat /\ \A j \in 1..(i - 1) : s[j] \in AnyArea
    BY ElementOfSeq, LenProperties
  <2>2. QED
    BY <2>1, SubSeqProperties
<1>2. /\ back \in Seq(AnyArea) /\ Len(back) = Len(s) - i
      /\ \A j \in 1..(Len(s) - i) : back[j] = s[i + j]
  <2>1. \A j \in (i + 1)..Len(s) : s[j] \in AnyArea
    BY ElementOfSeq, <1>1
  <2>2. \A j \in 1..(Len(s) - i) : (i + 1) + j - 1 = i + j
    BY <1>1
  <2>3. QED
    BY <1>1, <2>1, <2>2, SubSeqProperties
<1> HIDE DEF front, back
<1>3. \A t : t \in TypesIn(front, a) <=>
          \E j \in 1..Len(s) : j < i /\ Covers(s[j], a) /\ s[j].type = t
  <2>1. \A j : j \in 1..Len(front) <=> j \in 1..Len(s) /\ j < i
    BY <1>1
  <2>2. QED
    BY <1>1, <2>1, TypesInMeaning
<1>4. \A t : t \in TypesIn(back, a) <=>
          \E j \in 1..Len(s) : j > i /\ Covers(s[j], a) /\ s[j].type = t
  <2>1. ASSUME NEW t, NEW j \in 1..Len(s), j > i, Covers(s[j], a), s[j].type = t
        PROVE  t \in TypesIn(back, a)
    <3>1. j - i \in 1..Len(back) /\ back[j - i] = s[j]
      BY <1>1, <1>2, <2>1
    <3>2. QED
      BY <2>1, <3>1, <1>2, TypesInMeaning
  <2>2. ASSUME NEW t, t \in TypesIn(back, a)
        PROVE  \E j \in 1..Len(s) : j > i /\ Covers(s[j], a) /\ s[j].type = t
    <3>1. PICK j \in 1..Len(back) : Covers(back[j], a) /\ back[j].type = t
      BY <2>2, <1>2, TypesInMeaning
    <3>2. i + j \in 1..Len(s) /\ i + j > i /\ back[j] = s[i + j]
      BY <1>1, <1>2
    <3>3. QED
      BY <3>1, <3>2
  <2>3. QED
    BY <2>1, <2>2
<1>5. \A t : t \in TypesIn(s, a) <=>
          \/ t \in TypesIn(front, a)
          \/ Covers(s[i], a) /\ s[i].type = t
          \/ t \in TypesIn(back, a)
  <2>1. \A j \in 1..Len(s) : j < i \/ j = i \/ j > i
    BY <1>1
  <2>2. QED
    BY <1>3, <1>4, <2>1, TypesInMeaning
<1>6. (\A j \in 1..Len(s) : j # i => ~Covers(s[j], a)) =>
          TypesIn(front, a) = {} /\ TypesIn(back, a) = {}
  <2>1. \A j \in 1..Len(s) : j < i \/ j > i => j # i
    BY <1>1
  <2>2. QED
    BY <1>3, <1>4, <2>1
<1>7. QED
  BY <1>1, <1>2, <1>5, <1>6 DEF front, back

\* What an entry is split into, byte by byte.
LEMMA TypesOfSplit ==
    ASSUME NEW e \in AnyArea, NEW cut \in AnyArea,
           e.type = UsableRAM, cut.type = Reserved,
           e.base <= cut.base, End(cut) <= End(e)
    PROVE  /\ Split(e, cut) \in Seq(AnyArea) /\ Split(e, cut) # <<>>
           /\ \A a \in Nat :
                TypesIn(Split(e, cut), a) =
                    IF ~Covers(e, a) THEN {}
                    ELSE IF Covers(cut, a) THEN {Reserved} ELSE {UsableRAM}
<1>1. Split(e, cut) \in Seq(AnyArea) /\ Split(e, cut) # <<>>
  <2>1. /\ e.base + cut.length \in Nat /\ e.length - cut.length \in Nat
        /\ cut.base - e.base \in Nat /\ End(cut) \in Nat /\ End(e) - End(cut) \in Nat
    BY DEF AnyArea, End
  <2>2. CutFront(e, cut) \in AnyArea
    BY <2>1 DEF CutFront, AnyArea
  <2>3. CutEnd(e, cut) \in AnyArea
    BY <2>1 DEF CutEnd, AnyArea
  <2>4. KeptFront(e, cut) \in AnyArea /\ KeptBack(e, cut) \in AnyArea
    <3>1. KeptFront(e, cut) \in AnyArea
      BY <2>1 DEF KeptFront, AnyArea
    <3>2. KeptBack(e, cut) \in AnyArea
      BY <2>1 DEF KeptBack, AnyArea
    <3>3. QED
      BY <3>1, <3>2
  <2> DEFINE f == CutFront(e, cut)
             g == CutEnd(e, cut)
             h == KeptFront(e, cut)
             k == KeptBack(e, cut)
  <2> HIDE DEF f, g, h, k
  <2>5. /\ <<f, cut>> \in Seq(AnyArea) /\ <<cut, g>> \in Seq(AnyArea)
        /\ <<h, cut, k>> \in Seq(AnyArea)
    BY <2>2, <2>3, <2>4 DEF f, g, h, k
  <2>6. QED
    BY <2>5 DEF Split, f, g, h, k
<1>2. ASSUME NEW a \in Nat
      PROVE  TypesIn(Split(e, cut), a) =
                 IF ~Covers(e, a) THEN {}
                 ELSE IF Covers(cut, a) THEN {Reserved} ELSE {UsableRAM}
  <2> DEFINE s == Split(e, cut)
  <2>1. TypesIn(s, a) = {s[i].type : i \in CoveredBy(s, a)}
    BY DEF TypesIn, CoveredBy
  <2>2. /\ Covers(e, a) => \E i \in DOMAIN s :
             /\ CoveredBy(s, a) = {i}
             /\ s[i].type = IF Covers(cut, a) THEN Reserved ELSE UsableRAM
        /\ ~Covers(e, a) => CoveredBy(s, a) = {}
    BY SplitIsExact
  <2> HIDE DEF s
  <2>3. QED
    BY <2>1, <2>2 DEF s
<1>3. QED
  BY <1>1, <1>2

\* A list that holds all of the firmware's entries says what the firmware says.
LEMMA CopyIsTrue ==
    ASSUME MapTypes, Copied(Len(firmwareMap) + 1)
    PROVE  \A a : TypesIn(MemoryMap, a) = FirmwareTypes(a)
<1>1. /\ Len(firmwareMap) \in Nat /\ DOMAIN firmwareMap = 1..Len(firmwareMap)
      /\ DOMAIN MemoryMap = 1..Len(MemoryMap)
  BY DEF MapTypes
<1>2. \A i \in DOMAIN firmwareMap : i < Len(firmwareMap) + 1
  BY <1>1
<1>3. ASSUME NEW a, NEW t PROVE t \in TypesIn(MemoryMap, a) <=> t \in FirmwareTypes(a)
  <2>1. ASSUME NEW k \in DOMAIN MemoryMap, Covers(MemoryMap[k], a), MemoryMap[k].type = t
        PROVE  t \in FirmwareTypes(a)
    BY <2>1 DEF Copied, FirmwareTypes
  <2>2. ASSUME NEW i \in DOMAIN firmwareMap, firmwareMap[i].valid,
               Covers(firmwareMap[i].area, a), firmwareMap[i].area.type = t
        PROVE  t \in TypesIn(MemoryMap, a)
    BY <1>2, <2>2 DEF Copied, TypesIn
  <2>3. QED
    BY <2>1, <2>2 DEF TypesIn, FirmwareTypes
<1>4. ASSUME NEW a PROVE TypesIn(MemoryMap, a) = FirmwareTypes(a)
  BY <1>3 DEF TypesIn, FirmwareTypes
<1>5. QED
  BY <1>4

-------------------------------------------------------------------------------
(* Every step of the boot keeps the invariant. *)
LEMMA MapStarts == Init => MapInv /\ WalkInv
<1> SUFFICES ASSUME Init PROVE MapInv /\ WalkInv
  OBVIOUS
<1>1. MapTypes
  BY DEF Init, MapTypes, Measured
<1>2. FirmwareIsSane /\ HighestIsHighest /\ ListIsRight /\ EptIsRight
  BY DEF Init, FirmwareIsSane, HighestIsHighest, ListIsRight, EptIsRight, Measured, Patched
<1>3. WalkInv
  BY DEF Init, WalkInv, NobodyAsked
<1>4. QED
  BY <1>1, <1>2, <1>3 DEF MapInv

LEMMA RetrieveKeeps == MapInv /\ (RetrieveInt15Map \/ RetrieveEnds) => MapInv'
<1> SUFFICES ASSUME MapInv, RetrieveInt15Map \/ RetrieveEnds PROVE MapInv'
  OBVIOUS
<1> USE DEF MapInv
<1>1. /\ phase = "retrieve" /\ phase' \in {"halted", "retrieve", "determine"}
      /\ UNCHANGED <<AvailableSystemMemory, HighestAvailablePhysicalAddress, MemoryMap,
                     eptPages, entryIndex>>
  BY DEF RetrieveInt15Map, RetrieveEnds
<1>2. ListIsRight' /\ EptIsRight'
  BY <1>1 DEF ListIsRight, EptIsRight, Patched
<1>3. HighestIsHighest'
  <2>1. entryIndex' = 1 /\ phase' \notin Measured
    BY <1>1 DEF HighestIsHighest, Measured
  <2>2. firmwareMap' \in Seq(FirmwareEntry) => \A i \in DOMAIN firmwareMap' : ~(i < 1)
    OBVIOUS
  <2>3. firmwareMap' \in Seq(FirmwareEntry)
    BY AppendProperties DEF MapTypes, RetrieveInt15Map, RetrieveEnds
  <2>4. QED
    BY <2>1, <2>2, <2>3 DEF HighestIsHighest
<1>4. CASE RetrieveInt15Map
  <2>1. PICK e \in FirmwareEntry :
          /\ e.valid => \A i \in DOMAIN firmwareMap :
                            firmwareMap[i].valid => Disjoint(e.area, firmwareMap[i].area)
          /\ firmwareMap' = Append(firmwareMap, e)
    BY <1>4 DEF RetrieveInt15Map
  <2> DEFINE n == Len(firmwareMap)
  <2>2. /\ n \in Nat /\ firmwareMap' \in Seq(FirmwareEntry)
        /\ DOMAIN firmwareMap = 1..n /\ DOMAIN firmwareMap' = 1..(n + 1)
        /\ firmwareMap'[n + 1] = e
        /\ \A i \in 1..n : firmwareMap'[i] = firmwareMap[i]
    BY <2>1, AppendProperties DEF MapTypes
  <2> HIDE DEF n
  <2>3. MapTypes'
    BY <1>1, <2>2 DEF MapTypes, Measured
  <2>4. FirmwareIsSane'
    <3> SUFFICES ASSUME NEW i \in 1..(n + 1), NEW j \in 1..(n + 1), i # j,
                        firmwareMap'[i].valid, firmwareMap'[j].valid
                 PROVE  Disjoint(firmwareMap'[i].area, firmwareMap'[j].area)
      BY <2>2 DEF FirmwareIsSane, Disjoint
    <3>1. \A k \in 1..(n + 1) : k \in 1..n \/ k = n + 1
      BY <2>2
    <3>2. CASE i \in 1..n /\ j \in 1..n
      BY <3>2, <2>2 DEF FirmwareIsSane
    <3>3. CASE i = n + 1 /\ j \in 1..n
      BY <3>3, <2>1, <2>2
    <3>4. CASE j = n + 1 /\ i \in 1..n
      <4>1. Disjoint(firmwareMap'[j].area, firmwareMap'[i].area)
        BY <3>4, <2>1, <2>2
      <4>2. QED
        BY <4>1 DEF Disjoint
    <3>5. QED
      BY <3>1, <3>2, <3>3, <3>4
  <2>5. QED
    BY <1>2, <1>3, <2>3, <2>4
<1>5. CASE RetrieveEnds
  <2>1. MapTypes' /\ FirmwareIsSane'
    BY <1>1, <1>5 DEF RetrieveEnds, MapTypes, FirmwareIsSane, Measured
  <2>2. QED
    BY <1>2, <1>3, <2>1
<1>6. QED
  BY <1>4, <1>5

LEMMA DetermineKeeps == MapInv /\ Int15DetermineMemoryMapParameters => MapInv'
<1> SUFFICES ASSUME MapInv, Int15DetermineMemoryMapParameters PROVE MapInv'
  OBVIOUS
<1> USE DEF MapInv
<1>1. /\ phase = "determine" /\ phase' \in {"determine", "normalize"}
      /\ UNCHANGED <<firmwareMap, MemoryMap, eptPages>>
      /\ MemoryMap = <<>> /\ eptPages = {}
      /\ Len(firmwareMap) \in Nat /\ DOMAIN firmwareMap = 1..Len(firmwareMap)
  BY DEF Int15DetermineMemoryMapParameters, DetermineEntry, DetermineEnds, InLoop, LoopEnds,
         MapTypes, ListIsRight, EptIsRight
<1>2. FirmwareIsSane' /\ EptIsRight'
  BY <1>1 DEF FirmwareIsSane, EptIsRight
<1>3. \A i \in DOMAIN firmwareMap : /\ firmwareMap[i] \in FirmwareEntry
                                   /\ firmwareMap[i].area \in AnyArea
                                   /\ End(firmwareMap[i].area) \in Nat
  BY ElementOfSeq, FirmwareAreas DEF MapTypes
<1>4. CASE DetermineEntry
  <2> DEFINE e == firmwareMap[entryIndex]
             highest == HighestAvailablePhysicalAddress
  <2>1. /\ phase' = "determine" /\ entryIndex' = entryIndex + 1
        /\ entryIndex \in DOMAIN firmwareMap
        /\ highest' = IF End(e.area) > highest THEN End(e.area) ELSE highest
        /\ AvailableSystemMemory' =
               IF e.valid /\ e.area.type = UsableRAM
               THEN AvailableSystemMemory + e.area.length ELSE AvailableSystemMemory
    BY <1>1, <1>4 DEF DetermineEntry, InLoop, MapTypes
  <2>2. e.area.length \in Nat /\ End(e.area) \in Nat /\ highest \in Nat
    BY <1>3, <2>1 DEF AnyArea, MapTypes
  <2> HIDE DEF e, highest
  <2>3. highest' \in Nat /\ highest' >= highest /\ highest' >= End(e.area)
    BY <2>1, <2>2
  <2>4. MapTypes'
    BY <1>1, <2>1, <2>2, <2>3 DEF MapTypes, highest
  <2>5. HighestIsHighest'
    <3>1. ASSUME NEW i \in DOMAIN firmwareMap, i < entryIndex + 1
          PROVE  End(firmwareMap[i].area) <= highest'
      <4>1. CASE i < entryIndex
        BY <1>1, <1>3, <2>2, <2>3, <4>1 DEF HighestIsHighest, highest
      <4>2. CASE i = entryIndex
        BY <2>2, <2>3, <4>2 DEF e
      <4>3. QED
        BY <3>1, <4>1, <4>2, <1>1 DEF MapTypes
    <3>2. phase' = "determine" /\ phase' \notin Measured
      BY <2>1 DEF Measured
    <3>3. QED
      BY <1>1, <2>1, <3>1, <3>2 DEF HighestIsHighest, End, highest
  <2>6. ListIsRight'
    BY <1>1, <2>1 DEF ListIsRight, Patched
  <2>7. QED
    BY <1>2, <2>4, <2>5, <2>6
<1>5. CASE DetermineEnds
  <2>1. /\ phase' = "normalize" /\ entryIndex' = 1 /\ entryIndex > Len(firmwareMap)
        /\ UNCHANGED <<AvailableSystemMemory, HighestAvailablePhysicalAddress>>
    BY <1>5 DEF DetermineEnds, LoopEnds
  <2>2. MapTypes'
    BY <1>1, <2>1 DEF MapTypes, Measured
  <2>3. HighestIsHighest'
    <3>1. \A i \in DOMAIN firmwareMap : i < entryIndex
      BY <1>1, <2>1 DEF MapTypes
    <3>2. QED
      BY <1>1, <2>1, <3>1 DEF HighestIsHighest, End
  <2>4. ListIsRight'
    <3>1. \A i \in DOMAIN firmwareMap : ~(i < 1)
      BY <1>1
    <3>2. DOMAIN MemoryMap = {}
      BY <1>1
    <3>3. Copied(entryIndex)'
      BY <1>1, <2>1, <3>1, <3>2 DEF Copied
    <3>4. QED
      BY <2>1, <3>3 DEF ListIsRight, Patched
  <2>5. QED
    BY <1>2, <2>2, <2>3, <2>4
<1>6. QED
  BY <1>4, <1>5 DEF Int15DetermineMemoryMapParameters

LEMMA NormalizeKeeps == MapInv /\ Int15NormalizeMemoryMap => MapInv'
<1> SUFFICES ASSUME MapInv, Int15NormalizeMemoryMap PROVE MapInv'
  OBVIOUS
<1> USE DEF MapInv
<1>1. /\ phase = "normalize" /\ phase' \in {"normalize", "patch"}
      /\ UNCHANGED <<firmwareMap, AvailableSystemMemory, HighestAvailablePhysicalAddress,
                     eptPages>>
      /\ Copied(entryIndex) /\ eptPages = {}
      /\ Len(firmwareMap) \in Nat /\ DOMAIN firmwareMap = 1..Len(firmwareMap)
  BY DEF Int15NormalizeMemoryMap, NormalizeEntry, NormalizeEnds, InLoop, LoopEnds,
         MapTypes, ListIsRight, EptIsRight
<1>2. FirmwareIsSane' /\ EptIsRight' /\ HighestIsHighest'
  <2>1. FirmwareIsSane' /\ EptIsRight'
    BY <1>1 DEF FirmwareIsSane, EptIsRight
  <2>2. HighestIsHighest'
    BY <1>1 DEF HighestIsHighest, Measured, End
  <2>3. QED
    BY <2>1, <2>2
<1>3. CASE NormalizeEntry
  <2> DEFINE e == firmwareMap[entryIndex].area
             n == Len(MemoryMap)
  <2>1. /\ phase' = "normalize" /\ entryIndex' = entryIndex + 1
        /\ entryIndex \in DOMAIN firmwareMap /\ entryIndex \in Nat
        /\ MemoryMap' = IF firmwareMap[entryIndex].valid THEN Append(MemoryMap, e) ELSE MemoryMap
    BY <1>1, <1>3 DEF NormalizeEntry, InLoop, MapTypes
  <2>2. e \in AnyArea
    <3>1. firmwareMap[entryIndex] \in FirmwareEntry
      BY <2>1, ElementOfSeq DEF MapTypes
    <3>2. QED
      BY <3>1, FirmwareAreas
  <2>3. n \in Nat /\ DOMAIN MemoryMap = 1..n /\ MemoryMap \in Seq(AnyArea)
    BY DEF MapTypes
  <2>4. firmwareMap[entryIndex].valid =>
          /\ MemoryMap' \in Seq(AnyArea) /\ DOMAIN MemoryMap' = 1..(n + 1)
          /\ MemoryMap'[n + 1] = e
          /\ \A k \in 1..n : MemoryMap'[k] = MemoryMap[k]
    BY <2>1, <2>2, <2>3, AppendProperties
  <2> HIDE DEF e, n
  <2>5. MapTypes'
    <3>1. MemoryMap' \in Seq(AnyArea)
      BY <2>1, <2>3, <2>4
    <3>2. QED
      BY <1>1, <2>1, <3>1 DEF MapTypes
  <2>6. \A i \in DOMAIN firmwareMap : i < entryIndex + 1 <=> i < entryIndex \/ i = entryIndex
    BY <1>1, <2>1
  <2>7. CASE ~firmwareMap[entryIndex].valid
    <3>1. Copied(entryIndex)'
      BY <1>1, <2>1, <2>6, <2>7 DEF Copied, Disjoint, Covers, End
    <3>2. QED
      BY <1>2, <2>1, <2>5, <3>1 DEF ListIsRight, Patched
  <2>8. CASE firmwareMap[entryIndex].valid
    <3>1. \A k \in 1..(n + 1) : k \in 1..n \/ k = n + 1
      BY <2>3
    <3>2. \A k \in 1..n : \E i \in DOMAIN firmwareMap :
              i < entryIndex /\ firmwareMap[i].valid /\ firmwareMap[i].area = MemoryMap[k]
      BY <1>1, <2>3 DEF Copied
    <3>3. \A k \in 1..(n + 1) : \E i \in DOMAIN firmwareMap :
              i < entryIndex + 1 /\ firmwareMap[i].valid /\ firmwareMap[i].area = MemoryMap'[k]
      BY <2>1, <2>4, <2>6, <2>8, <3>1, <3>2 DEF e
    <3>4. \A i \in DOMAIN firmwareMap : i < entryIndex + 1 /\ firmwareMap[i].valid =>
              \E k \in 1..(n + 1) : firmwareMap[i].area = MemoryMap'[k]
      <4>1. ASSUME NEW i \in DOMAIN firmwareMap, i < entryIndex, firmwareMap[i].valid
            PROVE  \E k \in 1..(n + 1) : firmwareMap[i].area = MemoryMap'[k]
        <5>1. PICK k \in 1..n : firmwareMap[i].area = MemoryMap[k]
          BY <4>1, <1>1, <2>3 DEF Copied
        <5>2. k \in 1..(n + 1)
          BY <2>3
        <5>3. QED
          BY <5>1, <5>2, <2>4, <2>8
      <4>2. n + 1 \in 1..(n + 1) /\ firmwareMap[entryIndex].area = MemoryMap'[n + 1]
        BY <2>3, <2>4, <2>8 DEF e
      <4>3. QED
        BY <2>6, <4>1, <4>2
    <3>5. \A k \in 1..n : Disjoint(e, MemoryMap[k]) /\ Disjoint(MemoryMap[k], e)
      <4> SUFFICES ASSUME NEW k \in 1..n
                   PROVE  Disjoint(e, MemoryMap[k]) /\ Disjoint(MemoryMap[k], e)
        OBVIOUS
      <4>1. PICK i \in DOMAIN firmwareMap :
              i < entryIndex /\ firmwareMap[i].valid /\ firmwareMap[i].area = MemoryMap[k]
        BY <3>2
      <4>2. i # entryIndex
        BY <4>1, <1>1, <2>1
      <4>3. QED
        BY <4>1, <4>2, <2>1, <2>8 DEF FirmwareIsSane, e
    <3>6. \A k, l \in 1..(n + 1) : k # l => Disjoint(MemoryMap'[k], MemoryMap'[l])
      <4> SUFFICES ASSUME NEW k \in 1..(n + 1), NEW l \in 1..(n + 1), k # l
                   PROVE  Disjoint(MemoryMap'[k], MemoryMap'[l])
        OBVIOUS
      <4>1. CASE k \in 1..n /\ l \in 1..n
        BY <4>1, <1>1, <2>3, <2>4, <2>8 DEF Copied
      <4>2. CASE k = n + 1 /\ l \in 1..n
        BY <4>2, <2>4, <2>8, <3>5
      <4>3. CASE l = n + 1 /\ k \in 1..n
        BY <4>3, <2>4, <2>8, <3>5
      <4>4. QED
        BY <3>1, <4>1, <4>2, <4>3
    <3>7. Copied(entryIndex)'
      <4>1. DOMAIN MemoryMap' = 1..(n + 1) /\ entryIndex' = entryIndex + 1
            /\ firmwareMap' = firmwareMap
        BY <1>1, <2>1, <2>4, <2>8
      <4>2. \A k, l \in 1..(n + 1) : k # l => Disjoint(MemoryMap[k], MemoryMap[l])'
        BY <3>6 DEF Disjoint, Covers, End
      <4>3. QED
        BY <4>1, <4>2, <3>3, <3>4 DEF Copied
    <3>8. QED
      BY <1>2, <2>1, <2>5, <3>7 DEF ListIsRight, Patched
  <2>9. QED
    BY <2>7, <2>8
<1>4. CASE NormalizeEnds
  <2>1. /\ phase' = "patch" /\ entryIndex' = 1 /\ entryIndex > Len(firmwareMap)
        /\ MemoryMap' = MemoryMap
    BY <1>4 DEF NormalizeEnds, LoopEnds
  <2>2. MapTypes'
    BY <1>1, <2>1 DEF MapTypes, Measured
  <2>3. \A i \in DOMAIN firmwareMap : i < Len(firmwareMap) + 1 /\ i < entryIndex
    BY <1>1, <2>1 DEF MapTypes
  <2>4. Copied(Len(firmwareMap) + 1)'
    BY <1>1, <2>1, <2>3 DEF Copied, Disjoint, Covers, End
  <2>5. QED
    BY <1>2, <2>1, <2>2, <2>4 DEF ListIsRight, Patched
<1>5. QED
  BY <1>3, <1>4 DEF Int15NormalizeMemoryMap

\* What the firmware says, and where the hypervisor lies, no longer changes.
LEMMA TruthStays ==
    ASSUME UNCHANGED <<firmwareMap, AvailableSystemMemory>>, NEW a
    PROVE  /\ HvArea' = HvArea /\ HighBase' = HighBase /\ FirmwareTypes(a)' = FirmwareTypes(a)
           /\ UNCHANGED MemoryMap => (ToldTheTruth(a)' <=> ToldTheTruth(a))
<1>1. HvArea' = HvArea /\ HighBase' = HighBase
  BY DEF HvArea, HighBase, TotalLength
<1>2. FirmwareTypes(a)' = FirmwareTypes(a)
  BY DEF FirmwareTypes, Covers, End
<1>3. UNCHANGED MemoryMap => TypesIn(MemoryMap, a)' = TypesIn(MemoryMap, a)
  BY DEF TypesIn, Covers, End
<1>4. Covers(HvArea, a)' <=> Covers(HvArea, a)
  BY <1>1 DEF Covers, End
<1>5. QED
  BY <1>1, <1>2, <1>3, <1>4 DEF ToldTheTruth

LEMMA PatchKeeps == MapInv /\ PatchMemoryMap => MapInv'
<1> SUFFICES ASSUME MapInv, PatchMemoryMap PROVE MapInv'
  OBVIOUS
<1> USE DEF MapInv
<1>1. /\ phase = "patch" /\ phase' \in {"mapLow", "halted"}
      /\ UNCHANGED <<firmwareMap, AvailableSystemMemory, HighestAvailablePhysicalAddress,
                     eptPages, entryIndex>>
      /\ Copied(Len(firmwareMap) + 1) /\ eptPages = {}
  BY DEF PatchMemoryMap, ListIsRight, EptIsRight
<1>2. FirmwareIsSane' /\ EptIsRight' /\ HighestIsHighest'
  <2>1. FirmwareIsSane' /\ EptIsRight'
    BY <1>1 DEF FirmwareIsSane, EptIsRight
  <2>2. HighestIsHighest'
    BY <1>1 DEF HighestIsHighest, Measured, End
  <2>3. QED
    BY <2>1, <2>2
<1>3. CASE phase' = "halted" /\ UNCHANGED MemoryMap
  <2>1. MapTypes'
    BY <1>1, <1>3 DEF MapTypes
  <2>2. ListIsRight'
    BY <1>3 DEF ListIsRight, Patched
  <2>3. QED
    BY <1>2, <2>1, <2>2
<1>4. ASSUME NEW i \in DOMAIN MemoryMap, Fits(MemoryMap[i]), phase' = "mapLow",
             MemoryMap' = SubSeq(MemoryMap, 1, i - 1) \o Split(MemoryMap[i], HvArea)
                            \o SubSeq(MemoryMap, i + 1, Len(MemoryMap))
      PROVE  MapInv'
  <2> DEFINE e     == MemoryMap[i]
             front == SubSeq(MemoryMap, 1, i - 1)
             parts == Split(e, HvArea)
             back  == SubSeq(MemoryMap, i + 1, Len(MemoryMap))
  <2>1. MemoryMap \in Seq(AnyArea) /\ i \in 1..Len(MemoryMap) /\ AvailableSystemMemory \in Nat
    BY DEF MapTypes
  <2>2. /\ e \in AnyArea /\ HvArea \in AnyArea /\ HvArea.type = Reserved
        /\ e.type = UsableRAM /\ e.base <= HvArea.base /\ End(HvArea) <= End(e)
    <3>1. e \in AnyArea
      BY <2>1, ElementOfSeq
    <3>2. HvArea \in AnyArea /\ HvArea.type = Reserved
      BY <2>1, HvAreaIsArea
    <3>3. QED
      BY <1>4, <3>1, <3>2 DEF Fits, End, AnyArea
  <2>3. /\ parts \in Seq(AnyArea) /\ parts # <<>>
        /\ \A a \in Nat : TypesIn(parts, a) =
               IF ~Covers(e, a) THEN {}
               ELSE IF Covers(HvArea, a) THEN {Reserved} ELSE {UsableRAM}
    BY <2>2, TypesOfSplit
  <2>4. front \in Seq(AnyArea) /\ back \in Seq(AnyArea)
    BY <2>1, TypesAround
  <2>5. \A a : TypesIn(MemoryMap, a) = FirmwareTypes(a)
    BY <1>1, CopyIsTrue
  <2>6. ASSUME NEW a \in Addresses
        PROVE  /\ TypesIn(MemoryMap, a) =
                     TypesIn(front, a) \union (IF Covers(e, a) THEN {UsableRAM} ELSE {})
                        \union TypesIn(back, a)
               /\ Covers(e, a) => TypesIn(front, a) = {} /\ TypesIn(back, a) = {}
    <3>1. \A t : t \in TypesIn(MemoryMap, a) <=>
              \/ t \in TypesIn(front, a)
              \/ Covers(e, a) /\ e.type = t
              \/ t \in TypesIn(back, a)
      BY <2>1, TypesAround
    <3>2. ASSUME Covers(e, a) PROVE \A j \in 1..Len(MemoryMap) : j # i => ~Covers(MemoryMap[j], a)
      BY <1>1, <2>1, <2>6, <3>2 DEF Copied, Disjoint
    <3>3. Covers(e, a) => TypesIn(front, a) = {} /\ TypesIn(back, a) = {}
      BY <2>1, <3>2, TypesAround
    <3> HIDE DEF front, back, e
    <3>4. QED
      BY <3>1, <3>3, <2>2 DEF TypesIn
  <2> HIDE DEF front, back, parts
  <2>7. /\ MemoryMap' = (front \o parts) \o back
        /\ front \o parts \in Seq(AnyArea) /\ MemoryMap' \in Seq(AnyArea) /\ MemoryMap' # <<>>
    <3>1. MemoryMap' = (front \o parts) \o back
      BY <1>4 DEF front, back, parts
    <3>2. front \o parts \in Seq(AnyArea) /\ Len(front \o parts) = Len(front) + Len(parts)
      BY <2>3, <2>4, ConcatProperties
    <3>3. MemoryMap' \in Seq(AnyArea) /\ Len(MemoryMap') = Len(front \o parts) + Len(back)
      BY <2>4, <3>1, <3>2, ConcatProperties
    <3>4. Len(front) \in Nat /\ Len(parts) \in Nat /\ Len(back) \in Nat /\ Len(parts) # 0
      BY <2>3, <2>4, LenProperties, EmptySeq
    <3>5. Len(MemoryMap') # 0
      BY <3>2, <3>3, <3>4
    <3>6. QED
      BY <3>1, <3>2, <3>3, <3>5
  <2>8. ASSUME NEW a \in Addresses PROVE ToldTheTruth(a)'
    <3>1. a \in Nat
      BY MapConstants DEF Addresses
    <3>2. TypesIn(MemoryMap', a) = TypesIn(front, a) \union TypesIn(parts, a) \union TypesIn(back, a)
      <4>1. TypesIn(front \o parts, a) = TypesIn(front, a) \union TypesIn(parts, a)
        BY <2>3, <2>4, TypesOfConcat
      <4> DEFINE most == front \o parts
      <4>2. most \in Seq(AnyArea) /\ MemoryMap' = most \o back
        BY <2>7
      <4> HIDE DEF most
      <4>3. TypesIn(most \o back, a) = TypesIn(most, a) \union TypesIn(back, a)
        BY <2>4, <4>2, TypesOfConcat
      <4>4. QED
        BY <4>1, <4>2, <4>3 DEF most
    <3>3. /\ HvArea' = HvArea /\ FirmwareTypes(a)' = FirmwareTypes(a)
          /\ TypesIn(MemoryMap, a)' = TypesIn(MemoryMap', a)
          /\ Covers(HvArea, a)' <=> Covers(HvArea, a)
      BY <1>1, TruthStays DEF TypesIn, Covers, End
    <3>4. Covers(HvArea, a) => Covers(e, a)
      BY <2>2, <3>1 DEF Covers, AnyArea, End
    <3>5. TypesIn(parts, a) = IF ~Covers(e, a) THEN {}
                              ELSE IF Covers(HvArea, a) THEN {Reserved} ELSE {UsableRAM}
      BY <2>3, <3>1
    <3> HIDE DEF e
    <3>6. CASE Covers(e, a)
      <4>1. TypesIn(MemoryMap', a) = TypesIn(parts, a) /\ FirmwareTypes(a) = {UsableRAM}
        BY <2>5, <2>6, <3>2, <3>6
      <4>2. QED
        BY <4>1, <3>3, <3>5, <3>6 DEF ToldTheTruth
    <3>7. CASE ~Covers(e, a)
      <4>1. TypesIn(MemoryMap', a) = TypesIn(MemoryMap, a)
        BY <2>6, <3>2, <3>5, <3>7
      <4>2. QED
        BY <4>1, <2>5, <3>3, <3>4, <3>7 DEF ToldTheTruth
    <3>8. QED
      BY <3>6, <3>7
  <2>9. ListIsRight'
    BY <1>4, <2>7, <2>8 DEF ListIsRight, Addresses
  <2>10. MapTypes'
    BY <1>1, <1>4, <2>7 DEF MapTypes, Measured
  <2>11. QED
    BY <1>2, <2>9, <2>10
<1>5. QED
  BY <1>3, <1>4 DEF PatchMemoryMap

LEMMA MapsKeep ==
    MapInv /\ (MapMemoryBeforeHv \/ MapMemoryAfterHv \/ AllocationFails) => MapInv'
<1> SUFFICES ASSUME MapInv, MapMemoryBeforeHv \/ MapMemoryAfterHv \/ AllocationFails
             PROVE  MapInv'
  OBVIOUS
<1> USE DEF MapInv
<1>1. /\ UNCHANGED <<firmwareMap, AvailableSystemMemory, HighestAvailablePhysicalAddress,
                     MemoryMap, entryIndex>>
      /\ \/ phase = "mapLow" /\ phase' = "mapHigh"
         \/ phase = "mapHigh" /\ phase' = "guest"
         \/ phase \in Measured /\ phase' = "halted"
  BY DEF MapMemoryBeforeHv, MapMemoryAfterHv, AllocationFails, Measured
<1>2. MapTypes'
  BY <1>1 DEF MapTypes, Measured
<1>3. FirmwareIsSane'
  BY <1>1 DEF FirmwareIsSane
<1>4. HighestIsHighest'
  BY <1>1 DEF HighestIsHighest, Measured, End
<1>5. ListIsRight'
  <2>1. \A a \in Addresses : ToldTheTruth(a)' <=> ToldTheTruth(a)
    BY <1>1, TruthStays
  <2>2. phase' \in Patched => phase \in Patched
    BY <1>1 DEF Patched
  <2>3. phase' \notin {"retrieve", "determine", "normalize", "patch"}
    BY <1>1
  <2>4. QED
    BY <1>1, <2>1, <2>2, <2>3 DEF ListIsRight, Addresses
<1>6. EptIsRight'
  <2>1. HighBase' = HighBase
    BY <1>1, TruthStays
  <2>2. CASE MapMemoryBeforeHv
    <3>1. 0 + KernelBase - 1 = KernelBase - 1
      BY MapConstants
    <3>2. phase' = "mapHigh" /\ eptPages' = 0..(KernelBase - 1)
      BY <2>2, <3>1 DEF MapMemoryBeforeHv, GuestMapMemoryRange, EptIsRight
    <3>3. QED
      BY <3>2 DEF EptIsRight
  <2>3. CASE MapMemoryAfterHv
    BY <1>1, <2>1, <2>3 DEF MapMemoryAfterHv, GuestMapMemoryRange, EptIsRight
  <2>4. CASE AllocationFails
    BY <2>4 DEF AllocationFails, EptIsRight
  <2>5. QED
    BY <2>2, <2>3, <2>4
<1>7. QED
  BY <1>2, <1>3, <1>4, <1>5, <1>6

LEMMA CallsLeaveTheMap == MapInv /\ UNCHANGED boot => MapInv'
<1> SUFFICES ASSUME MapInv, UNCHANGED boot PROVE MapInv'
  OBVIOUS
<1> USE DEF MapInv, boot
<1>1. MapTypes' /\ FirmwareIsSane'
  BY DEF MapTypes, FirmwareIsSane
<1>2. HighestIsHighest'
  BY DEF HighestIsHighest, End
<1>3. EptIsRight'
  BY TruthStays DEF EptIsRight
<1>4. ListIsRight'
  <2>1. \A a \in Addresses : ToldTheTruth(a)' <=> ToldTheTruth(a)
    BY TruthStays
  <2>2. \A n : Copied(n)' <=> Copied(n)
    BY DEF Copied, Disjoint, Covers, End
  <2>3. QED
    BY <2>1, <2>2 DEF ListIsRight, Addresses
<1>5. QED
  BY <1>1, <1>2, <1>3, <1>4

LEMMA MapStep == MapInv /\ [Next]_vars => MapInv'
<1> SUFFICES ASSUME MapInv, [Next]_vars PROVE MapInv'
  OBVIOUS
<1>1. CASE UNCHANGED vars
  BY <1>1, CallsLeaveTheMap DEF vars, boot
<1>2. ASSUME NEW p \in Programs, VmExitSolveVmCall(p) PROVE MapInv'
  BY <1>2, CallsLeaveTheMap DEF VmExitSolveVmCall
<1>3. QED
  BY <1>1, <1>2, RetrieveKeeps, DetermineKeeps, NormalizeKeeps, PatchKeeps, MapsKeep DEF Next

\* The guest is told of reserved memory where the hypervisor lies, and there only
\* where the firmware had usable RAM; of every other byte what the firmware said.
THEOREM TheTruthIsTold == Spec => []GuestIsToldTheTruth
<1>1. Spec => []MapInv
  BY MapStarts, MapStep, PTL DEF Spec
<1>2. MapInv => GuestIsToldTheTruth
  BY DEF MapInv, ListIsRight, Patched, ToldTheTruth, GuestIsToldTheTruth
<1>3. QED
  BY <1>1, <1>2, PTL

\* The guest reaches what it may use, and nothing of the hypervisor: what it may use
\* is in an entry of the firmware, so below the end of the memory, which the second
\* call of GuestMapMemoryRange passes as a size.
THEOREM EptFollowsTheMap == Spec => []EptMatchesTheMap
<1>1. Spec => []MapInv
  BY MapStarts, MapStep, PTL DEF Spec
<1>2. ASSUME MapInv, phase = "guest", NEW a \in Addresses
      PROVE  /\ UsableRAM \in TypesIn(MemoryMap, a) => a \in eptPages
             /\ Covers(HvArea, a) => a \notin eptPages
  <2> DEFINE highest == HighestAvailablePhysicalAddress
  <2>1. /\ AvailableSystemMemory \in Nat /\ highest \in Nat
        /\ firmwareMap \in Seq(FirmwareEntry) /\ a \in Nat
    BY <1>2, MapConstants DEF MapInv, MapTypes, Addresses
  <2>2. /\ HvArea.base = KernelBase /\ End(HvArea) = HighBase
        /\ HighBase \in Nat /\ KernelBase \in Nat
    <3>1. HvArea.base = KernelBase /\ End(HvArea) = HighBase /\ TotalLength \in Nat
      BY <2>1, HvAreaIsArea
    <3>2. QED
      BY <3>1, MapConstants DEF HighBase
  <2>3. a \in eptPages <=> a < KernelBase \/ (HighBase <= a /\ a < HighBase + highest)
    <3>1. eptPages = 0..(KernelBase - 1) \union HighBase..(HighBase + highest - 1)
      BY <1>2 DEF MapInv, EptIsRight
    <3>2. QED
      BY <2>1, <2>2, <3>1
  <2> HIDE DEF highest
  <2>4. Covers(HvArea, a) <=> KernelBase <= a /\ a < HighBase
    BY <2>2 DEF Covers
  <2>5. ASSUME UsableRAM \in TypesIn(MemoryMap, a) PROVE ~Covers(HvArea, a) /\ a < highest
    <3>1. ToldTheTruth(a)
      BY <1>2 DEF MapInv, ListIsRight, Patched
    <3>2. ~Covers(HvArea, a) /\ UsableRAM \in FirmwareTypes(a)
      BY <2>5, <3>1 DEF ToldTheTruth, UsableRAM, Reserved
    <3>3. PICK i \in DOMAIN firmwareMap : Covers(firmwareMap[i].area, a)
      BY <3>2 DEF FirmwareTypes
    <3>4. End(firmwareMap[i].area) <= highest
      BY <1>2 DEF MapInv, HighestIsHighest, Measured, highest
    <3>5. End(firmwareMap[i].area) \in Nat
      BY <2>1, ElementOfSeq, FirmwareAreas
    <3>6. highest \in Nat
      BY <2>1 DEF highest
    <3>7. QED
      BY <2>1, <3>2, <3>3, <3>4, <3>5, <3>6 DEF Covers
  <2>6. highest \in Nat
    BY <2>1 DEF highest
  <2>7. QED
    BY <2>1, <2>2, <2>3, <2>4, <2>5, <2>6
<1>3. MapInv => EptMatchesTheMap
  BY <1>2 DEF EptMatchesTheMap
<1>4. QED
  BY <1>1, <1>3, PTL

-------------------------------------------------------------------------------
(* The calls of the programs. *)

\* A call that is answered gets the entry behind those the program repeats.
LEMMA EntryFollows ==
    ASSUME PlaceIsRight, NEW ebx \in Nat, ebx < Len(MemoryMap) \/ ebx # 0,
           Len(MemoryMap) \in Nat, Len(MemoryMap) # 0, Continuation(ebx) = ebx
    PROVE  /\ Entry(ebx) = ebx + 1 /\ ebx + 1 \in 1..Len(MemoryMap)
           /\ Continuation(ebx) + 1 = ebx + 1
<1>1. CASE ebx = 0
  BY <1>1 DEF Continuation, Entry
<1>2. CASE ebx # 0
  BY <1>2 DEF Continuation, Entry, PlaceIsRight
<1>3. QED
  BY <1>1, <1>2

\* One more entry of the map behind the first ones of a walk.
LEMMA WalkGrows ==
    ASSUME NEW m \in Seq(AnyArea), NEW w \in Seq(AnyArea), NEW n \in Nat,
           Len(w) <= Len(m), w = SubSeq(m, 1, Len(w)), n <= Len(w), n + 1 \in 1..Len(m)
    PROVE  /\ Append(SubSeq(w, 1, n), m[n + 1]) \in Seq(AnyArea)
           /\ Len(Append(SubSeq(w, 1, n), m[n + 1])) = n + 1
           /\ Append(SubSeq(w, 1, n), m[n + 1]) = SubSeq(m, 1, n + 1)
<1>1. /\ Len(m) \in Nat /\ Len(w) \in Nat
      /\ \A i \in 1..Len(m) : m[i] \in AnyArea
      /\ \A i \in 1..Len(w) : w[i] \in AnyArea
  BY LenProperties, ElementOfSeq
<1>2. \A i \in 1..Len(w) : w[i] = m[i]
  <2>1. \A i \in 1..Len(w) : SubSeq(m, 1, Len(w))[i] = m[1 + i - 1]
    BY <1>1, SubSeqProperties
  <2>2. \A i \in 1..Len(w) : 1 + i - 1 = i
    BY <1>1
  <2>3. QED
    BY <2>1, <2>2
<1> DEFINE kept == SubSeq(w, 1, n)
           more == SubSeq(m, 1, n + 1)
           next1 == Append(kept, m[n + 1])
<1>3. /\ kept \in Seq(AnyArea) /\ Len(kept) = n
      /\ \A i \in 1..n : kept[i] = m[i]
  <2>1. \A i \in 1..n : w[i] \in AnyArea /\ w[i] = m[i] /\ 1 + i - 1 = i
    BY <1>1, <1>2
  <2>2. QED
    BY <1>1, <2>1, SubSeqProperties
<1>4. /\ more \in Seq(AnyArea) /\ Len(more) = n + 1
      /\ \A i \in 1..(n + 1) : more[i] = m[i]
  <2>1. \A i \in 1..(n + 1) : m[i] \in AnyArea /\ 1 + i - 1 = i
    BY <1>1
  <2>2. QED
    BY <1>1, <2>1, SubSeqProperties
<1>5. /\ next1 \in Seq(AnyArea) /\ Len(next1) = n + 1
      /\ next1[n + 1] = m[n + 1]
      /\ \A i \in 1..n : next1[i] = m[i]
  <2>1. m[n + 1] \in AnyArea
    BY <1>1
  <2>2. QED
    BY <1>3, <2>1, AppendProperties
<1> HIDE DEF kept, more, next1
<1>6. \A i \in 1..(n + 1) : next1[i] = more[i]
  <2>1. \A i \in 1..(n + 1) : i \in 1..n \/ i = n + 1
    OBVIOUS
  <2>2. QED
    BY <1>4, <1>5, <2>1
<1>7. next1 = more
  BY <1>4, <1>5, <1>6, SeqEqual
<1>8. QED
  BY <1>5, <1>7 DEF kept, more, next1

LEMMA AnswerKeeps ==
    ASSUME MapInv, WalkInv, phase = "guest", NEW p \in Programs, NEW ebx \in 0..Len(walk[p]),
           Continuation(ebx) = ebx, Answer(p, ebx), UNCHANGED boot
    PROVE  WalkInv'
<1> DEFINE m == MemoryMap
<1>1. m \in Seq(AnyArea) /\ Len(m) \in Nat /\ Len(m) # 0
  BY LenProperties, EmptySeq DEF MapInv, MapTypes, ListIsRight, Patched
<1>2. PlaceIsRight /\ walk \in [Programs -> Seq(AnyArea)] /\ \A q \in Programs : WalkIsRight(q)
  BY DEF WalkInv
<1>3. /\ walk[p] \in Seq(AnyArea) /\ Len(walk[p]) \in Nat /\ ebx \in Nat
      /\ ebx <= Len(walk[p]) /\ Len(walk[p]) <= Len(m)
      /\ walk[p] = SubSeq(m, 1, Len(walk[p]))
  BY <1>2, LenProperties DEF WalkIsRight
<1>4. /\ Entry(ebx) = ebx + 1 /\ ebx + 1 \in 1..Len(m)
  BY <1>1, <1>2, <1>3, EntryFollows
<1>5. /\ phase' = "guest" /\ m' = m
      /\ currentEntry' = ebx + 2
      /\ lastContinuation' = IF ebx + 1 = Len(m) THEN 0 ELSE ebx + 1
      /\ walk' = [walk EXCEPT ![p] = Append(SubSeq(walk[p], 1, ebx), m[ebx + 1])]
      /\ done' = IF ebx + 1 = Len(m) THEN done \union {p} ELSE done \ {p}
  <2>1. ebx + 1 + 1 = ebx + 2
    BY <1>3
  <2>2. QED
    BY <1>4, <2>1 DEF Answer, boot
<1> DEFINE w == Append(SubSeq(walk[p], 1, ebx), m[ebx + 1])
<1>6. w \in Seq(AnyArea) /\ Len(w) = ebx + 1 /\ w = SubSeq(m, 1, ebx + 1)
  BY <1>1, <1>3, <1>4, WalkGrows
<1> HIDE DEF m, w
<1>7. /\ walk' \in [Programs -> Seq(AnyArea)] /\ walk'[p] = w
      /\ \A q \in Programs \ {p} : walk'[q] = walk[q]
  BY <1>2, <1>5, <1>6 DEF w
<1>8. PlaceIsRight'
  BY <1>1, <1>3, <1>4, <1>5 DEF PlaceIsRight, m
<1>9. WalkIsRight(p)'
  <2>1. ebx + 1 <= Len(m)
    BY <1>1, <1>3, <1>4
  <2>2. p \in done' => w = m
    <3>1. p \in done' => ebx + 1 = Len(m)
      BY <1>5
    <3>2. QED
      BY <3>1, <1>1, <1>6, SubSeqFull
  <2>3. QED
    BY <1>5, <1>6, <1>7, <2>1, <2>2 DEF WalkIsRight, m
<1>10. ASSUME NEW q \in Programs \ {p} PROVE WalkIsRight(q)'
  <2>1. WalkIsRight(q) /\ walk'[q] = walk[q] /\ (q \in done' <=> q \in done)
    BY <1>2, <1>5, <1>7
  <2>2. QED
    BY <2>1, <1>5 DEF WalkIsRight, m
<1>11. QED
  BY <1>5, <1>7, <1>8, <1>9, <1>10 DEF WalkInv

LEMMA FailKeeps ==
    ASSUME MapInv, WalkInv, phase = "guest", NEW ebx \in Nat, Fail(ebx), UNCHANGED boot
    PROVE  WalkInv'
<1>1. PlaceIsRight /\ walk \in [Programs -> Seq(AnyArea)] /\ \A q \in Programs : WalkIsRight(q)
  BY DEF WalkInv
<1>2. /\ phase' = "guest" /\ MemoryMap' = MemoryMap /\ lastContinuation' = 0
      /\ currentEntry' = Entry(ebx) /\ UNCHANGED <<walk, done>>
  BY DEF Fail, boot
<1>3. PlaceIsRight'
  BY <1>1, <1>2 DEF PlaceIsRight, Entry
<1>4. \A q \in Programs : WalkIsRight(q)'
  BY <1>1, <1>2 DEF WalkIsRight
<1>5. QED
  BY <1>1, <1>2, <1>3, <1>4 DEF WalkInv

LEMMA EmptyWalks ==
    ASSUME NobodyAsked, MemoryMap \in Seq(AnyArea)
    PROVE  PlaceIsRight /\ \A p \in Programs : WalkIsRight(p)
<1>1. /\ Len(<<>>) = 0 /\ <<>> \in Seq(AnyArea) /\ Len(MemoryMap) \in Nat
      /\ SubSeq(MemoryMap, 1, 0) = <<>>
  BY EmptySeq, LenProperties
<1>2. QED
  BY <1>1 DEF NobodyAsked, PlaceIsRight, WalkIsRight

LEMMA WalkStep == MapInv /\ MapInv' /\ WalkInv /\ [Next]_vars => WalkInv'
<1> SUFFICES ASSUME MapInv, MapInv', WalkInv, [Next]_vars PROVE WalkInv'
  OBVIOUS
<1>1. CASE UNCHANGED vars
  BY <1>1 DEF vars, WalkInv, NobodyAsked, PlaceIsRight, WalkIsRight
<1>2. ASSUME NEW p \in Programs, VmExitSolveVmCall(p) PROVE WalkInv'
  <2>1. PICK ebx \in 0..Len(walk[p]) : SimulateInt15h(p, ebx)
    BY <1>2 DEF VmExitSolveVmCall
  <2>2. phase = "guest" /\ UNCHANGED boot /\ ebx \in Nat
    BY <1>2 DEF VmExitSolveVmCall
  <2>3. CASE Continuation(ebx) = ebx /\ Answer(p, ebx)
    BY <2>2, <2>3, AnswerKeeps
  <2>4. CASE Fail(ebx)
    BY <2>2, <2>4, FailKeeps
  <2>5. QED
    BY <2>1, <2>3, <2>4 DEF SimulateInt15h
<1>3. CASE phase # "guest" /\ UNCHANGED guest
  <2>1. NobodyAsked' /\ walk' \in [Programs -> Seq(AnyArea)]
    BY <1>3 DEF WalkInv, NobodyAsked, guest
  <2>2. PlaceIsRight' /\ \A p \in Programs : WalkIsRight(p)'
    <3>1. MemoryMap' \in Seq(AnyArea)
      BY DEF MapInv, MapTypes
    <3>2. (NobodyAsked /\ MemoryMap \in Seq(AnyArea) =>
              PlaceIsRight /\ \A p \in Programs : WalkIsRight(p))'
      BY EmptyWalks, PTL
    <3>3. QED
      BY <2>1, <3>1, <3>2
  <2>3. QED
    BY <2>1, <2>2 DEF WalkInv
<1>4. RetrieveInt15Map \/ RetrieveEnds \/ Int15DetermineMemoryMapParameters
      \/ Int15NormalizeMemoryMap \/ PatchMemoryMap
      \/ MapMemoryBeforeHv \/ MapMemoryAfterHv \/ AllocationFails
        => phase # "guest" /\ UNCHANGED guest
  <2>1. RetrieveInt15Map \/ RetrieveEnds => phase # "guest" /\ UNCHANGED guest
    BY DEF RetrieveInt15Map, RetrieveEnds
  <2>2. Int15DetermineMemoryMapParameters => phase # "guest" /\ UNCHANGED guest
    BY DEF Int15DetermineMemoryMapParameters, DetermineEntry, DetermineEnds, InLoop, LoopEnds
  <2>3. Int15NormalizeMemoryMap => phase # "guest" /\ UNCHANGED guest
    BY DEF Int15NormalizeMemoryMap, NormalizeEntry, NormalizeEnds, InLoop, LoopEnds
  <2>4. PatchMemoryMap => phase # "guest" /\ UNCHANGED guest
    BY DEF PatchMemoryMap
  <2>5. MapMemoryBeforeHv \/ MapMemoryAfterHv \/ AllocationFails
          => phase # "guest" /\ UNCHANGED guest
    BY DEF MapMemoryBeforeHv, MapMemoryAfterHv, AllocationFails
  <2>6. QED
    BY <2>1, <2>2, <2>3, <2>4, <2>5
<1>5. QED
  BY <1>1, <1>2, <1>3, <1>4 DEF Next

\* Whatever the programs call in whatever turns: who is answered has the first entries
\* of the map, and all of them if the continuation is 0.
THEOREM WalksFollowTheMap == Spec => []EveryWalkFollowsTheMap
<1>1. Spec => [](MapInv /\ WalkInv)
  BY MapStarts, MapStep, WalkStep, PTL DEF Spec
<1>2. MapInv /\ WalkInv => EveryWalkFollowsTheMap
  <2> SUFFICES ASSUME MapInv, WalkInv, NEW p \in Programs
               PROVE  /\ walk[p] = SubSeq(MemoryMap, 1, Len(walk[p]))
                      /\ p \in done => walk[p] = MemoryMap
    BY DEF EveryWalkFollowsTheMap
  <2>1. CASE phase = "guest"
    BY <2>1 DEF WalkInv, WalkIsRight
  <2>2. CASE phase # "guest"
    BY <2>2, EmptyWalks DEF WalkInv, WalkIsRight, MapInv, MapTypes
  <2>3. QED
    BY <2>1, <2>2
<1>3. QED
  BY <1>1, <1>2, PTL

-------------------------------------------------------------------------------
(* II. The memory types: that the lists of ranges say what the registers say, for any
   registers, any number of them and any memory types, and that the EPT caches
   nothing the processor does not. The argument follows the loops: a turn adds to the
   ranges exactly what the byte or register it reads says (AddsFixed, AddsVariable),
   and putting an entry into its list changes nothing. *)

\* The entry that is not in a list yet counts as one that is.
LEMMA ListedSplit ==
    ASSUME NEW a, NEW t
    PROVE  Listed(a, t) <=> \/ \E e \in MtrrRegions : InRange(e, a) /\ e.MemoryType = t
                            \/ InRange(pNewEntry, a) /\ pNewEntry.MemoryType = t
BY DEF Listed

LEMMA NoEntryIsNone == \A t \in MemoryTypes : NoEntry.MemoryType # t
BY MtrrAssumption DEF NoEntry, MEMORY_TYPE_STRONG_UNCACHEABLE, MEMORY_TYPE_WRITECOMBINE,
   MEMORY_TYPE_WRITETHROUGH, MEMORY_TYPE_WRITEPROTECT, MEMORY_TYPE_WRITEBACK

LEMMA TypeNumbers == MemoryTypes \subseteq {0, 1, 4, 5, 6}
BY MtrrAssumption DEF MEMORY_TYPE_STRONG_UNCACHEABLE, MEMORY_TYPE_WRITECOMBINE,
   MEMORY_TYPE_WRITETHROUGH, MEMORY_TYPE_WRITEPROTECT, MEMORY_TYPE_WRITEBACK

LEMMA PagesAreNat == Pages \subseteq Nat
BY MtrrAssumption DEF Pages

-------------------------------------------------------------------------------
\* One byte of the fixed registers.
LEMMA AddsFixed ==
    ASSUME MtrrInv, TraverseFixed
    PROVE  MtrrInv'
<1> DEFINE type == fixedType[next]
           e    == CurrentEntry(type)
           end  == currentAddress + RegionSize[next]
<1>1. /\ next \in 1..FixedEntries /\ next \in Nat /\ mtrrPhase = "fixed" /\ mtrrPhase' = "fixed"
      /\ currentAddress = FixedBase[next - 1] /\ end = FixedBase[next]
      /\ currentAddress \in Nat /\ end \in Nat /\ currentAddress < end
      /\ currentAddress' = end /\ next' = next + 1
      /\ type \in MemoryTypes
      /\ UNCHANGED <<msrs, eptType>>
    BY MtrrAssumption DEF MtrrInv, MtrrTypeOK, LoopInv, TraverseFixed
<1>2. /\ e \in MtrrEntry /\ e.EndAddress = currentAddress
      /\ e.BaseAddress <= e.EndAddress
      /\ pNewEntry = NoEntry => e = NewEntry(0, 0, type) /\ currentAddress = 0
      /\ pNewEntry # NoEntry => e = pNewEntry
    <2>1. CASE pNewEntry = NoEntry
        <3>1. next = 1 /\ currentAddress = 0 /\ e = NewEntry(0, 0, type)
            BY <1>1, <2>1, MtrrAssumption DEF MtrrInv, LoopInv, CurrentEntry
        <3>2. QED
            BY <1>1, <2>1, <3>1 DEF NewEntry, MtrrEntry
    <2>2. CASE pNewEntry # NoEntry
        <3>1. next > 1 /\ e = pNewEntry
            BY <1>1, <2>2 DEF MtrrInv, LoopInv, CurrentEntry
        <3>2. e \in MtrrEntry /\ e.EndAddress = currentAddress /\ e.BaseAddress < e.EndAddress
            BY <1>1, <2>2, <3>1 DEF MtrrInv, LoopInv, MtrrTypeOK
        <3>3. QED
            BY <2>2, <3>1, <3>2 DEF MtrrEntry
    <2>3. QED
        BY <2>1, <2>2
<1>3. \/ /\ e.MemoryType = type
         /\ pNewEntry' = [e EXCEPT !.EndAddress = end] /\ MtrrRegions' = MtrrRegions
      \/ /\ e.MemoryType # type
         /\ MtrrRegions' = MtrrRegions \union {e}
         /\ pNewEntry' = NewEntry(currentAddress, end, type)
    <2>1. e.EndAddress + RegionSize[next] = end
        BY <1>2
    <2>2. QED
        BY <1>2, <2>1 DEF TraverseFixed, Joins
<1>4. /\ pNewEntry' \in MtrrEntry /\ pNewEntry'.EndAddress = end
      /\ pNewEntry'.BaseAddress < pNewEntry'.EndAddress
      /\ MtrrRegions' \subseteq MtrrEntry
    BY <1>1, <1>2, <1>3 DEF NewEntry, MtrrEntry, MtrrInv, MtrrTypeOK
<1>5. pNewEntry' # NoEntry
    BY <1>4, NoEntryIsNone DEF MtrrEntry
<1>6. MtrrTypeOK'
    BY <1>1, <1>4 DEF MtrrInv, MtrrTypeOK, msrs
<1>7. LoopInv'
    <2>1. FixedRegistersSupport /\ FixedEntries > 0
        BY <1>1 DEF MtrrInv, LoopInv
    <2>2. next' \in 1..(FixedEntries + 1) /\ next' > 1 /\ next' # 1
          /\ currentAddress' = FixedBase[next' - 1]
        BY <1>1, MtrrAssumption
    <2>3. QED
        BY <1>1, <1>4, <1>5, <2>1, <2>2 DEF LoopInv, msrs
<1>8. ASSUME NEW a \in Nat, NEW t \in MemoryTypes
      PROVE  Listed(a, t)' <=> Listed(a, t) \/ (currentAddress <= a /\ a < end /\ t = type)
    <2>1. CASE e.MemoryType = type
        <3>1. pNewEntry' = [e EXCEPT !.EndAddress = end] /\ MtrrRegions' = MtrrRegions
            BY <1>3, <2>1
        <3>2. InRange(pNewEntry, a)' /\ pNewEntry'.MemoryType = t
                <=> e.BaseAddress <= a /\ a < end /\ type = t
            BY <1>2, <2>1, <3>1 DEF InRange, MtrrEntry
        <3>3. CASE pNewEntry = NoEntry
            BY <1>2, <1>8, <3>1, <3>2, <3>3, ListedSplit, NoEntryIsNone DEF Listed, NewEntry, InRange
        <3>4. CASE pNewEntry # NoEntry
            <4>1. e = pNewEntry /\ e.BaseAddress \in Nat
                BY <1>2, <3>4 DEF MtrrEntry
            <4>2. InRange(pNewEntry, a) /\ pNewEntry.MemoryType = t
                    <=> e.BaseAddress <= a /\ a < currentAddress /\ type = t
                BY <1>2, <2>1, <4>1 DEF InRange
            <4>3. e.BaseAddress <= a /\ a < end
                    <=> (e.BaseAddress <= a /\ a < currentAddress) \/ (currentAddress <= a /\ a < end)
                BY <1>1, <1>2, <4>1
            <4>4. QED
                BY <3>1, <3>2, <4>2, <4>3 DEF Listed
        <3>5. QED
            BY <3>3, <3>4
    <2>2. CASE e.MemoryType # type
        <3>1. pNewEntry # NoEntry
            BY <1>2, <2>2 DEF NewEntry
        <3>2. /\ MtrrRegions' = MtrrRegions \union {pNewEntry}
              /\ pNewEntry' = NewEntry(currentAddress, end, type)
            BY <1>2, <1>3, <2>2, <3>1
        <3>3. InRange(pNewEntry, a)' /\ pNewEntry'.MemoryType = t
                <=> currentAddress <= a /\ a < end /\ type = t
            BY <3>2 DEF InRange, NewEntry
        <3>4. QED
            BY <3>2, <3>3 DEF Listed, InRange
    <2>3. QED
        BY <2>1, <2>2
<1>9. ASSUME NEW a \in Nat, NEW t \in MemoryTypes
      PROVE  FixedSays(a, t)' <=> FixedSays(a, t) \/ (currentAddress <= a /\ a < end /\ t = type)
    <2>1. FixedRead = 1..(next - 1) /\ FixedRead' = 1..next
        BY <1>1 DEF FixedRead
    <2>2. \A k : k \in FixedRead' <=> k \in FixedRead \/ k = next
        BY <1>1, <2>1
    <2>3. QED
        BY <1>1, <2>2 DEF FixedSays, msrs
<1>10. \A a, t : ~VariableSays(a, t) /\ ~VariableSays(a, t)'
    BY <1>1 DEF VariableSays, VariableRead
<1>11. TypesFollowRegisters'
    BY <1>1, <1>8, <1>9, <1>10, PagesAreNat DEF TypesFollowRegisters, MtrrInv
<1>12. QED
    BY <1>6, <1>7, <1>11 DEF MtrrInv

\* One valid variable register: joined behind, joined in front, or on its own.
LEMMA AddsVariable ==
    ASSUME MtrrInv, RetrieveVariable
    PROVE  MtrrInv'
<1> DEFINE r    == variable[next]
           base == r.base
           end  == r.end
           e    == IF pNewEntry = NoEntry THEN NewEntry(base, end, r.type) ELSE pNewEntry
<1>1. /\ next \in 1..VariableRegisters /\ next \in Nat
      /\ mtrrPhase = "variable" /\ mtrrPhase' = "variable" /\ next' = next + 1
      /\ r \in VariableContents /\ r.valid
      /\ base \in Nat /\ end \in Nat /\ base < end /\ r.type \in MemoryTypes
      /\ UNCHANGED <<msrs, currentAddress, eptType>>
    BY MtrrAssumption DEF MtrrInv, MtrrTypeOK, LoopInv, RetrieveVariable
<1>2. e \in MtrrEntry /\ e.BaseAddress < e.EndAddress
    <2>1. CASE pNewEntry = NoEntry
        BY <1>1, <2>1 DEF NewEntry, MtrrEntry
    <2>2. CASE pNewEntry # NoEntry
        BY <2>2 DEF MtrrInv, MtrrTypeOK, LoopInv
    <2>3. QED
        BY <2>1, <2>2
<1>3. \/ /\ e.MemoryType = r.type /\ e.EndAddress = base
         /\ pNewEntry' = [e EXCEPT !.EndAddress = end] /\ MtrrRegions' = MtrrRegions
      \/ /\ e.MemoryType = r.type /\ e.BaseAddress = end
         /\ pNewEntry' = [e EXCEPT !.BaseAddress = base] /\ MtrrRegions' = MtrrRegions
      \/ /\ MtrrRegions' = MtrrRegions \union {e}
         /\ pNewEntry' = NewEntry(base, end, r.type)
    BY DEF RetrieveVariable, Joins
<1>4. /\ pNewEntry' \in MtrrEntry /\ pNewEntry'.BaseAddress < pNewEntry'.EndAddress
      /\ MtrrRegions' \subseteq MtrrEntry
    BY <1>1, <1>2, <1>3 DEF NewEntry, MtrrEntry, MtrrInv, MtrrTypeOK
<1>5. MtrrTypeOK'
    BY <1>1, <1>4 DEF MtrrInv, MtrrTypeOK, msrs
<1>6. LoopInv'
    BY <1>1, <1>4, MtrrAssumption DEF LoopInv
<1>7. ASSUME NEW a \in Nat, NEW t \in MemoryTypes
      PROVE  Listed(a, t)' <=> Listed(a, t) \/ (base <= a /\ a < end /\ t = r.type)
    <2>1. \/ pNewEntry = NoEntry /\ e.BaseAddress = base /\ e.EndAddress = end
             /\ e.MemoryType = r.type
          \/ pNewEntry # NoEntry /\ e = pNewEntry
        BY DEF NewEntry
    <2>2. \/ Listed(a, t)
          \/ base <= a /\ a < end /\ t = r.type
          <=> \/ \E f \in MtrrRegions : InRange(f, a) /\ f.MemoryType = t
              \/ InRange(e, a) /\ e.MemoryType = t
              \/ base <= a /\ a < end /\ t = r.type
        BY <2>1, <1>7, ListedSplit, NoEntryIsNone DEF InRange
    <2>3. \/ \E f \in MtrrRegions' : InRange(f, a) /\ f.MemoryType = t
          \/ InRange(pNewEntry', a) /\ pNewEntry'.MemoryType = t
          <=> \/ \E f \in MtrrRegions : InRange(f, a) /\ f.MemoryType = t
              \/ InRange(e, a) /\ e.MemoryType = t
              \/ base <= a /\ a < end /\ t = r.type
        <3>1. e.BaseAddress \in Nat /\ e.EndAddress \in Nat
            BY <1>2 DEF MtrrEntry
        <3>2. CASE /\ e.MemoryType = r.type /\ e.EndAddress = base
                   /\ pNewEntry' = [e EXCEPT !.EndAddress = end] /\ MtrrRegions' = MtrrRegions
            <4>1. InRange(pNewEntry', a) <=> e.BaseAddress <= a /\ a < end
                BY <1>2, <3>2 DEF InRange, MtrrEntry
            <4>2. pNewEntry'.MemoryType = r.type
                BY <1>2, <3>2 DEF MtrrEntry
            <4>3. e.BaseAddress <= a /\ a < end <=> InRange(e, a) \/ (base <= a /\ a < end)
                BY <1>1, <1>2, <3>1, <3>2 DEF InRange
            <4>4. QED
                BY <3>2, <4>1, <4>2, <4>3
        <3>3. CASE /\ e.MemoryType = r.type /\ e.BaseAddress = end
                   /\ pNewEntry' = [e EXCEPT !.BaseAddress = base] /\ MtrrRegions' = MtrrRegions
            <4>1. InRange(pNewEntry', a) <=> base <= a /\ a < e.EndAddress
                BY <1>2, <3>3 DEF InRange, MtrrEntry
            <4>2. pNewEntry'.MemoryType = r.type
                BY <1>2, <3>3 DEF MtrrEntry
            <4>3. base <= a /\ a < e.EndAddress <=> InRange(e, a) \/ (base <= a /\ a < end)
                BY <1>1, <1>2, <3>1, <3>3 DEF InRange
            <4>4. QED
                BY <3>3, <4>1, <4>2, <4>3
        <3>4. CASE /\ MtrrRegions' = MtrrRegions \union {e}
                   /\ pNewEntry' = NewEntry(base, end, r.type)
            <4>1. InRange(pNewEntry', a) /\ pNewEntry'.MemoryType = t
                    <=> base <= a /\ a < end /\ t = r.type
                BY <3>4 DEF InRange, NewEntry
            <4>2. QED
                BY <3>4, <4>1
        <3>5. QED
            BY <1>3, <3>2, <3>3, <3>4
    <2>4. Listed(a, t)' <=> \/ \E f \in MtrrRegions' : InRange(f, a) /\ f.MemoryType = t
                            \/ InRange(pNewEntry', a) /\ pNewEntry'.MemoryType = t
        BY DEF Listed, InRange
    <2>5. QED
        BY <2>2, <2>3, <2>4
<1>8. ASSUME NEW a \in Nat, NEW t \in MemoryTypes
      PROVE  VariableSays(a, t)' <=> VariableSays(a, t) \/ (base <= a /\ a < end /\ t = r.type)
    <2>1. \A i : i \in VariableRead' <=> i \in VariableRead \/ i = next
        BY <1>1 DEF VariableRead
    <2>2. QED
        BY <1>1, <2>1 DEF VariableSays, msrs
<1>9. \A a, t : FixedSays(a, t)' <=> FixedSays(a, t)
    BY <1>1 DEF FixedSays, FixedRead, msrs
<1>10. TypesFollowRegisters'
    BY <1>1, <1>7, <1>8, <1>9, PagesAreNat DEF TypesFollowRegisters, MtrrInv
<1>11. QED
    BY <1>5, <1>6, <1>10 DEF MtrrInv

\* Putting the last entry of a loop into its list changes nothing.
LEMMA PutAway ==
    ASSUME NEW a, NEW t \in MemoryTypes, pNewEntry' = NoEntry,
           \/ MtrrRegions' = MtrrRegions \union {pNewEntry}
           \/ MtrrRegions' = MtrrRegions /\ pNewEntry = NoEntry
    PROVE  Listed(a, t)' <=> Listed(a, t)
<1>1. Listed(a, t)' <=> \/ \E e \in MtrrRegions' : InRange(e, a) /\ e.MemoryType = t
                        \/ InRange(pNewEntry', a) /\ pNewEntry'.MemoryType = t
    BY DEF Listed, InRange
<1>2. QED
    BY <1>1, ListedSplit, NoEntryIsNone

LEMMA EndsFixed ==
    ASSUME MtrrInv, FixedRetrieved
    PROVE  MtrrInv'
<1>1. /\ mtrrPhase = "fixed" /\ mtrrPhase' = "variable" /\ next' = 1 /\ pNewEntry' = NoEntry
      /\ MtrrRegions' = MtrrRegions \union {pNewEntry}
      /\ next = FixedEntries + 1 /\ FixedEntries \in Nat /\ FixedRegistersSupport
      /\ UNCHANGED <<msrs, currentAddress, eptType>>
    BY MtrrAssumption DEF FixedRetrieved, MtrrInv, LoopInv
<1>2. MtrrTypeOK'
    <2>1. pNewEntry # NoEntry
        BY <1>1, MtrrAssumption DEF MtrrInv, LoopInv
    <2>2. QED
        BY <1>1, <2>1 DEF MtrrInv, MtrrTypeOK, msrs
<1>3. LoopInv'
    BY <1>1, MtrrAssumption DEF LoopInv
<1>4. \A a, t : (FixedSays(a, t)' <=> FixedSays(a, t)) /\ ~VariableSays(a, t) /\ ~VariableSays(a, t)'
    <2>1. FixedRead' = FixedRead /\ VariableRead = {} /\ VariableRead' = {}
        BY <1>1 DEF FixedRead, VariableRead, msrs
    <2>2. QED
        BY <1>1, <2>1 DEF FixedSays, VariableSays, msrs
<1>5. TypesFollowRegisters'
    BY <1>1, <1>4, PutAway DEF TypesFollowRegisters, MtrrInv
<1>6. QED
    BY <1>2, <1>3, <1>5 DEF MtrrInv

LEMMA EndsVariable ==
    ASSUME MtrrInv, VariableRetrieved
    PROVE  MtrrInv'
<1>1. /\ mtrrPhase = "variable" /\ mtrrPhase' \in {"map", "initFailed", "assertFailed"}
      /\ pNewEntry' = NoEntry /\ next = VariableRegisters + 1 /\ VariableRegisters \in Nat
      /\ \/ MtrrRegions' = MtrrRegions \union {pNewEntry} /\ pNewEntry # NoEntry
         \/ MtrrRegions' = MtrrRegions /\ pNewEntry = NoEntry
      /\ UNCHANGED <<msrs, currentAddress, next, eptType>>
    BY MtrrAssumption DEF VariableRetrieved, MtrrInv, LoopInv
<1>2. MtrrTypeOK'
    BY <1>1 DEF MtrrInv, MtrrTypeOK, msrs
<1>3. LoopInv'
    BY <1>1 DEF LoopInv
<1>4. \A a, t : (FixedSays(a, t)' <=> FixedSays(a, t)) /\ (VariableSays(a, t)' <=> VariableSays(a, t))
    <2>1. FixedRead' = FixedRead /\ VariableRead' = VariableRead
        BY <1>1 DEF FixedRead, VariableRead, msrs
    <2>2. QED
        BY <1>1, <2>1 DEF FixedSays, VariableSays, msrs
<1>5. TypesFollowRegisters'
    BY <1>1, <1>4, PutAway DEF TypesFollowRegisters, MtrrInv
<1>6. QED
    BY <1>2, <1>3, <1>5 DEF MtrrInv

LEMMA SkipsInvalid ==
    ASSUME MtrrInv, SkipInvalid
    PROVE  MtrrInv'
<1>1. /\ mtrrPhase = "variable" /\ mtrrPhase' = "variable" /\ next' = next + 1
      /\ next \in 1..VariableRegisters /\ next \in Nat /\ ~variable[next].valid
      /\ UNCHANGED <<msrs, MtrrRegions, pNewEntry, currentAddress, eptType>>
    BY MtrrAssumption DEF SkipInvalid, MtrrInv, LoopInv
<1>2. MtrrTypeOK' /\ LoopInv'
    BY <1>1, MtrrAssumption DEF MtrrInv, MtrrTypeOK, LoopInv, msrs
<1>3. \A a, t : /\ Listed(a, t)' <=> Listed(a, t)
                /\ FixedSays(a, t)' <=> FixedSays(a, t)
                /\ VariableSays(a, t)' <=> VariableSays(a, t)
    <2>1. \A i : i \in VariableRead' <=> i \in VariableRead \/ i = next
        BY <1>1 DEF VariableRead
    <2>2. QED
        BY <1>1, <2>1 DEF Listed, InRange, FixedSays, FixedRead, VariableSays, msrs
<1>4. TypesFollowRegisters'
    BY <1>1, <1>3 DEF TypesFollowRegisters, MtrrInv
<1>5. QED
    BY <1>2, <1>4 DEF MtrrInv

LEMMA FailsToAllocate ==
    ASSUME MtrrInv, EntryAllocationFails
    PROVE  MtrrInv'
<1>1. /\ mtrrPhase' = "initFailed"
      /\ UNCHANGED <<msrs, MtrrRegions, pNewEntry, currentAddress, next, eptType>>
    BY DEF EntryAllocationFails
<1>2. MtrrTypeOK' /\ LoopInv'
    BY <1>1 DEF MtrrInv, MtrrTypeOK, LoopInv, msrs
<1>3. TypesFollowRegisters'
    BY <1>1 DEF TypesFollowRegisters
<1>4. QED
    BY <1>2, <1>3 DEF MtrrInv

\* Mapping a page gives it one of two types and leaves the lists alone.
LEMMA MapsRange ==
    ASSUME MtrrInv, NEW call \in MapCalls, GuestMapMemoryRangeTyped(call)
    PROVE  MtrrInv'
<1>1. /\ mtrrPhase = "map" /\ mtrrPhase' = "map"
      /\ UNCHANGED <<msrs, MtrrRegions, pNewEntry, currentAddress, next>>
    BY DEF GuestMapMemoryRangeTyped
<1>2. eptType' \in [Pages -> {MEMORY_TYPE_STRONG_UNCACHEABLE, MEMORY_TYPE_WRITEBACK, NotMapped}]
    <2>1. \A p \in Pages : MapPage(p) \in
              {MEMORY_TYPE_STRONG_UNCACHEABLE, MEMORY_TYPE_WRITEBACK, NotMapped}
        BY DEF MtrrInv, MtrrTypeOK, MapPage
    <2>2. QED
        BY <2>1 DEF GuestMapMemoryRangeTyped, MtrrInv, MtrrTypeOK
<1>3. MtrrTypeOK' /\ LoopInv'
    BY <1>1, <1>2 DEF MtrrInv, MtrrTypeOK, LoopInv, msrs
<1>4. \A a, t : /\ Listed(a, t)' <=> Listed(a, t)
                /\ FixedSays(a, t)' <=> FixedSays(a, t)
                /\ VariableSays(a, t)' <=> VariableSays(a, t)
    BY <1>1 DEF Listed, InRange, FixedSays, FixedRead, VariableSays, VariableRead, msrs
<1>5. TypesFollowRegisters'
    BY <1>1, <1>4 DEF TypesFollowRegisters, MtrrInv
<1>6. QED
    BY <1>3, <1>5 DEF MtrrInv

LEMMA StartsEmpty ==
    ASSUME MtrrInit
    PROVE  MtrrInv
<1>1. /\ MtrrRegions = {} /\ pNewEntry = NoEntry /\ next = 1 /\ currentAddress = 0
      /\ mtrrPhase = IF FixedRegistersSupport /\ FixedEntries > 0 THEN "fixed" ELSE "variable"
    BY DEF MtrrInit
<1>2. MtrrTypeOK
    BY <1>1 DEF MtrrInit, MtrrTypeOK
<1>3. LoopInv
    BY <1>1, MtrrAssumption DEF LoopInv
<1>4. FixedRead = {} /\ VariableRead = {}
    BY <1>1, MtrrAssumption DEF FixedRead, VariableRead, MtrrInit
<1>5. \A a, t : ~FixedSays(a, t) /\ ~VariableSays(a, t)
    BY <1>4 DEF FixedSays, VariableSays
<1>6. \A a : \A t \in MemoryTypes : ~Listed(a, t)
    BY <1>1, NoEntryIsNone DEF Listed
<1>7. TypesFollowRegisters
    BY <1>5, <1>6 DEF TypesFollowRegisters
<1>8. QED
    BY <1>2, <1>3, <1>7 DEF MtrrInv

LEMMA MtrrStep ==
    ASSUME MtrrInv, [MtrrNext]_mtrrVars
    PROVE  MtrrInv'
<1>1. CASE UNCHANGED mtrrVars
    <2>1. UNCHANGED <<FixedRegistersSupport, fixedType, variable, DefaultMemoryType, MtrrRegions,
                      pNewEntry, currentAddress, next, mtrrPhase, eptType>>
        BY <1>1 DEF mtrrVars, msrs
    <2>2. MtrrTypeOK' /\ LoopInv'
        BY <2>1 DEF MtrrInv, MtrrTypeOK, LoopInv
    <2>3. TypesFollowRegisters'
        BY <2>1 DEF MtrrInv, TypesFollowRegisters, Listed, InRange, FixedSays, FixedRead,
           VariableSays, VariableRead
    <2>4. QED
        BY <2>2, <2>3 DEF MtrrInv
<1>2. QED
    BY <1>1, AddsFixed, EndsFixed, SkipsInvalid, AddsVariable, EndsVariable, FailsToAllocate,
       MapsRange DEF MtrrNext

\* At every turn of the two loops an address is listed with a type if and only if a
\* register that has been read gives it that type, whatever firmware has programmed
\* (mtrr.c:240-300, 347-373).
THEOREM ListsFollowRegisters == MtrrSpec => []MtrrInv
BY StartsEmpty, MtrrStep, PTL DEF MtrrSpec

-------------------------------------------------------------------------------
\* What the EPT caches was found to be write-back, in lists that are complete.
EptFollowsLists ==
    \A p \in Pages : eptType[p] = MEMORY_TYPE_WRITEBACK =>
        mtrrPhase = "map" /\ MtrrFindPhysicalAddressMemoryType(p) = MEMORY_TYPE_WRITEBACK

LEMMA EptStep ==
    ASSUME MtrrInv, EptFollowsLists, [MtrrNext]_mtrrVars
    PROVE  EptFollowsLists'
<1>1. CASE mtrrPhase = "map"
    <2>1. /\ mtrrPhase' = "map"
          /\ UNCHANGED <<MtrrRegions, DefaultMemoryType>>
          /\ \/ UNCHANGED eptType
             \/ \E call \in MapCalls : eptType' =
                    [p \in DOMAIN eptType |->
                        IF call.base <= p /\ p < call.end THEN MapPage(p) ELSE eptType[p]]
        BY <1>1 DEF MtrrNext, mtrrVars, msrs, TraverseFixed, FixedRetrieved, SkipInvalid,
           RetrieveVariable, VariableRetrieved, EntryAllocationFails, GuestMapMemoryRangeTyped
    <2>2. \A p : MtrrFindPhysicalAddressMemoryType(p)' = MtrrFindPhysicalAddressMemoryType(p)
        BY <2>1 DEF MtrrFindPhysicalAddressMemoryType, InRange
    <2>3. ASSUME NEW p \in Pages, eptType'[p] = MEMORY_TYPE_WRITEBACK
          PROVE  MtrrFindPhysicalAddressMemoryType(p) = MEMORY_TYPE_WRITEBACK
        <3>1. DOMAIN eptType = Pages
            BY DEF MtrrInv, MtrrTypeOK
        <3>2. eptType'[p] = eptType[p] \/ eptType'[p] = MapPage(p)
            BY <2>1, <3>1
        <3>3. CASE eptType[p] = MEMORY_TYPE_WRITEBACK
            BY <3>3 DEF EptFollowsLists
        <3>4. CASE eptType'[p] = MapPage(p) /\ eptType[p] # MEMORY_TYPE_WRITEBACK
            BY <2>3, <3>4 DEF MapPage, MEMORY_TYPE_WRITEBACK, MEMORY_TYPE_STRONG_UNCACHEABLE
        <3>5. QED
            BY <2>3, <3>2, <3>3, <3>4
    <2>4. QED
        BY <2>1, <2>2, <2>3 DEF EptFollowsLists
<1>2. CASE mtrrPhase # "map"
    <2>1. UNCHANGED eptType
        BY <1>2 DEF MtrrNext, mtrrVars, TraverseFixed, FixedRetrieved, SkipInvalid,
           RetrieveVariable, VariableRetrieved, EntryAllocationFails, GuestMapMemoryRangeTyped
    <2>2. QED
        BY <1>2, <2>1 DEF EptFollowsLists
<1>3. QED
    BY <1>1, <1>2

\* The search returns the least type of the entries that cover the address: when
\* that is write-back, no other type is listed.
LEMMA FoundWriteBack ==
    ASSUME MtrrInv, mtrrPhase = "map", NEW p \in Pages,
           MtrrFindPhysicalAddressMemoryType(p) = MEMORY_TYPE_WRITEBACK
    PROVE  /\ \A t \in MemoryTypes : Listed(p, t) => t = MEMORY_TYPE_WRITEBACK
           /\ \/ Listed(p, MEMORY_TYPE_WRITEBACK) /\ MEMORY_TYPE_WRITEBACK \in MemoryTypes
              \/ DefaultMemoryType = MEMORY_TYPE_WRITEBACK
<1> DEFINE types == {e.MemoryType : e \in {r \in MtrrRegions : InRange(r, p)}}
<1>1. pNewEntry = NoEntry /\ MtrrRegions \subseteq MtrrEntry
    BY DEF MtrrInv, MtrrTypeOK, LoopInv
<1>2. types \subseteq MemoryTypes
    BY <1>1 DEF MtrrEntry
<1>3. \A t \in MemoryTypes : Listed(p, t) <=> t \in types
    BY <1>1, NoEntryIsNone DEF Listed
<1>4. CASE types = {}
    BY <1>3, <1>4 DEF MtrrFindPhysicalAddressMemoryType
<1>5. CASE types # {}
    <2>1. \E t \in types : \A u \in types : t <= u
        <3>1. types \subseteq {0, 1, 4, 5, 6}
            BY <1>2, TypeNumbers
        <3>2. CASE 0 \in types
            BY <3>1, <3>2
        <3>3. CASE 0 \notin types /\ 1 \in types
            BY <3>1, <3>3
        <3>4. CASE 0 \notin types /\ 1 \notin types /\ 4 \in types
            BY <3>1, <3>4
        <3>5. CASE 0 \notin types /\ 1 \notin types /\ 4 \notin types /\ 5 \in types
            BY <3>1, <3>5
        <3>6. CASE types = {6}
            BY <3>6
        <3>7. QED
            BY <1>5, <3>1, <3>2, <3>3, <3>4, <3>5, <3>6
    <2>2. MtrrFindPhysicalAddressMemoryType(p) = CHOOSE t \in types : \A u \in types : t <= u
        BY <1>5 DEF MtrrFindPhysicalAddressMemoryType
    <2>3. /\ MEMORY_TYPE_WRITEBACK \in types
          /\ \A u \in types : MEMORY_TYPE_WRITEBACK <= u
        BY <2>1, <2>2
    <2>4. ASSUME NEW u \in types
          PROVE  u = MEMORY_TYPE_WRITEBACK
        <3>1. u \in {0, 1, 4, 5, 6}
            BY <1>2, TypeNumbers
        <3>2. 6 <= u
            BY <2>3 DEF MEMORY_TYPE_WRITEBACK
        <3>3. QED
            BY <3>1, <3>2 DEF MEMORY_TYPE_WRITEBACK
    <2>5. QED
        BY <1>2, <1>3, <2>3, <2>4
<1>6. QED
    BY <1>4, <1>5

LEMMA WriteBackFollows ==
    ASSUME MtrrInv, EptFollowsLists
    PROVE  WriteBackIsWriteBack
<1> SUFFICES ASSUME NEW p \in Pages, eptType[p] = MEMORY_TYPE_WRITEBACK
             PROVE  ProcessorTypes(p) = {MEMORY_TYPE_WRITEBACK}
    BY DEF WriteBackIsWriteBack
<1> DEFINE WB == MEMORY_TYPE_WRITEBACK
<1>1. mtrrPhase = "map" /\ MtrrFindPhysicalAddressMemoryType(p) = WB
    BY DEF EptFollowsLists
<1>2. /\ \A t \in MemoryTypes : Listed(p, t) => t = WB
      /\ (Listed(p, WB) /\ WB \in MemoryTypes) \/ DefaultMemoryType = WB
    BY <1>1, FoundWriteBack
<1>3. \A t \in MemoryTypes : Listed(p, t) <=> FixedSays(p, t) \/ VariableSays(p, t)
    BY <1>1 DEF MtrrInv, TypesFollowRegisters
<1>4. /\ FixedRead = IF FixedRegistersSupport THEN 1..FixedEntries ELSE {}
      /\ VariableRead = 1..VariableRegisters
    BY <1>1, MtrrAssumption DEF FixedRead, VariableRead, MtrrInv, LoopInv
<1>5. /\ fixedType \in [1..FixedEntries -> MemoryTypes] /\ DefaultMemoryType \in MemoryTypes
      /\ p \in Nat /\ FixedBase[FixedEntries] \in Nat
    BY MtrrAssumption, PagesAreNat DEF MtrrInv, MtrrTypeOK
<1>6. CASE FixedRegistersSupport /\ p < FixedBase[FixedEntries]
    <2>1. PICK k \in 1..FixedEntries : FixedBase[k - 1] <= p /\ p < FixedBase[k]
        <3>1. p \in 0..(FixedBase[FixedEntries] - 1)
            BY <1>5, <1>6
        <3>2. \A a \in 0..(FixedBase[FixedEntries] - 1) :
                  \E k \in 1..FixedEntries : FixedBase[k - 1] <= a /\ a < FixedBase[k]
            BY MtrrAssumption
        <3>3. QED
            BY <3>1, <3>2
    <2>2. fixedType[k] \in MemoryTypes /\ FixedSays(p, fixedType[k])
        BY <1>4, <1>5, <1>6, <2>1 DEF FixedSays
    <2>3. fixedType[k] = WB
        BY <1>2, <1>3, <2>2
    <2>4. \A t \in MemoryTypes : FixedSays(p, t) <=> t = WB
        BY <1>2, <1>3, <2>2, <2>3
    <2>5. ProcessorTypes(p) = {t \in MemoryTypes : FixedSays(p, t)}
        BY <1>4, <1>6 DEF ProcessorTypes, FixedSays
    <2>6. QED
        BY <2>2, <2>3, <2>4, <2>5
<1>7. CASE ~(FixedRegistersSupport /\ p < FixedBase[FixedEntries])
    <2>1. \A t : ~FixedSays(p, t)
        BY <1>4, <1>5, <1>7, MtrrAssumption DEF FixedSays
    <2>2. VariableTypes(p) = {t \in MemoryTypes : VariableSays(p, t)}
        BY <1>4 DEF VariableTypes, VariableSays
    <2>3. VariableTypes(p) \subseteq {WB}
        BY <1>2, <1>3, <2>2
    <2>4. CASE VariableTypes(p) = {}
        BY <1>2, <1>3, <1>7, <2>1, <2>2, <2>4 DEF ProcessorTypes
    <2>5. CASE VariableTypes(p) = {WB}
        BY <1>7, <2>5 DEF ProcessorTypes, MEMORY_TYPE_WRITEBACK, MEMORY_TYPE_STRONG_UNCACHEABLE,
           MEMORY_TYPE_WRITETHROUGH
    <2>6. QED
        BY <2>3, <2>4, <2>5
<1>8. QED
    BY <1>6, <1>7

\* No page of the guest is cached that the processor's registers do not let be
\* cached, for any registers, fixed or variable, overlapping or not
\* (vmguest.c:604-645, mtrr.c:400-440).
THEOREM EptCachesNoDevice == MtrrSpec => []WriteBackIsWriteBack
<1>1. MtrrInit => EptFollowsLists
    BY DEF MtrrInit, EptFollowsLists, MEMORY_TYPE_WRITEBACK, NotMapped
<1>2. MtrrInv /\ EptFollowsLists /\ [MtrrNext]_mtrrVars => EptFollowsLists'
    BY EptStep
<1>3. MtrrInv /\ EptFollowsLists => WriteBackIsWriteBack
    BY WriteBackFollows
<1>4. QED
    BY <1>1, <1>2, <1>3, ListsFollowRegisters, PTL DEF MtrrSpec

-------------------------------------------------------------------------------
(* III. The capabilities: that a processor which reaches the launch has written control
   fields the VM entry accepts, for any number of processors and any contents of the
   MSRs. *)

\* The capabilities as VmxConfigurationData holds them once they are read.
MayBeZero(f) ==
    IF f = "cr0" /\ UnrestrictedGuest \in msr.may["secondary"] THEN {CR0_PE, CR0_PG} ELSE {}
Read(f) ==
    LET zero == (Bits \ msr.must[f]) \union MayBeZero(f)
    IN [zero |-> zero, one |-> msr.may[f], flexible |-> zero \intersect msr.may[f]]

\* What every processor writes: what is wanted and may be, and what must be.
Adjusted(f, wanted) == msr.may[f] \intersect (wanted \union (msr.must[f] \ MayBeZero(f)))
PinValue == Adjusted("pin", Wanted["pin"])
Final(f) ==
    Adjusted(f, Wanted[f] \union
                    IF f = "exit" /\ PreemptTimer \in PinValue THEN {SaveTimer} ELSE {})

CapabilitiesRead == \A f \in Before[toRetrieve] : capabilities[f] = Read(f)
Asserted == ~panic => \A f \in Before[toRetrieve] : Suffices(f)
FieldsWritten == \A c \in Processors : \A f \in Before[toWrite[c]] : vmcs[c][f] = Final(f)
PinIsChosen ==
    \A c \in Processors : toWrite[c] # "pin" =>
        toRetrieve = Done /\ ChosenValue["pin"] = PinValue

ControlsInv ==
    ControlsTypeOK /\ CapabilitiesRead /\ Asserted /\ FieldsWritten /\ PinIsChosen

-------------------------------------------------------------------------------
(* The order of the fields: what comes before the next one is what came before this
   one, and this one. *)
LEMMA Order ==
    /\ \A f \in Fields : Before[Following[f]] = Before[f] \union {f}
    /\ \A f \in Fields : Following[f] \in Fields \union {Done} /\ Following[f] # "pin"
    /\ \A f \in Fields \union {Done} : Before[f] \subseteq Fields
    /\ \A f \in Fields : f # "pin" => "pin" \in Before[f]
    /\ "secondary" \in Before["cr0"] /\ Before[Done] = Fields /\ Before["pin"] = {}
    /\ Done \notin Fields
  BY DEF Before, Following, Fields, Done

\* What the assumption says of the MSRs a behaviour has.
LEMMA TheMsrs ==
    ASSUME ControlsTypeOK, NEW f \in Fields
    PROVE  /\ msr.must[f] \subseteq msr.may[f] /\ msr.may[f] \subseteq Bits
           /\ Wanted[f] \subseteq Bits
           /\ SaveTimer \notin msr.must["exit"]
           /\ CR0_PE \in Bits /\ CR0_PG \in Bits /\ SaveTimer \in Bits
  BY ControlsAssumption DEF ControlsTypeOK

\* _VmxCapabilityCheckControls keeps what is wanted and may be 1, and adds what must
\* be: the two masks of vmx_capability.c:286-292 do what their comments say.
LEMMA ChecksAreRight ==
    ASSUME ControlsTypeOK, NEW f \in Fields, capabilities[f] = Read(f),
           NEW wanted \in SUBSET Bits
    PROVE  CheckControls(f, wanted) = Adjusted(f, wanted)
<1>1. msr.must[f] \subseteq msr.may[f] /\ msr.may[f] \subseteq Bits
  BY TheMsrs
<1> DEFINE zero == (Bits \ msr.must[f]) \union MayBeZero(f)
           flexible == zero \intersect msr.may[f]
           ones == wanted \union ((Bits \ flexible) \intersect msr.may[f])
<1>2. CheckControls(f, wanted) = ones \intersect Xor(flexible, Bits \ zero)
  BY DEF CheckControls, Read
<1>3. MayBeZero(f) \subseteq Bits
  BY TheMsrs DEF MayBeZero
<1>4. ones \intersect Xor(flexible, Bits \ zero) = Adjusted(f, wanted)
  <2> HIDE DEF MayBeZero
  <2> QED BY <1>1, <1>3 DEF Xor, Adjusted, MayBeZero
<1> QED BY <1>2, <1>4

LEMMA CapabilityIsRight ==
    ASSUME ControlsInv, toRetrieve \in Fields
    PROVE  Capability(toRetrieve) = Read(toRetrieve)
<1>1. toRetrieve = "cr0" => capabilities["secondary"] = Read("secondary")
  BY Order DEF ControlsInv, CapabilitiesRead
<1>2. Read("secondary").one = msr.may["secondary"]
  BY DEF Read
<1>3. Relaxed(toRetrieve) = MayBeZero(toRetrieve)
  BY <1>1, <1>2 DEF Relaxed, MayBeZero
<1> QED BY <1>3 DEF Capability, Read

-------------------------------------------------------------------------------
LEMMA ControlsInvInit == ControlsInit => ControlsInv
<1> SUFFICES ASSUME ControlsInit PROVE ControlsInv
  OBVIOUS
<1>1. NoCapability \in [zero : SUBSET Bits, one : SUBSET Bits, flexible : SUBSET Bits]
  BY DEF NoCapability
<1>2. ControlsTypeOK
  BY <1>1 DEF ControlsInit, ControlsTypeOK, Fields
<1>3. Before[toRetrieve] = {} /\ \A c \in Processors : toWrite[c] = "pin"
  BY Order DEF ControlsInit
<1>4. CapabilitiesRead /\ Asserted
  BY <1>3 DEF CapabilitiesRead, Asserted
<1>5. FieldsWritten /\ PinIsChosen
  BY <1>3, Order DEF FieldsWritten, PinIsChosen
<1> QED BY <1>2, <1>4, <1>5 DEF ControlsInv

LEMMA ReadKeepsInv == ControlsInv /\ VmxRetrieveCapabilities => ControlsInv'
<1> SUFFICES ASSUME ControlsInv, VmxRetrieveCapabilities PROVE ControlsInv'
  OBVIOUS
<1> DEFINE f == toRetrieve
<1>1. f \in Fields
  BY DEF ControlsInv, ControlsTypeOK, VmxRetrieveCapabilities
<1>2. capabilities' = [capabilities EXCEPT ![f] = Read(f)]
  BY <1>1, CapabilityIsRight DEF VmxRetrieveCapabilities
<1>3. /\ toRetrieve' = Following[f] /\ Before[toRetrieve'] = Before[f] \union {f}
      /\ toRetrieve' \in Fields \union {Done}
  BY <1>1, Order DEF VmxRetrieveCapabilities
<1>4. /\ UNCHANGED <<msr, ChosenValue, vmcs, toWrite>> /\ f # Done
      /\ ~panic /\ panic' = ~Suffices(f)
  BY DEF VmxRetrieveCapabilities
<1>5. \A g \in Fields : Read(g)' = Read(g) /\ (Suffices(g)' <=> Suffices(g))
  BY <1>4 DEF Read, MayBeZero, Suffices
<1>6. Read(f) \in [zero : SUBSET Bits, one : SUBSET Bits, flexible : SUBSET Bits]
  BY <1>1, TheMsrs DEF Read, MayBeZero, ControlsInv
<1>7. ControlsTypeOK'
  BY <1>1, <1>2, <1>3, <1>4, <1>6 DEF ControlsInv, ControlsTypeOK
<1>8. CapabilitiesRead'
  BY <1>1, <1>2, <1>3, <1>5, Order DEF ControlsInv, ControlsTypeOK, CapabilitiesRead
<1>9. Asserted'
  BY <1>1, <1>3, <1>4, <1>5, Order DEF ControlsInv, Asserted
<1>10. \A c \in Processors : toWrite[c] = "pin"
  BY <1>4 DEF ControlsInv, PinIsChosen
<1>11. FieldsWritten' /\ PinIsChosen'
  BY <1>4, <1>10, Order DEF FieldsWritten, PinIsChosen
<1> QED BY <1>7, <1>8, <1>9, <1>11 DEF ControlsInv

LEMMA WriteKeepsInv ==
    ASSUME ControlsInv, NEW c \in Processors, WriteControls(c) PROVE ControlsInv'
<1> DEFINE f == toWrite[c]
           value == CheckControls(f, Wish(f))
<1>1. f \in Fields /\ toRetrieve = Done /\ ~panic
  BY DEF ControlsInv, ControlsTypeOK, WriteControls
<1>2. /\ vmcs' = [vmcs EXCEPT ![c] = [@ EXCEPT ![f] = value]]
      /\ ChosenValue' = [ChosenValue EXCEPT ![f] = value]
      /\ toWrite' = [toWrite EXCEPT ![c] = Following[f]]
      /\ panic' = NotReached(f, value) /\ UNCHANGED <<msr, capabilities, toRetrieve>>
  BY DEF WriteControls
<1>3. capabilities[f] = Read(f)
  BY <1>1, Order DEF ControlsInv, CapabilitiesRead
<1>4. f # "pin" => ChosenValue["pin"] = PinValue
  BY DEF ControlsInv, PinIsChosen
<1>5. Wish(f) \in SUBSET Bits
  BY <1>1, TheMsrs DEF Wish, ControlsInv
<1>6. value = Adjusted(f, Wish(f))
  BY <1>1, <1>3, <1>5, ChecksAreRight DEF ControlsInv
<1>7. value = Final(f)
  BY <1>4, <1>6 DEF Wish, Final
<1>8. value \in SUBSET Bits
  BY <1>1, <1>6, TheMsrs DEF Adjusted, ControlsInv
<1>9. Following[f] \in Fields \union {Done} /\ Following[f] # "pin"
      /\ Before[Following[f]] = Before[f] \union {f}
  BY <1>1, Order
<1>10. \A g \in Fields : Final(g)' = Final(g) /\ Read(g)' = Read(g)
                         /\ (Suffices(g)' <=> Suffices(g))
  BY <1>2 DEF Final, Adjusted, PinValue, MayBeZero, Read, Suffices
<1>11. PinValue' = PinValue /\ (f = "pin" => value = PinValue)
  BY <1>2, <1>7 DEF PinValue, Adjusted, MayBeZero, Final
<1>12. ControlsTypeOK'
  BY <1>1, <1>2, <1>8, <1>9 DEF ControlsInv, ControlsTypeOK, NotReached
<1>13. CapabilitiesRead' /\ Asserted'
  BY <1>1, <1>2, <1>10, Order DEF ControlsInv, CapabilitiesRead, Asserted
<1>14. FieldsWritten'
  <2> SUFFICES ASSUME NEW d \in Processors, NEW g \in Before[toWrite'[d]]
               PROVE  vmcs'[d][g] = Final(g)
    <3>1. \A d \in Processors : \A g \in Before[toWrite'[d]] : g \in Fields
      BY <1>12, Order DEF ControlsTypeOK
    <3> QED BY <3>1, <1>10 DEF FieldsWritten
  <2>1. toWrite \in [Processors -> Fields \union {Done}] /\ c \in DOMAIN vmcs
        /\ vmcs[c] \in [Fields -> SUBSET Bits]
    BY DEF ControlsInv, ControlsTypeOK
  <2>2. CASE d # c
    BY <2>1, <2>2, <1>2 DEF ControlsInv, ControlsTypeOK, FieldsWritten
  <2>3. CASE d = c /\ g = f
    BY <2>1, <2>3, <1>1, <1>2, <1>7 DEF ControlsInv, ControlsTypeOK
  <2>4. CASE d = c /\ g # f
    <3>1. g \in Before[toWrite[c]] /\ g \in Fields
      BY <2>1, <2>4, <1>1, <1>2, <1>9, Order
    <3>2. vmcs[c][g] = Final(g)
      BY <3>1 DEF ControlsInv, FieldsWritten
    <3> QED BY <2>1, <2>4, <3>1, <3>2, <1>2
  <2> QED BY <2>2, <2>3, <2>4
<1>15. PinIsChosen'
  <2>1. ChosenValue'["pin"] = PinValue
    BY <1>1, <1>2, <1>4, <1>11 DEF ControlsInv, ControlsTypeOK, Fields
  <2> QED BY <2>1, <1>1, <1>2, <1>11 DEF PinIsChosen
<1> QED BY <1>12, <1>13, <1>14, <1>15 DEF ControlsInv

-------------------------------------------------------------------------------
\* A launch finds every field in its final form.
LEMMA FinalIsAccepted ==
    ASSUME ControlsInv PROVE GuestCanStart
<1> SUFFICES ASSUME NEW c \in Processors, Launches(c)
             PROVE  /\ \A f \in Fields : /\ Required(c, f) \subseteq vmcs[c][f]
                                         /\ vmcs[c][f] \subseteq msr.may[f]
                                         /\ Wanted[f] \intersect msr.may[f] \subseteq vmcs[c][f]
                    /\ SaveTimer \in vmcs[c]["exit"] => PreemptTimer \in vmcs[c]["pin"]
                    /\ ActivateSecondary \in vmcs[c]["primary"]
                    /\ {EnableEpt, UnrestrictedGuest} \subseteq vmcs[c]["secondary"]
                    /\ CR0_PE \notin vmcs[c]["cr0"] /\ CR0_PG \notin vmcs[c]["cr0"]
  BY DEF GuestCanStart, EntryAccepts, GuestAsWanted
<1>1. \A f \in Fields : vmcs[c][f] = Final(f)
  BY Order DEF ControlsInv, FieldsWritten, Launches
<1>2. /\ ActivateSecondary \in msr.may["primary"]
      /\ {EnableEpt, UnrestrictedGuest} \subseteq msr.may["secondary"]
  BY Order DEF ControlsInv, Asserted, Launches, Suffices, Fields
<1>3. MayBeZero("cr0") = {CR0_PE, CR0_PG}
  BY <1>2 DEF MayBeZero
<1>4. /\ ActivateSecondary \in vmcs[c]["primary"]
      /\ {EnableEpt, UnrestrictedGuest} \subseteq vmcs[c]["secondary"]
  BY <1>1, <1>2, ControlsAssumption DEF Final, Adjusted, Fields
<1>5. CR0_PE \notin vmcs[c]["cr0"] /\ CR0_PG \notin vmcs[c]["cr0"]
  BY <1>1, <1>3, ControlsAssumption DEF Final, Adjusted, Fields
<1>6. SaveTimer \in vmcs[c]["exit"] => PreemptTimer \in vmcs[c]["pin"]
  <2>1. SaveTimer \notin Wanted["exit"] /\ SaveTimer \notin msr.must["exit"]
    BY ControlsAssumption DEF ControlsInv, ControlsTypeOK
  <2>2. vmcs[c]["exit"] = Final("exit") /\ vmcs[c]["pin"] = PinValue
    BY <1>1 DEF Fields, Final, PinValue, Adjusted
  <2> QED BY <2>1, <2>2 DEF Final, Adjusted
<1>7. ASSUME NEW f \in Fields
      PROVE  /\ Required(c, f) \subseteq vmcs[c][f]
             /\ vmcs[c][f] \subseteq msr.may[f]
             /\ Wanted[f] \intersect msr.may[f] \subseteq vmcs[c][f]
  <2>1. vmcs[c][f] = Final(f) /\ msr.must[f] \subseteq msr.may[f]
    BY <1>1, TheMsrs DEF ControlsInv
  <2>2. Required(c, f) = msr.must[f] \ MayBeZero(f)
    BY <1>2, <1>4 DEF Required, MayBeZero
  <2> QED BY <2>1, <2>2 DEF Final, Adjusted
<1> QED BY <1>4, <1>5, <1>6, <1>7

\* Whatever the capability MSRs hold and however the processors' writes interleave, the
\* fields of a processor that reaches the launch are ones the VM entry accepts, and are
\* the ones MiniHV needs (VmcsInitializeRegion, VmxRetrieveCapabilities).
THEOREM ControlsAreAccepted == ControlsSpec => []GuestCanStart
<1>1. ControlsInv /\ [ControlsNext]_controlsVars => ControlsInv'
  <2> SUFFICES ASSUME ControlsInv, [ControlsNext]_controlsVars PROVE ControlsInv'
    OBVIOUS
  <2>1. CASE VmxRetrieveCapabilities
    BY <2>1, ReadKeepsInv
  <2>2. ASSUME NEW c \in Processors, WriteControls(c) PROVE ControlsInv'
    BY <2>2, WriteKeepsInv
  <2>3. CASE UNCHANGED controlsVars
    <3>1. msr' = msr /\ capabilities' = capabilities /\ toRetrieve' = toRetrieve
          /\ ChosenValue' = ChosenValue /\ vmcs' = vmcs /\ toWrite' = toWrite /\ panic' = panic
      BY <2>3 DEF controlsVars
    <3>2. \A f : Read(f)' = Read(f)
      BY <3>1 DEF Read, MayBeZero
    <3>3. PinValue' = PinValue /\ \A f : Final(f)' = Final(f)
      BY <3>1 DEF Final, PinValue, Adjusted, MayBeZero
    <3>4. ControlsTypeOK'
      BY <3>1 DEF ControlsInv, ControlsTypeOK
    <3>5. CapabilitiesRead'
      BY <3>1, <3>2 DEF ControlsInv, CapabilitiesRead
    <3>6. Asserted'
      BY <3>1 DEF ControlsInv, Asserted, Suffices
    <3>7. FieldsWritten'
      BY <3>1, <3>3 DEF ControlsInv, FieldsWritten
    <3>8. PinIsChosen'
      BY <3>1, <3>3 DEF ControlsInv, PinIsChosen
    <3> QED BY <3>4, <3>5, <3>6, <3>7, <3>8 DEF ControlsInv
  <2> QED BY <2>1, <2>2, <2>3 DEF ControlsNext
<1>2. ControlsInv => GuestCanStart
  BY FinalIsAccepted
<1> QED BY ControlsInvInit, <1>1, <1>2, PTL DEF ControlsSpec
===============================================================================
