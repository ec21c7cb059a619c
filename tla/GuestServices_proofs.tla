---------------------------- MODULE GuestServices_proofs ----------------------------
(* Proofs about GuestServices, for any number of processors, any pages and any number
   of exits. The invariant says of every script what its calls are going to do to the
   pages: each page a call needs is mapped now, or by an earlier call of the same
   script, and is not unmapped before (Covered); a page of low memory that is mapped is
   on its way out (Goes); the screen is there or about to come back (ScreenStays). It
   holds for the scripts as Init64 and the exit handler begin them, and steps of the
   calls keep it, because two processors never are in a call at the same time
   (OneCallAtATime) and a page nobody else needs is all that is unmapped. The scripts of
   the introspection are as long as what they find, so they are put together from
   pieces: what a piece needs mapped is what the pieces before it have mapped (Piece). *)
EXTENDS GuestServices, SequenceTheorems, WellFoundedInduction, TLAPS

Types == {Absent, WriteBack, Uncacheable}

\* What is left of an exit that fails is to unmap.
PaUnmaps == [op : {"unmap"}, pages : SUBSET Frames, physical : {TRUE}]

Calls ==
    [op : {"map"}, pages : SUBSET Frames, type : {WriteBack, Uncacheable}, invalidate : BOOLEAN]
    \union [op : {"unmap"}, pages : SUBSET Frames, physical : BOOLEAN]
    \union [op : {"access", "accessPast"}, page : Frames]
    \union [op : {"orElse"}, rest : Seq(PaUnmaps)]
    \union [op : {"wake"}, cpu : CPUs \ {Bsp}]
    \union [op : {"count", "awaitSignal", "unmapPml4"}]

ServicesTypeOK ==
    /\ pte \in [Frames -> Types]
    /\ identity \in BOOLEAN /\ ActiveCpus \in Nat /\ PagingLock \in CPUs \union {NoCpu}
    /\ tlb \in [CPUs -> [Frames -> Types]]
    /\ script \in [CPUs -> Seq(Calls)]
    /\ at \in [CPUs -> {"start", "pages", "table"}]
    /\ left \in [CPUs -> SUBSET Frames]
    /\ fault \in [CPUs -> SUBSET Frames]
    /\ osRuns \in BOOLEAN

(* What a call does to a page. A processor that is woken needs its VMCS region. *)
Maps(call, p) == call.op = "map" /\ p \in call.pages
Unmaps(call, p) == call.op = "unmap" /\ ~call.physical /\ p \in call.pages
Needs(call, p) == \/ call.op = "access" /\ call.page = p
                  \/ call.op = "wake" /\ Vmcs(call.cpu) = p

\* Where the calls of a script are.
Places(c) == 1..Len(script[c])

\* The i-th call of c has not yet come to p.
StillToDo(c, i, p) == i = 1 /\ at[c] # "start" => p \in left[c]

\* In the middle of a call the processor is alone, or it has PagingLock.
CallOf(c) ==
    at[c] # "start" =>
        /\ script[c] # <<>> /\ script[c][1].op \in {"map", "unmap"}
        /\ left[c] \subseteq script[c][1].pages
        /\ IF ActiveCpus = 0 THEN c = Bsp ELSE PagingLock = c
        /\ at[c] = "table" => /\ script[c][1].op = "map" /\ left[c] # {}
                              /\ Region(NextPage(c)) \notin tables

OneCallAtATime ==
    /\ ActiveCpus = 0 => PagingLock = NoCpu
    /\ \A c \in CPUs : CallOf(c)

\* Linking a table loses no page.
NothingWithoutTable ==
    \A p \in Frames : Region(p) \notin tables =>
        pte[p] = Absent /\ \A c \in CPUs : tlb[c][p] = Absent

\* The BSP checks that the region of another processor is mapped.
ChecksAnother(call) == call.op = "access" /\ \E d \in CPUs \ {Bsp} : call.page = Vmcs(d)

\* Init64 counts the BSP before it wakes anybody, and has checked the VMCS regions of
\* the others by then: a processor unmaps its own.
CountedFirst ==
    IF ActiveCpus = 0
    THEN /\ \A c \in CPUs \ {Bsp} : script[c] = <<>>
         /\ \E j \in Places(Bsp) :
               /\ script[Bsp][j].op = "count"
               /\ \A i \in 1..(j - 1) : script[Bsp][i].op \notin {"wake", "count"}
               /\ \A i \in Places(Bsp) : i > j => ~ChecksAnother(script[Bsp][i])
    ELSE \A i \in Places(Bsp) : ~ChecksAnother(script[Bsp][i])

\* A processor that is going to be woken is at rest.
WokenOnce ==
    \A i \in Places(Bsp) : script[Bsp][i].op = "wake" =>
        /\ script[script[Bsp][i].cpu] = <<>>
        /\ \A j \in Places(Bsp) : j # i /\ script[Bsp][j].op = "wake" =>
               script[Bsp][j].cpu # script[Bsp][i].cpu

\* The calls of an exit that may find nothing, or lead past what is mapped.
Risks == {"orElse", "accessPast"}

\* Once the operating system runs the boot is over, and UnmapPa reaches nothing.
OsRunsLast ==
    osRuns =>
        /\ ActiveCpus # 0 /\ ~identity /\ pte[Screen] # Absent
        /\ \A i \in Places(Bsp) : script[Bsp][i].op \in {"map", "access", "unmap"} \union Risks

\* Whose pages a processor unmaps and reads.
BspPages ==
    \A i \in Places(Bsp) :
        LET call == script[Bsp][i]
        IN  /\ call.op = "unmap" => (call.physical <=> osRuns)
            /\ call.op \in Risks => osRuns
            /\ \A p \in Frames : Unmaps(call, p) => p \in LowPages \/ p = Vmcs(Bsp)

ApPagesOf(c) ==
    \A i \in Places(c) :
        LET call == script[c][i]
        IN  /\ call.op \in {"map", "access", "unmap", "count"} \union Risks
            /\ call.op = "unmap" => (call.physical => osRuns)
            /\ \A p \in Frames : Unmaps(call, p) => p = Vmcs(c)
            /\ call.op = "access" => call.page \notin VmcsPages \/ call.page = Vmcs(c)
            /\ ~osRuns => /\ call.op # "map" /\ call.op \notin Risks
                          /\ call.op = "access" => call.page \in {Screen, Vmcs(c)}

ApPages == \A c \in CPUs \ {Bsp} : ApPagesOf(c)

\* What the i-th call needs is mapped, and stays, or is going to be.
Covered(c, i, p) ==
    \/ pte[p] # Absent /\ \A j \in 1..(i - 1) : ~Unmaps(script[c][j], p)
    \/ \E k \in 1..(i - 1) :
          /\ Maps(script[c][k], p) /\ StillToDo(c, k, p)
          /\ \A j \in (k + 1)..(i - 1) : ~Unmaps(script[c][j], p)

\* The exception is that of MappedPagesAreFound.
CoveredOf(c) ==
    \A i \in Places(c), p \in Frames :
        Needs(script[c][i], p) /\ (c # Bsp => p # Screen) => Covered(c, i, p)

AllCovered == \A c \in CPUs : CoveredOf(c)

\* A page of low memory is going to be unmapped if it is mapped or going to be mapped.
Goes(p) ==
    /\ pte[p] # Absent =>
          \E i \in Places(Bsp) : Unmaps(script[Bsp][i], p) /\ StillToDo(Bsp, i, p)
    /\ \A i \in Places(Bsp) : Maps(script[Bsp][i], p) =>
          \E j \in (i + 1)..Len(script[Bsp]) : Unmaps(script[Bsp][j], p)

LowMemoryGoes == ~osRuns => \A p \in LowPages \ {Screen} : Goes(p)

\* The screen is mapped and stays, or the BSP is going to map it.
ScreenStays ==
    \/ /\ pte[Screen] # Absent
       /\ \A i \in Places(Bsp) : ~Unmaps(script[Bsp][i], Screen)
    \/ \E i \in Places(Bsp) :
          /\ script[Bsp][i] = MapMemory({Screen}) /\ StillToDo(Bsp, i, Screen)
          /\ \A j \in (i + 1)..Len(script[Bsp]) : ~Unmaps(script[Bsp][j], Screen)

\* PML4 entry 0 is gone before the screen is unmapped, so in the window it is.
IdentityUntilScreen ==
    identity =>
        /\ pte[Screen] # Absent
        /\ \E j \in Places(Bsp) : /\ script[Bsp][j].op = "unmapPml4"
                                  /\ \A i \in 1..(j - 1) : ~Unmaps(script[Bsp][i], Screen)

\* Before the operating system runs the others read the screen and their VMCS region.
CachedPages ==
    /\ ~osRuns => \A c \in CPUs \ {Bsp}, p \in Frames :
          tlb[c][p] # Absent => p = Screen \/ p \in VmcsPages
    /\ StaleTranslationsAreHarmless

\* What the scripts promise.
ScriptsInv ==
    /\ CountedFirst /\ WokenOnce /\ OsRunsLast /\ BspPages /\ ApPages /\ AllCovered
    /\ LowMemoryGoes /\ ScreenStays /\ IdentityUntilScreen

\* The inductive invariant.
ServicesInv ==
    ServicesTypeOK /\ OneCallAtATime /\ NothingWithoutTable /\ CachedPages /\ ScriptsInv

-------------------------------------------------------------------------------
(* What a step leaves of a script. *)

\* A processor takes no step.
Stays(c) == script'[c] = script[c] /\ at'[c] = at[c] /\ left'[c] = left[c]

\* The first call of the script has ended.
GoesOn(c) ==
    /\ script[c] # <<>> /\ script'[c] = Tail(script[c]) /\ at'[c] = "start"
    /\ IF at[c] = "start" THEN script[c][1].op \notin {"map", "unmap"} ELSE left[c] = {}

\* The kinds of calls and what each carries.
LEMMA CallKinds ==
    ASSUME NEW call \in Calls
    PROVE  /\ call.op \in {"map", "unmap", "access", "accessPast", "orElse", "wake", "count",
                          "awaitSignal", "unmapPml4"}
           /\ call.op = "map" => /\ call.pages \in SUBSET Frames
                                 /\ call.type \in {WriteBack, Uncacheable}
                                 /\ call.invalidate \in BOOLEAN
           /\ call.op = "unmap" => call.pages \in SUBSET Frames /\ call.physical \in BOOLEAN
           /\ call.op \in {"access", "accessPast"} => call.page \in Frames
           /\ call.op = "accessPast" => call = AccessPast(call.page)
           /\ call.op = "orElse" => call.rest \in Seq(PaUnmaps)
           /\ call.op = "wake" => call.cpu \in CPUs \ {Bsp}
  BY DEF Calls, AccessPast

\* A script by its places.
LEMMA Script ==
    ASSUME ServicesTypeOK, NEW c \in CPUs
    PROVE  /\ script[c] \in Seq(Calls) /\ Len(script[c]) \in Nat
           /\ \A i \in Places(c) : script[c][i] \in Calls
           /\ script[c] = <<>> <=> Places(c) = {}
           /\ script[c] # <<>> => /\ 1 \in Places(c) /\ Head(script[c]) = script[c][1]
                                  /\ Len(script[c]) >= 1
<1>1. script[c] \in Seq(Calls)
  BY DEF ServicesTypeOK
<1>2. QED
  BY <1>1, EmptySeq, LenProperties, ElementOfSeq DEF Places

\* The calls behind the first move up by one place.
LEMMA ScriptGoesOn ==
    ASSUME ServicesTypeOK, NEW c \in CPUs, GoesOn(c)
    PROVE  /\ script'[c] \in Seq(Calls) /\ Len(script[c]) \in Nat
           /\ Len(script'[c]) = Len(script[c]) - 1
           /\ \A i \in 1..(Len(script[c]) - 1) : script'[c][i] = script[c][i + 1]
           /\ Places(c)' = 1..(Len(script[c]) - 1)
           /\ \A i \in Places(c)' : /\ i \in Nat /\ i # 0 /\ i + 1 \in Places(c)
                                  /\ script'[c][i] = script[c][i + 1]
<1>1. script[c] \in Seq(Calls) /\ script[c] # <<>>
  BY DEF ServicesTypeOK, GoesOn
<1>2. /\ Tail(script[c]) \in Seq(Calls) /\ Len(Tail(script[c])) = Len(script[c]) - 1
      /\ \A i \in 1..Len(Tail(script[c])) : Tail(script[c])[i] = script[c][i + 1]
  BY <1>1, HeadTailProperties
<1>3. Len(script[c]) \in Nat
  BY <1>1
<1>4. QED
  BY <1>2, <1>3 DEF GoesOn, Places

\* What is covered stays covered while no page goes away.
LEMMA CoveredGoesOn ==
    ASSUME ServicesTypeOK, NEW c \in CPUs, CoveredOf(c), Stays(c) \/ GoesOn(c),
           \A p \in Frames : pte[p] # Absent => pte'[p] # Absent
    PROVE  CoveredOf(c)'
<1> SUFFICES ASSUME NEW i \in Places(c)', NEW p \in Frames,
                    Needs(script'[c][i], p), c # Bsp => p # Screen
             PROVE  Covered(c, i, p)'
  BY DEF CoveredOf
<1>1. CASE Stays(c)
  <2>1. i \in Places(c) /\ Needs(script[c][i], p)
    BY <1>1 DEF Stays, Places
  <2>2. Covered(c, i, p)
    BY <2>1 DEF CoveredOf
  <2>3. QED
    BY <1>1, <2>2 DEF Covered, Stays, StillToDo
<1>2. CASE GoesOn(c)
  <2>1. /\ i \in Nat /\ i + 1 \in Places(c) /\ script'[c][i] = script[c][i + 1]
        /\ i \in 1..(Len(script[c]) - 1) /\ Len(script[c]) \in Nat
        /\ \A j \in 1..(Len(script[c]) - 1) : script'[c][j] = script[c][j + 1]
    BY <1>2, ScriptGoesOn
  <2>2. Covered(c, i + 1, p)
    BY <2>1 DEF CoveredOf
  <2>3. CASE pte[p] # Absent /\ \A j \in 1..i : ~Unmaps(script[c][j], p)
    <3>1. ASSUME NEW j \in 1..(i - 1) PROVE ~Unmaps(script'[c][j], p)
      <4>1. j + 1 \in 1..i /\ j \in 1..(Len(script[c]) - 1)
        BY <2>1
      <4>2. QED
        BY <2>1, <2>3, <4>1
    <3>2. QED
      BY <2>3, <3>1 DEF Covered
  <2>4. ASSUME NEW k \in 1..i, Maps(script[c][k], p), StillToDo(c, k, p),
               \A j \in (k + 1)..i : ~Unmaps(script[c][j], p)
        PROVE  Covered(c, i, p)'
    <3>1. k # 1
      BY <1>2, <2>4 DEF GoesOn, StillToDo, Maps
    <3>2. k - 1 \in 1..(i - 1) /\ k - 1 \in 1..(Len(script[c]) - 1) /\ (k - 1) + 1 = k
      BY <2>1, <3>1
    <3>3. Maps(script'[c][k - 1], p)
      BY <2>1, <2>4, <3>2
    <3>4. StillToDo(c, k - 1, p)'
      BY <1>2 DEF GoesOn, StillToDo
    <3>5. ASSUME NEW j \in ((k - 1) + 1)..(i - 1) PROVE ~Unmaps(script'[c][j], p)
      <4>1. j + 1 \in (k + 1)..i /\ j \in 1..(Len(script[c]) - 1)
        BY <2>1, <3>2
      <4>2. QED
        BY <2>1, <2>4, <4>1
    <3>6. QED
      BY <3>2, <3>3, <3>4, <3>5 DEF Covered
  <2>5. (i + 1) - 1 = i
    BY <2>1
  <2>6. QED
    BY <2>2, <2>3, <2>4, <2>5 DEF Covered
<1>3. QED
  BY <1>1, <1>2

\* The calls of an application processor are those it had.
LEMMA ApPagesGoesOn ==
    ASSUME ServicesTypeOK, NEW c \in CPUs, ApPagesOf(c), Stays(c) \/ GoesOn(c), UNCHANGED osRuns
    PROVE  ApPagesOf(c)'
<1> SUFFICES ASSUME NEW i \in Places(c)'
             PROVE  \E j \in Places(c) : script'[c][i] = script[c][j]
  BY DEF ApPagesOf, Unmaps, Places, VmcsPages
<1>1. CASE Stays(c)
  BY <1>1 DEF Stays, Places
<1>2. CASE GoesOn(c)
  BY <1>2, ScriptGoesOn
<1>3. QED
  BY <1>1, <1>2

\* The calls of the BSP are those it had.
LEMMA BspPagesGoesOn ==
    ASSUME ServicesTypeOK, Bsp \in CPUs, BspPages, Stays(Bsp) \/ GoesOn(Bsp), UNCHANGED osRuns
    PROVE  BspPages'
<1> SUFFICES ASSUME NEW i \in Places(Bsp)'
             PROVE  \E j \in Places(Bsp) : script'[Bsp][i] = script[Bsp][j]
  BY DEF BspPages, Unmaps, Places, LowPages
<1>1. CASE Stays(Bsp)
  BY <1>1 DEF Stays, Places
<1>2. CASE GoesOn(Bsp)
  BY <1>2, ScriptGoesOn
<1>3. QED
  BY <1>1, <1>2

\* A processor that has nothing to do stays so, unless the BSP wakes it now.
LEMMA WokenGoesOn ==
    ASSUME ServicesTypeOK, Bsp \in CPUs, WokenOnce, Stays(Bsp) \/ GoesOn(Bsp),
           \A d \in CPUs \ {Bsp} : script[d] = <<>> =>
               \/ script'[d] = <<>>
               \/ GoesOn(Bsp) /\ script[Bsp][1].op = "wake" /\ script[Bsp][1].cpu = d
    PROVE  WokenOnce'
<1>1. CASE Stays(Bsp)
  <2>1. SUFFICES ASSUME NEW i \in Places(Bsp), script[Bsp][i].op = "wake"
                 PROVE  script'[script[Bsp][i].cpu] = <<>>
    BY <1>1 DEF Stays, Places, WokenOnce
  <2>2. script[Bsp][i].cpu \in CPUs \ {Bsp}
    BY <2>1, Script, CallKinds
  <2>3. ~GoesOn(Bsp)
    <3>1. GoesOn(Bsp) => Len(script[Bsp]) \in Nat /\ Len(script'[Bsp]) = Len(script[Bsp]) - 1
      BY ScriptGoesOn
    <3>2. script'[Bsp] = script[Bsp]
      BY <1>1 DEF Stays
    <3>3. QED
      BY <3>1, <3>2
  <2>4. QED
    BY <1>1, <2>1, <2>2, <2>3 DEF WokenOnce, Stays
<1>2. CASE GoesOn(Bsp)
  <2>1. /\ \A i \in Places(Bsp)' : i \in Nat /\ i # 0 /\ i + 1 \in Places(Bsp) /\ script'[Bsp][i] = script[Bsp][i + 1]
        /\ 1 \in Places(Bsp)
    BY <1>2, Script, ScriptGoesOn DEF GoesOn
  <2>2. ASSUME NEW i \in Places(Bsp)', script'[Bsp][i].op = "wake"
        PROVE  script'[script'[Bsp][i].cpu] = <<>>
    <3> DEFINE d == script[Bsp][i + 1].cpu
    <3>1. /\ i + 1 \in Places(Bsp) /\ i + 1 # 1 /\ script'[Bsp][i] = script[Bsp][i + 1]
          /\ script[Bsp][i + 1].op = "wake"
      BY <2>1, <2>2
    <3>2. d \in CPUs \ {Bsp}
      BY <3>1, Script, CallKinds
    <3>3. script[d] = <<>> /\ ~(script[Bsp][1].op = "wake" /\ script[Bsp][1].cpu = d)
      BY <2>1, <3>1 DEF WokenOnce
    <3> HIDE DEF d
    <3>4. script'[d] = <<>>
      BY <3>2, <3>3
    <3>5. QED
      BY <3>1, <3>4 DEF d
  <2>3. ASSUME NEW i \in Places(Bsp)', NEW j \in Places(Bsp)', j # i,
               script'[Bsp][i].op = "wake", script'[Bsp][j].op = "wake"
        PROVE  script'[Bsp][j].cpu # script'[Bsp][i].cpu
    <3>1. i + 1 \in Places(Bsp) /\ j + 1 \in Places(Bsp) /\ j + 1 # i + 1
      BY <2>1, <2>3
    <3>2. QED
      BY <2>1, <2>3, <3>1 DEF WokenOnce
  <2>4. QED
    BY <2>2, <2>3 DEF WokenOnce
<1>3. QED
  BY <1>1, <1>2

\* Until the BSP is counted nobody has been woken.
LEMMA CountedGoesOn ==
    ASSUME ServicesTypeOK, Bsp \in CPUs, CountedFirst, UNCHANGED ActiveCpus,
           Stays(Bsp) \/ (GoesOn(Bsp) /\ script[Bsp][1].op # "count"),
           ActiveCpus = 0 => \A c \in CPUs \ {Bsp} : script[c] = <<>> => script'[c] = <<>>
    PROVE  CountedFirst'
<1>1. CASE Stays(Bsp)
  BY <1>1 DEF CountedFirst, Stays, Places, ChecksAnother
<1>2. CASE GoesOn(Bsp) /\ script[Bsp][1].op # "count"
  <2>1. /\ \A i \in Places(Bsp)' : i \in Nat /\ i + 1 \in Places(Bsp) /\ script'[Bsp][i] = script[Bsp][i + 1]
        /\ Places(Bsp)' = 1..(Len(script[Bsp]) - 1) /\ Len(script[Bsp]) \in Nat
    BY <1>2, ScriptGoesOn
  <2>2. CASE ActiveCpus # 0
    <3>1. \A i \in Places(Bsp)' : ~ChecksAnother(script'[Bsp][i])
      BY <2>1, <2>2 DEF CountedFirst
    <3>2. QED
      BY <2>2, <3>1 DEF CountedFirst, ChecksAnother
  <2>3. CASE ActiveCpus = 0
    <3>1. PICK j \in Places(Bsp) :
            /\ script[Bsp][j].op = "count"
            /\ \A i \in 1..(j - 1) : script[Bsp][i].op \notin {"wake", "count"}
            /\ \A i \in Places(Bsp) : i > j => ~ChecksAnother(script[Bsp][i])
      BY <2>3 DEF CountedFirst
    <3>2. j # 1 /\ j \in 1..Len(script[Bsp])
      BY <1>2, <3>1 DEF Places
    <3>3. j - 1 \in Places(Bsp)' /\ (j - 1) + 1 = j
      BY <2>1, <3>2
    <3>4. script'[Bsp][j - 1].op = "count"
      BY <2>1, <3>1, <3>3
    <3>5. ASSUME NEW i \in 1..((j - 1) - 1) PROVE script'[Bsp][i].op \notin {"wake", "count"}
      <4>1. i \in Places(Bsp)' /\ i + 1 \in 1..(j - 1)
        BY <2>1, <3>2
      <4>2. QED
        BY <2>1, <3>1, <4>1
    <3>6. ASSUME NEW i \in Places(Bsp)', i > j - 1 PROVE ~ChecksAnother(script'[Bsp][i])
      <4>1. i + 1 \in Places(Bsp) /\ i + 1 > j
        BY <2>1, <3>2, <3>6
      <4>2. QED
        BY <2>1, <3>1, <4>1
    <3>7. \A c \in CPUs \ {Bsp} : script'[c] = <<>>
      BY <2>3 DEF CountedFirst
    <3>8. QED
      BY <2>3, <3>3, <3>4, <3>5, <3>6, <3>7 DEF CountedFirst, ChecksAnother
  <2>4. QED
    BY <2>2, <2>3
<1>3. QED
  BY <1>1, <1>2

\* The operating system runs after the boot.
LEMMA OsRunsGoesOn ==
    ASSUME ServicesTypeOK, Bsp \in CPUs, OsRunsLast, Stays(Bsp) \/ GoesOn(Bsp),
           UNCHANGED osRuns, ActiveCpus # 0 => ActiveCpus' # 0, identity' => identity,
           pte[Screen] # Absent => pte'[Screen] # Absent
    PROVE  OsRunsLast'
<1>1. CASE Stays(Bsp)
  BY <1>1 DEF OsRunsLast, Stays, Places
<1>2. CASE GoesOn(Bsp)
  <2>1. \A i \in Places(Bsp)' : i + 1 \in Places(Bsp) /\ script'[Bsp][i] = script[Bsp][i + 1]
    BY <1>2, ScriptGoesOn
  <2>2. QED
    BY <2>1 DEF OsRunsLast
<1>3. QED
  BY <1>1, <1>2

\* A page of low memory stays on its way out of the tables.
LEMMA LowMemoryGoesOn ==
    ASSUME ServicesTypeOK, Bsp \in CPUs, LowMemoryGoes, Stays(Bsp) \/ GoesOn(Bsp),
           UNCHANGED osRuns, \A p \in LowPages : pte'[p] # Absent => pte[p] # Absent
    PROVE  LowMemoryGoes'
<1> SUFFICES ASSUME ~osRuns, NEW p \in LowPages \ {Screen}
             PROVE  Goes(p)'
  BY DEF LowMemoryGoes, LowPages
<1>1. Goes(p)
  BY DEF LowMemoryGoes
<1>2. CASE Stays(Bsp)
  BY <1>1, <1>2 DEF Goes, Stays, Places, StillToDo, Unmaps, Maps
<1>3. CASE GoesOn(Bsp)
  <2>1. /\ \A i \in Places(Bsp)' : i \in Nat /\ i + 1 \in Places(Bsp) /\ script'[Bsp][i] = script[Bsp][i + 1]
        /\ Places(Bsp)' = 1..(Len(script[Bsp]) - 1) /\ Len(script[Bsp]) \in Nat
        /\ Len(script'[Bsp]) = Len(script[Bsp]) - 1
    BY <1>3, ScriptGoesOn
  <2>2. ASSUME pte'[p] # Absent
        PROVE  \E i \in Places(Bsp)' : Unmaps(script'[Bsp][i], p) /\ StillToDo(Bsp, i, p)'
    <3>1. PICK i \in Places(Bsp) : Unmaps(script[Bsp][i], p) /\ StillToDo(Bsp, i, p)
      BY <1>1, <2>2 DEF Goes
    <3>2. i # 1
      BY <1>3, <3>1 DEF GoesOn, StillToDo, Unmaps
    <3>3. i - 1 \in Places(Bsp)' /\ (i - 1) + 1 = i
      BY <2>1, <3>2 DEF Places
    <3>4. Unmaps(script'[Bsp][i - 1], p)
      BY <2>1, <3>1, <3>3
    <3>5. StillToDo(Bsp, i - 1, p)'
      BY <1>3 DEF GoesOn, StillToDo
    <3>6. QED
      BY <3>3, <3>4, <3>5
  <2>3. ASSUME NEW i \in Places(Bsp)', Maps(script'[Bsp][i], p)
        PROVE  \E j \in (i + 1)..Len(script'[Bsp]) : Unmaps(script'[Bsp][j], p)
    <3>1. i + 1 \in Places(Bsp) /\ Maps(script[Bsp][i + 1], p) /\ i \in Nat
      BY <2>1, <2>3
    <3>2. PICK j \in ((i + 1) + 1)..Len(script[Bsp]) : Unmaps(script[Bsp][j], p)
      BY <1>1, <3>1 DEF Goes
    <3>3. j - 1 \in (i + 1)..Len(script'[Bsp]) /\ j - 1 \in Places(Bsp)' /\ (j - 1) + 1 = j
      BY <2>1, <3>1, <3>2
    <3>4. QED
      BY <2>1, <3>2, <3>3
  <2>4. QED
    BY <2>2, <2>3 DEF Goes, Unmaps, Maps
<1>4. QED
  BY <1>2, <1>3

\* The screen is mapped, or the BSP is going to map it.
LEMMA ScreenGoesOn ==
    ASSUME ServicesTypeOK, Bsp \in CPUs, ScreenStays, Stays(Bsp) \/ GoesOn(Bsp),
           pte[Screen] # Absent => pte'[Screen] # Absent
    PROVE  ScreenStays'
<1>1. CASE Stays(Bsp)
  BY <1>1 DEF ScreenStays, Stays, Places, StillToDo, Unmaps, MapMemory, MapMemoryInvalidate
<1>2. CASE GoesOn(Bsp)
  <2>1. /\ \A i \in Places(Bsp)' : i \in Nat /\ i + 1 \in Places(Bsp) /\ script'[Bsp][i] = script[Bsp][i + 1]
        /\ Places(Bsp)' = 1..(Len(script[Bsp]) - 1) /\ Len(script[Bsp]) \in Nat
        /\ Len(script'[Bsp]) = Len(script[Bsp]) - 1
    BY <1>2, ScriptGoesOn
  <2>2. CASE pte[Screen] # Absent /\ \A i \in Places(Bsp) : ~Unmaps(script[Bsp][i], Screen)
    <3>1. pte'[Screen] # Absent /\ \A i \in Places(Bsp)' : ~Unmaps(script'[Bsp][i], Screen)
      BY <2>1, <2>2
    <3>2. QED
      BY <3>1 DEF ScreenStays, Unmaps
  <2>3. ASSUME NEW i \in Places(Bsp), script[Bsp][i] = MapMemory({Screen}),
               StillToDo(Bsp, i, Screen),
               \A j \in (i + 1)..Len(script[Bsp]) : ~Unmaps(script[Bsp][j], Screen)
        PROVE  ScreenStays'
    <3>1. i # 1
      BY <1>2, <2>3 DEF GoesOn, StillToDo, MapMemory, MapMemoryInvalidate
    <3>2. i - 1 \in Places(Bsp)' /\ (i - 1) + 1 = i
      BY <2>1, <3>1 DEF Places
    <3>3. script'[Bsp][i - 1] = MapMemory({Screen})
      BY <2>1, <2>3, <3>2
    <3>4. StillToDo(Bsp, i - 1, Screen)'
      BY <1>2 DEF GoesOn, StillToDo
    <3>5. ASSUME NEW j \in ((i - 1) + 1)..Len(script'[Bsp]) PROVE ~Unmaps(script'[Bsp][j], Screen)
      <4>1. j \in Places(Bsp)' /\ j + 1 \in (i + 1)..Len(script[Bsp])
        BY <2>1, <3>2
      <4>2. QED
        BY <2>1, <2>3, <4>1
    <3>6. QED
      BY <3>2, <3>3, <3>4, <3>5 DEF ScreenStays, Unmaps, MapMemory, MapMemoryInvalidate
  <2>4. QED
    BY <2>2, <2>3 DEF ScreenStays
<1>3. QED
  BY <1>1, <1>2

\* PML4 entry 0 goes before the screen is unmapped.
LEMMA IdentityGoesOn ==
    ASSUME ServicesTypeOK, Bsp \in CPUs, IdentityUntilScreen, identity' => identity,
           Stays(Bsp) \/ (GoesOn(Bsp) /\ script[Bsp][1].op # "unmapPml4"),
           pte[Screen] # Absent => pte'[Screen] # Absent
    PROVE  IdentityUntilScreen'
<1> SUFFICES ASSUME identity'
             PROVE  \E j \in Places(Bsp)' : /\ script'[Bsp][j].op = "unmapPml4"
                                            /\ \A i \in 1..(j - 1) : ~Unmaps(script'[Bsp][i], Screen)
  BY DEF IdentityUntilScreen, Unmaps
<1>1. PICK j \in Places(Bsp) : /\ script[Bsp][j].op = "unmapPml4"
                               /\ \A i \in 1..(j - 1) : ~Unmaps(script[Bsp][i], Screen)
  BY DEF IdentityUntilScreen
<1>2. CASE Stays(Bsp)
  BY <1>1, <1>2 DEF Stays, Places
<1>3. CASE GoesOn(Bsp) /\ script[Bsp][1].op # "unmapPml4"
  <2>1. /\ \A i \in Places(Bsp)' : i \in Nat /\ i + 1 \in Places(Bsp) /\ script'[Bsp][i] = script[Bsp][i + 1]
        /\ Places(Bsp)' = 1..(Len(script[Bsp]) - 1) /\ Len(script[Bsp]) \in Nat
    BY <1>3, ScriptGoesOn
  <2>2. j - 1 \in Places(Bsp)' /\ (j - 1) + 1 = j /\ j \in 1..Len(script[Bsp])
    BY <1>1, <1>3, <2>1 DEF Places
  <2>3. ASSUME NEW i \in 1..((j - 1) - 1) PROVE ~Unmaps(script'[Bsp][i], Screen)
    <3>1. i \in Places(Bsp)' /\ i + 1 \in 1..(j - 1)
      BY <2>1, <2>2
    <3>2. QED
      BY <1>1, <2>1, <3>1
  <2>4. QED
    BY <1>1, <2>1, <2>2, <2>3
<1>4. QED
  BY <1>2, <1>3

-------------------------------------------------------------------------------
(* What all steps of one kind keep. *)

\* Which pages differ.
LEMMA PageUse ==
    /\ Bsp \in CPUs /\ NoCpu \notin CPUs
    /\ LowPages \subseteq Frames /\ Screen \in LowPages /\ Screen \in Frames
    /\ \A c \in CPUs : Vmcs(c) \in Frames /\ Vmcs(c) \in VmcsPages /\ Vmcs(c) \notin LowPages
    /\ \A c, d \in CPUs : Vmcs(c) = Vmcs(d) => c = d
  BY ServicesAssumption, PagingAssumption DEF LowPages, VmcsPages

\* The end of a call that changes no page keeps what the scripts promise.
LEMMA GoesOnKeeps ==
    ASSUME ServicesTypeOK, ScriptsInv, NEW c \in CPUs, GoesOn(c), \A d \in CPUs \ {c} : Stays(d),
           UNCHANGED <<pte, ActiveCpus, osRuns>>, identity' => identity,
           script[c][1].op \notin {"count", "wake"},
           script[c][1].op = "unmapPml4" => ~identity'
    PROVE  ScriptsInv'
<1>1. /\ Bsp \in CPUs /\ \A d \in CPUs : Stays(d) \/ GoesOn(d)
      /\ Stays(Bsp) \/ (GoesOn(Bsp) /\ script[Bsp][1].op \notin {"count", "wake"})
      /\ Stays(Bsp) \/ (GoesOn(Bsp) /\ (script[Bsp][1].op = "unmapPml4" => ~identity'))
  BY PageUse
<1>2. \A d \in CPUs : script[d] = <<>> => script'[d] = <<>>
  BY <1>1 DEF GoesOn, Stays
<1>3. CountedFirst' /\ WokenOnce'
  BY <1>1, <1>2, CountedGoesOn, WokenGoesOn DEF ScriptsInv
<1>4. OsRunsLast' /\ BspPages'
  BY <1>1, OsRunsGoesOn, BspPagesGoesOn DEF ScriptsInv
<1>5. ApPages'
  BY <1>1, ApPagesGoesOn DEF ScriptsInv, ApPages
<1>6. AllCovered'
  BY <1>1, CoveredGoesOn DEF ScriptsInv, AllCovered
<1>7. LowMemoryGoes' /\ ScreenStays'
  BY <1>1, LowMemoryGoesOn, ScreenGoesOn DEF ScriptsInv
<1>8. IdentityUntilScreen'
  <2>1. CASE identity'
    BY <1>1, <2>1, IdentityGoesOn DEF ScriptsInv
  <2>2. CASE ~identity'
    BY <2>2 DEF IdentityUntilScreen
  <2>3. QED
    BY <2>1, <2>2
<1>9. QED
  BY <1>3, <1>4, <1>5, <1>6, <1>7, <1>8 DEF ScriptsInv

\* So does a step in the middle of a call that passes no page.
LEMMA InCallKeeps ==
    ASSUME ServicesTypeOK, ScriptsInv, UNCHANGED <<script, pte, ActiveCpus, osRuns, identity>>,
           \A d \in CPUs, p \in Frames :
               /\ StillToDo(d, 1, p) /\ script[d] # <<>>
               /\ Maps(script[d][1], p) \/ Unmaps(script[d][1], p)
               => StillToDo(d, 1, p)'
    PROVE  ScriptsInv'
<1>1. Bsp \in CPUs /\ Screen \in Frames /\ LowPages \subseteq Frames
  BY PageUse
<1>2. ASSUME NEW d \in CPUs, NEW p \in Frames, NEW i \in Places(d), StillToDo(d, i, p),
             Maps(script[d][i], p) \/ Unmaps(script[d][i], p)
      PROVE  StillToDo(d, i, p)'
  <2>1. script[d] # <<>>
    BY Script
  <2>2. CASE i = 1
    BY <1>2, <2>1, <2>2
  <2>3. CASE i # 1
    BY <2>3 DEF StillToDo
  <2>4. QED
    BY <2>2, <2>3
<1>3. CountedFirst' /\ WokenOnce' /\ OsRunsLast'
  BY DEF ScriptsInv, CountedFirst, WokenOnce, OsRunsLast, Places, ChecksAnother
<1>4. BspPages' /\ ApPages'
  BY DEF ScriptsInv, BspPages, ApPages, ApPagesOf, Places, Unmaps, LowPages, VmcsPages
<1>5. AllCovered'
  <2> SUFFICES ASSUME NEW c \in CPUs, NEW i \in Places(c), NEW p \in Frames,
                      Needs(script[c][i], p), c # Bsp => p # Screen
               PROVE  Covered(c, i, p)'
    BY DEF AllCovered, CoveredOf, Places, Needs
  <2>1. Covered(c, i, p)
    BY DEF ScriptsInv, AllCovered, CoveredOf
  <2>2. CASE pte[p] # Absent /\ \A j \in 1..(i - 1) : ~Unmaps(script[c][j], p)
    BY <2>2 DEF Covered, Unmaps
  <2>3. ASSUME NEW k \in 1..(i - 1), Maps(script[c][k], p), StillToDo(c, k, p),
               \A j \in (k + 1)..(i - 1) : ~Unmaps(script[c][j], p)
        PROVE  Covered(c, i, p)'
    <3>1. k \in Places(c)
      <4>1. Len(script[c]) \in Nat
        BY Script
      <4>2. QED
        BY <4>1 DEF Places
    <3>2. StillToDo(c, k, p)'
      BY <1>2, <2>3, <3>1
    <3>3. QED
      BY <2>3, <3>2 DEF Covered, Maps, Unmaps
  <2>4. QED
    BY <2>1, <2>2, <2>3 DEF Covered
<1>6. LowMemoryGoes'
  <2> SUFFICES ASSUME ~osRuns, NEW p \in LowPages \ {Screen}
               PROVE  Goes(p)'
    BY DEF LowMemoryGoes, LowPages
  <2>1. Goes(p)
    BY DEF ScriptsInv, LowMemoryGoes
  <2>2. QED
    BY <1>1, <1>2, <2>1 DEF Goes, Places, Unmaps, Maps
<1>7. ScreenStays'
  <2>1. CASE pte[Screen] # Absent /\ \A i \in Places(Bsp) : ~Unmaps(script[Bsp][i], Screen)
    BY <2>1 DEF ScreenStays, Unmaps, Places
  <2>2. ASSUME NEW i \in Places(Bsp), script[Bsp][i] = MapMemory({Screen}),
               StillToDo(Bsp, i, Screen),
               \A j \in (i + 1)..Len(script[Bsp]) : ~Unmaps(script[Bsp][j], Screen)
        PROVE  ScreenStays'
    <3>1. Maps(script[Bsp][i], Screen)
      BY <2>2 DEF Maps, MapMemory, MapMemoryInvalidate
    <3>2. StillToDo(Bsp, i, Screen)'
      BY <1>1, <1>2, <2>2, <3>1
    <3>3. QED
      BY <2>2, <3>2 DEF ScreenStays, Places, Unmaps, MapMemory, MapMemoryInvalidate
  <2>3. QED
    BY <2>1, <2>2 DEF ScriptsInv, ScreenStays
<1>8. IdentityUntilScreen'
  BY DEF ScriptsInv, IdentityUntilScreen, Places, Unmaps
<1>9. QED
  BY <1>3, <1>4, <1>5, <1>6, <1>7, <1>8 DEF ScriptsInv

-------------------------------------------------------------------------------
(* The steps of MapMemory and UnmapMemory. *)

\* What a processor is at is the first call of its script.
LEMMA FirstCall ==
    ASSUME ServicesTypeOK, NEW c \in CPUs, NEW op, Does(c, op)
    PROVE  /\ script[c] # <<>> /\ 1 \in Places(c) /\ Len(script[c]) \in Nat /\ Len(script[c]) >= 1
           /\ Head(script[c]) = script[c][1] /\ script[c][1] \in Calls /\ script[c][1].op = op
  BY Script DEF Does

\* Two processors are never in a call at the same time.
LEMMA OneInCall ==
    ASSUME OneCallAtATime, NEW c \in CPUs, NEW d \in CPUs, at[c] # "start", at[d] # "start"
    PROVE  c = d
  BY DEF OneCallAtATime, CallOf

\* EnterCall: the lock is taken, or the BSP is alone.
LEMMA EnterCallKeeps ==
    ASSUME ServicesInv, NEW c \in CPUs, EnterCall(c), UNCHANGED osRuns
    PROVE  ServicesInv'
<1>1. ServicesTypeOK /\ OneCallAtATime /\ NothingWithoutTable /\ CachedPages /\ ScriptsInv
  BY DEF ServicesInv
<1>2. PICK op \in {"map", "unmap"} : Does(c, op)
  BY DEF EnterCall
<1>3. /\ script[c] # <<>> /\ 1 \in Places(c) /\ Head(script[c]) = script[c][1]
      /\ script[c][1] \in Calls /\ script[c][1].op \in {"map", "unmap"}
  BY <1>1, <1>2, FirstCall
<1>4. script[c][1].pages \in SUBSET Frames
  BY <1>3, CallKinds
<1>5. /\ at' = [at EXCEPT ![c] = "pages"] /\ left' = [left EXCEPT ![c] = script[c][1].pages]
      /\ at[c] = "start"
      /\ UNCHANGED <<pte, tables, identity, ActiveCpus, tlb, script, fault, osRuns>>
      /\ IF ActiveCpus # 0 THEN PagingLock = NoCpu /\ PagingLock' = c ELSE UNCHANGED PagingLock
  BY <1>3 DEF EnterCall, NeedsLock
<1>6. ServicesTypeOK'
  BY <1>1, <1>4, <1>5 DEF ServicesTypeOK
<1>7. /\ at'[c] = "pages" /\ left'[c] = script[c][1].pages
      /\ \A d \in CPUs \ {c} : at'[d] = at[d] /\ left'[d] = left[d]
  BY <1>1, <1>5 DEF ServicesTypeOK
<1>8. OneCallAtATime'
  <2>1. ActiveCpus = 0 => c = Bsp
    BY <1>1, <1>3 DEF ScriptsInv, CountedFirst
  <2>2. CallOf(c)'
    BY <1>3, <1>5, <1>7, <2>1 DEF CallOf
  <2>3. ASSUME NEW d \in CPUs \ {c} PROVE CallOf(d)'
    <3>1. CallOf(d)
      BY <1>1 DEF OneCallAtATime
    <3>2. at[d] # "start" /\ ActiveCpus # 0 => FALSE
      BY <1>5, <3>1, PageUse DEF CallOf
    <3>3. QED
      BY <1>5, <1>7, <3>1, <3>2 DEF CallOf, NextPage
  <2>4. QED
    BY <1>1, <1>5, <2>2, <2>3 DEF OneCallAtATime
<1>9. NothingWithoutTable' /\ CachedPages'
  BY <1>1, <1>5 DEF NothingWithoutTable, CachedPages, StaleTranslationsAreHarmless, VmcsPages
<1>10. ScriptsInv'
  <2>1. ASSUME NEW d \in CPUs, NEW p \in Frames, StillToDo(d, 1, p),
               Maps(script[d][1], p) \/ Unmaps(script[d][1], p)
        PROVE  StillToDo(d, 1, p)'
    BY <1>7, <2>1 DEF StillToDo, Maps, Unmaps
  <2>2. QED
    BY <1>1, <1>5, <2>1, InCallKeeps
<1>11. QED
  BY <1>6, <1>8, <1>9, <1>10 DEF ServicesInv

\* FindTable: the table stays missing, as nobody else is in a call.
LEMMA FindTableKeeps ==
    ASSUME ServicesInv, NEW c \in CPUs, FindTable(c), UNCHANGED osRuns
    PROVE  ServicesInv'
<1>1. ServicesTypeOK /\ OneCallAtATime /\ NothingWithoutTable /\ CachedPages /\ ScriptsInv
  BY DEF ServicesInv
<1>2. script[c][1].op = "map" /\ script[c] # <<>>
  BY <1>1, FirstCall DEF FindTable
<1>3. /\ at' = [at EXCEPT ![c] = "table"] /\ at[c] = "pages" /\ left[c] # {}
      /\ Region(NextPage(c)) \notin tables
      /\ UNCHANGED <<pte, tables, identity, ActiveCpus, PagingLock, tlb, script, left, fault, osRuns>>
  BY DEF FindTable
<1>4. ServicesTypeOK' /\ at'[c] = "table" /\ \A d \in CPUs \ {c} : at'[d] = at[d]
  BY <1>1, <1>3 DEF ServicesTypeOK
<1>5. OneCallAtATime'
  <2>1. ASSUME NEW d \in CPUs PROVE CallOf(d)'
    <3>1. CallOf(d) /\ NextPage(d)' = NextPage(d)
      BY <1>1, <1>3 DEF OneCallAtATime, NextPage
    <3>2. QED
      BY <1>2, <1>3, <1>4, <3>1 DEF CallOf
  <2>2. QED
    BY <1>1, <1>3, <2>1 DEF OneCallAtATime
<1>6. NothingWithoutTable' /\ CachedPages'
  BY <1>1, <1>3 DEF NothingWithoutTable, CachedPages, StaleTranslationsAreHarmless, VmcsPages
<1>7. ScriptsInv'
  <2>1. ASSUME NEW d \in CPUs, NEW p \in Frames, StillToDo(d, 1, p)
        PROVE  StillToDo(d, 1, p)'
    BY <1>3, <1>4, <2>1 DEF StillToDo
  <2>2. QED
    BY <1>1, <1>3, <2>1, InCallKeeps
<1>8. QED
  BY <1>4, <1>5, <1>6, <1>7 DEF ServicesInv

\* The new table hides nothing: where there was none, no page was mapped.
LEMMA LinkTableKeeps ==
    ASSUME ServicesInv, NEW c \in CPUs, LinkTable(c), UNCHANGED osRuns
    PROVE  ServicesInv'
<1>1. ServicesTypeOK /\ OneCallAtATime /\ NothingWithoutTable /\ CachedPages /\ ScriptsInv
  BY DEF ServicesInv
<1> DEFINE table == Region(NextPage(c))
<1>2. /\ at' = [at EXCEPT ![c] = "pages"] /\ at[c] = "table"
      /\ tables' = tables \union {table}
      /\ pte' = [p \in Frames |-> IF Region(p) = table THEN Absent ELSE pte[p]]
      /\ UNCHANGED <<identity, ActiveCpus, PagingLock, tlb, script, left, fault, osRuns>>
  BY DEF LinkTable
<1>3. table \notin tables
  BY <1>1, <1>2 DEF OneCallAtATime, CallOf
<1>4. pte' = pte
  <2>1. \A p \in Frames : Region(p) = table => pte[p] = Absent
    BY <1>1, <1>3 DEF NothingWithoutTable
  <2>2. pte = [p \in Frames |-> pte[p]]
    BY <1>1 DEF ServicesTypeOK
  <2>3. QED
    BY <1>2, <2>1, <2>2
<1>5. ServicesTypeOK' /\ at'[c] = "pages" /\ \A d \in CPUs \ {c} : at'[d] = at[d]
  BY <1>1, <1>2, <1>4 DEF ServicesTypeOK
<1>6. OneCallAtATime'
  <2>1. ASSUME NEW d \in CPUs PROVE CallOf(d)'
    <3>1. CallOf(d) /\ NextPage(d)' = NextPage(d)
      BY <1>1, <1>2 DEF OneCallAtATime, NextPage
    <3>2. d # c => at[d] = "start"
      BY <1>1, <1>2, OneInCall
    <3>3. QED
      BY <1>2, <1>5, <3>1, <3>2 DEF CallOf
  <2>2. QED
    BY <1>1, <1>2, <2>1 DEF OneCallAtATime
<1>7. NothingWithoutTable' /\ CachedPages'
  BY <1>1, <1>2, <1>4 DEF NothingWithoutTable, CachedPages, StaleTranslationsAreHarmless, VmcsPages
<1>8. ScriptsInv'
  <2>1. ASSUME NEW d \in CPUs, NEW p \in Frames, StillToDo(d, 1, p)
        PROVE  StillToDo(d, 1, p)'
    BY <1>2, <1>5, <2>1 DEF StillToDo
  <2>2. QED
    BY <1>1, <1>2, <1>4, <2>1, InCallKeeps
<1>9. QED
  BY <1>5, <1>6, <1>7, <1>8 DEF ServicesInv

\* Changing one translation of one processor leaves the others.
LEMMA OneTranslation ==
    ASSUME tlb \in [CPUs -> [Frames -> Types]], NEW c \in CPUs, NEW p \in Frames, NEW type \in Types,
           tlb' = [tlb EXCEPT ![c][p] = type]
    PROVE  /\ tlb' \in [CPUs -> [Frames -> Types]]
           /\ \A d \in CPUs, q \in Frames :
                 tlb'[d][q] = IF d = c /\ q = p THEN type ELSE tlb[d][q]
<1> DEFINE own == [tlb[c] EXCEPT ![p] = type]
<1>1. tlb[c] \in [Frames -> Types]
  OBVIOUS
<1>2. own \in [Frames -> Types] /\ \A q \in Frames : own[q] = IF q = p THEN type ELSE tlb[c][q]
  BY <1>1
<1>3. tlb' = [tlb EXCEPT ![c] = own]
  OBVIOUS
<1> HIDE DEF own
<1>4. \A d \in CPUs : tlb'[d] = IF d = c THEN own ELSE tlb[d]
  BY <1>3
<1>5. tlb' \in [CPUs -> [Frames -> Types]]
  BY <1>2, <1>3
<1>6. QED
  BY <1>2, <1>4, <1>5

\* A page of the call is done: the call has come past it, and past no other.
PagePassed(c, p) ==
    /\ at[c] = "pages" /\ p \in left[c] /\ p \in Frames /\ left' = [left EXCEPT ![c] = @ \ {p}]
    /\ pte' \in [Frames -> Types] /\ \A q \in Frames \ {p} : pte'[q] = pte[q]
    /\ osRuns /\ pte[Screen] # Absent => pte'[Screen] # Absent
    /\ tlb' \in [CPUs -> [Frames -> Types]]
    /\ \A d \in CPUs, q \in Frames : tlb'[d][q] # Absent => tlb[d][q] # Absent
    /\ UNCHANGED <<tables, identity, ActiveCpus, PagingLock, script, at, fault, osRuns>>

\* When a call has passed a page the scripts are as they were.
LEMMA PagePassedKeeps ==
    ASSUME ServicesInv, NEW c \in CPUs, NEW p, PagePassed(c, p)
    PROVE  /\ ServicesTypeOK' /\ OneCallAtATime'
           /\ CountedFirst' /\ WokenOnce' /\ OsRunsLast' /\ BspPages' /\ ApPages'
           /\ \A d \in CPUs, i \in Nat, q \in Frames :
                 StillToDo(d, i, q) /\ ~(d = c /\ i = 1 /\ q = p) => StillToDo(d, i, q)'
<1>1. ServicesTypeOK /\ OneCallAtATime /\ ScriptsInv
  BY DEF ServicesInv
<1>2. ServicesTypeOK'
  BY <1>1 DEF ServicesTypeOK, PagePassed
<1>3. left'[c] = left[c] \ {p} /\ \A d \in CPUs \ {c} : left'[d] = left[d]
  BY <1>1 DEF ServicesTypeOK, PagePassed
<1>4. OneCallAtATime'
  <2>1. ASSUME NEW d \in CPUs PROVE CallOf(d)'
    <3>1. CallOf(d)
      BY <1>1 DEF OneCallAtATime
    <3>2. CASE d = c
      BY <1>3, <3>1, <3>2 DEF CallOf, PagePassed
    <3>3. CASE d # c
      BY <1>3, <3>1, <3>3 DEF CallOf, PagePassed, NextPage
    <3>4. QED
      BY <3>2, <3>3
  <2>2. QED
    BY <1>1, <2>1 DEF OneCallAtATime, PagePassed
<1>5. CountedFirst' /\ WokenOnce' /\ OsRunsLast'
  BY <1>1 DEF ScriptsInv, CountedFirst, WokenOnce, OsRunsLast, Places, ChecksAnother, PagePassed
<1>6. BspPages' /\ ApPages'
  BY <1>1 DEF ScriptsInv, BspPages, ApPages, ApPagesOf, Places, Unmaps, LowPages, VmcsPages, PagePassed
<1>7. ASSUME NEW d \in CPUs, NEW i \in Nat, NEW q \in Frames, StillToDo(d, i, q),
             ~(d = c /\ i = 1 /\ q = p)
      PROVE  StillToDo(d, i, q)'
  BY <1>3, <1>7 DEF StillToDo, PagePassed
<1>8. QED
  BY <1>2, <1>4, <1>5, <1>6, <1>7

\* MapPage: the page is there, and its translation is gone in this TLB.
LEMMA MapPageKeeps ==
    ASSUME ServicesInv, NEW c \in CPUs, MapPage(c), UNCHANGED osRuns
    PROVE  ServicesInv'
<1> DEFINE p == NextPage(c)
<1>1. ServicesTypeOK /\ OneCallAtATime /\ NothingWithoutTable /\ CachedPages /\ ScriptsInv
  BY DEF ServicesInv
<1>2. /\ script[c] # <<>> /\ Len(script[c]) \in Nat /\ 1 \in Places(c) /\ script[c][1] \in Calls
      /\ Head(script[c]) = script[c][1] /\ script[c][1].op = "map"
  BY <1>1, FirstCall DEF MapPage
<1>3. p \in left[c] /\ p \in Frames /\ at[c] = "pages"
  BY <1>1 DEF MapPage, NextPage, ServicesTypeOK
<1>4. Maps(script[c][1], p)
  BY <1>1, <1>2, <1>3 DEF OneCallAtATime, CallOf, Maps
<1>5. script[c][1].type \in {WriteBack, Uncacheable}
  BY <1>2, CallKinds
<1>6. /\ Region(p) \in tables
      /\ \/ /\ pte' = [pte EXCEPT ![p] = script[c][1].type]
            /\ tlb' = [tlb EXCEPT ![c][p] = Absent]
         \/ pte[p] # Absent /\ UNCHANGED <<pte, tlb>>
      /\ left' = [left EXCEPT ![c] = @ \ {p}]
      /\ UNCHANGED <<tables, identity, ActiveCpus, PagingLock, script, at, fault>>
  BY <1>2 DEF MapPage, PageDone
<1> HIDE DEF p
<1>7. Absent # WriteBack /\ Absent # Uncacheable
  BY DEF Absent, WriteBack, Uncacheable
<1>8. pte'[p] # Absent /\ \A q \in Frames \ {p} : pte'[q] = pte[q]
  BY <1>1, <1>3, <1>5, <1>6, <1>7 DEF ServicesTypeOK
<1>9. PagePassed(c, p)
  <2>1. pte' \in [Frames -> Types]
    BY <1>1, <1>5, <1>6 DEF ServicesTypeOK, Types
  <2>2. tlb \in [CPUs -> [Frames -> Types]] /\ Absent \in Types
    BY <1>1 DEF ServicesTypeOK, Types
  <2>3. /\ tlb' \in [CPUs -> [Frames -> Types]]
        /\ \A d \in CPUs, q \in Frames : tlb'[d][q] # Absent => tlb[d][q] # Absent
    <3>1. CASE tlb' = tlb
      BY <2>2, <3>1
    <3>2. CASE tlb' = [tlb EXCEPT ![c][p] = Absent]
      BY <1>3, <2>2, <3>2, OneTranslation
    <3>3. QED
      BY <1>6, <3>1, <3>2
  <2>4. pte[Screen] # Absent => pte'[Screen] # Absent
    BY <1>8, PageUse
  <2>5. QED
    BY <1>3, <1>6, <1>8, <2>1, <2>3, <2>4 DEF PagePassed
<1>10. \A q \in Frames : pte[q] # Absent => pte'[q] # Absent
  BY <1>8
<1>11. NothingWithoutTable' /\ CachedPages'
  BY <1>1, <1>6, <1>8, <1>9, <1>10
     DEF NothingWithoutTable, CachedPages, StaleTranslationsAreHarmless, VmcsPages, PagePassed
<1>12. /\ \A q \in Frames : ~Unmaps(script[c][1], q)
       /\ script' = script /\ osRuns' = osRuns
  BY <1>2, <1>6 DEF Unmaps
<1>13. AllCovered'
  <2> SUFFICES ASSUME NEW d \in CPUs, NEW i \in Places(d), NEW q \in Frames,
                      Needs(script[d][i], q), d # Bsp => q # Screen
               PROVE  Covered(d, i, q)'
    BY <1>12 DEF AllCovered, CoveredOf, Places, Needs
  <2>1. Covered(d, i, q)
    BY <1>1 DEF ScriptsInv, AllCovered, CoveredOf
  <2>2. CASE pte[q] # Absent /\ \A j \in 1..(i - 1) : ~Unmaps(script[d][j], q)
    BY <1>10, <1>12, <2>2 DEF Covered, Unmaps
  <2>3. ASSUME NEW k \in 1..(i - 1), Maps(script[d][k], q), StillToDo(d, k, q),
               \A j \in (k + 1)..(i - 1) : ~Unmaps(script[d][j], q)
        PROVE  Covered(d, i, q)'
    <3>1. CASE d = c /\ k = 1 /\ q = p
      <4>1. \A j \in 1..(i - 1) : j = 1 \/ j \in (k + 1)..(i - 1)
        BY <3>1
      <4>2. \A j \in 1..(i - 1) : ~Unmaps(script[d][j], q)
        BY <1>12, <2>3, <3>1, <4>1
      <4>3. QED
        BY <1>8, <1>12, <3>1, <4>2 DEF Covered, Unmaps
    <3>2. CASE ~(d = c /\ k = 1 /\ q = p)
      <4>1. StillToDo(d, k, q)'
        BY <1>9, <2>3, <3>2, PagePassedKeeps
      <4>2. QED
        BY <1>12, <2>3, <4>1 DEF Covered, Maps, Unmaps
    <3>3. QED
      BY <3>1, <3>2
  <2>4. QED
    BY <2>1, <2>2, <2>3 DEF Covered
<1>14. LowMemoryGoes'
  <2> SUFFICES ASSUME ~osRuns, NEW q \in LowPages \ {Screen}
               PROVE  Goes(q)'
    BY <1>12 DEF LowMemoryGoes, LowPages
  <2>1. Goes(q)
    BY <1>1 DEF ScriptsInv, LowMemoryGoes
  <2>2. c = Bsp
    BY <1>1, <1>2 DEF ScriptsInv, ApPages, ApPagesOf
  <2>3. q \in Frames /\ \A i \in Places(Bsp) : i \in Nat
    BY <1>1, PageUse DEF Places
  <2>4. CASE q = p
    <3>1. PICK j \in (1 + 1)..Len(script[Bsp]) : Unmaps(script[Bsp][j], q)
      BY <1>2, <1>4, <2>1, <2>2, <2>4 DEF Goes
    <3>2. j \in Places(Bsp) /\ j # 1
      BY <1>2, <2>2, <3>1 DEF Places
    <3>3. StillToDo(Bsp, j, q)'
      BY <3>2 DEF StillToDo
    <3>4. QED
      BY <1>12, <2>1, <3>1, <3>2, <3>3 DEF Goes, Places, Unmaps, Maps
  <2>5. CASE q # p
    <3>1. pte'[q] = pte[q] /\ Bsp \in CPUs
      BY <1>8, <2>3, <2>5, PageUse
    <3>2. \A i \in Places(Bsp) : StillToDo(Bsp, i, q) => StillToDo(Bsp, i, q)'
      BY <1>9, <2>3, <2>5, <3>1, PagePassedKeeps
    <3>3. QED
      BY <1>12, <2>1, <3>1, <3>2 DEF Goes, Places, Unmaps, Maps
  <2>6. QED
    BY <2>4, <2>5
<1>15. ScreenStays'
  <2>1. Bsp \in CPUs /\ Screen \in Frames
    BY PageUse
  <2>2. CASE pte[Screen] # Absent /\ \A i \in Places(Bsp) : ~Unmaps(script[Bsp][i], Screen)
    BY <1>10, <1>12, <2>1, <2>2 DEF ScreenStays, Unmaps, Places
  <2>3. ASSUME NEW i \in Places(Bsp), script[Bsp][i] = MapMemory({Screen}),
               StillToDo(Bsp, i, Screen),
               \A j \in (i + 1)..Len(script[Bsp]) : ~Unmaps(script[Bsp][j], Screen)
        PROVE  ScreenStays'
    <3>1. CASE Bsp = c /\ i = 1 /\ Screen = p
      <4>1. \A j \in Places(Bsp) : j = 1 \/ j \in (i + 1)..Len(script[Bsp])
        BY <1>2, <3>1 DEF Places
      <4>2. \A j \in Places(Bsp) : ~Unmaps(script[Bsp][j], Screen)
        BY <1>12, <2>1, <2>3, <3>1, <4>1
      <4>3. QED
        BY <1>8, <1>12, <3>1, <4>2 DEF ScreenStays, Unmaps, Places
    <3>2. CASE ~(Bsp = c /\ i = 1 /\ Screen = p)
      <4>1. i \in Nat
        BY DEF Places
      <4>2. StillToDo(Bsp, i, Screen)'
        BY <1>9, <2>1, <2>3, <3>2, <4>1, PagePassedKeeps
      <4>3. QED
        BY <1>12, <2>3, <4>2 DEF ScreenStays, Places, Unmaps, MapMemory, MapMemoryInvalidate
    <3>3. QED
      BY <3>1, <3>2
  <2>4. QED
    BY <1>1, <2>2, <2>3 DEF ScriptsInv, ScreenStays
<1>16. IdentityUntilScreen'
  BY <1>1, <1>6, <1>10, PageUse DEF ScriptsInv, IdentityUntilScreen, Places, Unmaps
<1>17. QED
  BY <1>9, <1>11, <1>13, <1>14, <1>15, <1>16, PagePassedKeeps DEF ServicesInv, ScriptsInv

\* The entry goes, and with it what the processor itself has cached.
EntryGoes(c, p) ==
    /\ Unmaps(script[c][1], p)
    /\ pte'[p] = Absent
    /\ \A d \in CPUs, q \in Frames : tlb'[d][q] = IF d = c /\ q = p THEN Absent ELSE tlb[d][q]

\* An unmap by a physical address reaches nothing: it is used once the operating system
\* runs, when PML4 entry 0 is gone.
LEMMA UnmapPageEffect ==
    ASSUME ServicesInv, NEW c \in CPUs, UnmapPage(c), UNCHANGED osRuns
    PROVE  LET p == NextPage(c)
           IN  /\ script[c] # <<>> /\ Len(script[c]) \in Nat /\ 1 \in Places(c)
               /\ script[c][1].op = "unmap" /\ p \in Frames
               /\ PagePassed(c, p)
               /\ \/ EntryGoes(c, p)
                  \/ UNCHANGED <<pte, tlb>> /\ (Unmaps(script[c][1], p) => pte[p] = Absent)
<1> DEFINE p == NextPage(c)
<1>1. ServicesTypeOK /\ OneCallAtATime /\ ScriptsInv
  BY DEF ServicesInv
<1>2. /\ script[c] # <<>> /\ Len(script[c]) \in Nat /\ 1 \in Places(c) /\ script[c][1] \in Calls
      /\ Head(script[c]) = script[c][1] /\ script[c][1].op = "unmap"
  BY <1>1, FirstCall DEF UnmapPage
<1>3. p \in left[c] /\ p \in Frames /\ at[c] = "pages"
  BY <1>1 DEF UnmapPage, NextPage, ServicesTypeOK
<1>4. p \in script[c][1].pages
  BY <1>1, <1>3 DEF OneCallAtATime, CallOf
<1>5. script[c][1].physical => osRuns
  <2>1. CASE c = Bsp
    BY <1>1, <1>2, <2>1 DEF ScriptsInv, BspPages
  <2>2. CASE c # Bsp
    BY <1>1, <1>2, <2>2 DEF ScriptsInv, ApPages, ApPagesOf
  <2>3. QED
    BY <2>1, <2>2
<1>6. osRuns => ~identity
  BY <1>1 DEF ScriptsInv, OsRunsLast
<1>7. /\ \/ /\ Reaches(script[c][1]) /\ pte[p] # Absent
            /\ pte' = [pte EXCEPT ![p] = Absent]
            /\ tlb' = IF Invalidates(script[c][1]) THEN [tlb EXCEPT ![c][p] = Absent] ELSE tlb
         \/ ~(Reaches(script[c][1]) /\ pte[p] # Absent) /\ UNCHANGED <<pte, tlb>>
      /\ left' = [left EXCEPT ![c] = @ \ {p}]
      /\ UNCHANGED <<tables, identity, ActiveCpus, PagingLock, script, at, fault>>
  BY <1>2 DEF UnmapPage, PageDone
<1> HIDE DEF p
<1>8. tlb \in [CPUs -> [Frames -> Types]] /\ pte \in [Frames -> Types] /\ Absent \in Types
  BY <1>1 DEF ServicesTypeOK, Types
<1>9. CASE Reaches(script[c][1]) /\ pte[p] # Absent
  <2>1. ~script[c][1].physical
    BY <1>5, <1>6, <1>9 DEF Reaches
  <2>2. pte' = [pte EXCEPT ![p] = Absent] /\ tlb' = [tlb EXCEPT ![c][p] = Absent]
    BY <1>7, <1>9, <2>1 DEF Invalidates
  <2>3. /\ tlb' \in [CPUs -> [Frames -> Types]]
        /\ \A d \in CPUs, q \in Frames : tlb'[d][q] = IF d = c /\ q = p THEN Absent ELSE tlb[d][q]
    BY <1>3, <1>8, <2>2, OneTranslation
  <2>4. pte' \in [Frames -> Types] /\ pte'[p] = Absent /\ \A q \in Frames \ {p} : pte'[q] = pte[q]
    BY <1>3, <1>8, <2>2
  <2>5. EntryGoes(c, p)
    BY <1>2, <1>4, <2>1, <2>3, <2>4 DEF EntryGoes, Unmaps
  <2>6. osRuns => p # Screen
    <3>1. CASE c = Bsp
      BY <1>1, <1>2, <2>1, <3>1 DEF ScriptsInv, BspPages
    <3>2. CASE c # Bsp
      <4>1. p = Vmcs(c)
        BY <1>1, <1>2, <1>3, <2>5, <3>2 DEF ScriptsInv, ApPages, ApPagesOf, EntryGoes
      <4>2. QED
        BY <4>1, PageUse
    <3>3. QED
      BY <3>1, <3>2
  <2>7. osRuns /\ pte[Screen] # Absent => pte'[Screen] # Absent
    BY <2>4, <2>6, PageUse
  <2>8. PagePassed(c, p)
    BY <1>3, <1>7, <2>3, <2>4, <2>7 DEF PagePassed
  <2>9. QED
    BY <1>2, <1>3, <2>5, <2>8 DEF p
<1>10. CASE ~(Reaches(script[c][1]) /\ pte[p] # Absent)
  <2>1. UNCHANGED <<pte, tlb>>
    BY <1>7, <1>10
  <2>2. PagePassed(c, p)
    BY <1>3, <1>7, <1>8, <2>1 DEF PagePassed
  <2>3. Unmaps(script[c][1], p) => pte[p] = Absent
    BY <1>10 DEF Unmaps, Reaches
  <2>4. QED
    BY <1>2, <1>3, <2>1, <2>2, <2>3 DEF p
<1>11. QED
  BY <1>9, <1>10

\* Nobody else is going to use a page that is unmapped.
LEMMA NobodyElseNeeds ==
    ASSUME ServicesInv, NEW c \in CPUs, script[c] # <<>>, NEW p \in Frames, Unmaps(script[c][1], p),
           NEW d \in CPUs \ {c}, NEW i \in Places(d), Needs(script[d][i], p)
    PROVE  d # Bsp /\ p = Screen
<1>1. ServicesTypeOK /\ ScriptsInv
  BY DEF ServicesInv
<1>2. 1 \in Places(c) /\ script[d][i] \in Calls /\ script[c][1] \in Calls
  BY <1>1, Script
<1>3. CASE c = Bsp
  <2>1. ~osRuns /\ (p \in LowPages \/ p = Vmcs(Bsp))
    BY <1>1, <1>2, <1>3 DEF ScriptsInv, BspPages, Unmaps
  <2>2. script[d][i].op = "access" /\ script[d][i].page = p /\ p \in {Screen, Vmcs(d)}
    BY <1>1, <1>3, <2>1 DEF ScriptsInv, ApPages, ApPagesOf, Needs
  <2>3. QED
    BY <1>3, <2>1, <2>2, PageUse
<1>4. CASE c # Bsp
  <2>1. p = Vmcs(c) /\ p \in VmcsPages
    BY <1>1, <1>2, <1>4, PageUse DEF ScriptsInv, ApPages, ApPagesOf
  <2>2. d = Bsp
    <3>1. SUFFICES ASSUME d # Bsp PROVE FALSE
      OBVIOUS
    <3>2. script[d][i].op = "access" /\ script[d][i].page = p
      BY <1>1, <3>1 DEF ScriptsInv, ApPages, ApPagesOf, Needs, Risks
    <3>3. p = Vmcs(d)
      BY <1>1, <2>1, <3>1, <3>2 DEF ScriptsInv, ApPages, ApPagesOf
    <3>4. QED
      BY <2>1, <3>3, PageUse
  <2>3. ActiveCpus # 0
    BY <1>1, <1>4 DEF ScriptsInv, CountedFirst
  <2>4. script[Bsp][i].op # "access"
    BY <1>1, <1>4, <2>1, <2>2, <2>3 DEF ScriptsInv, CountedFirst, ChecksAnother, Needs
  <2>5. script[Bsp][i].op = "wake" /\ Vmcs(script[Bsp][i].cpu) = Vmcs(c)
    BY <2>1, <2>2, <2>4 DEF Needs
  <2>6. script[Bsp][i].cpu = c
    BY <1>2, <2>2, <2>5, CallKinds, PageUse
  <2>7. QED
    BY <1>1, <2>2, <2>5, <2>6 DEF ScriptsInv, WokenOnce
<1>5. QED
  BY <1>3, <1>4

\* UnmapPage: nobody misses the page.
LEMMA UnmapPageKeeps ==
    ASSUME ServicesInv, NEW c \in CPUs, UnmapPage(c), UNCHANGED osRuns
    PROVE  ServicesInv'
<1> DEFINE p == NextPage(c)
<1>1. ServicesTypeOK /\ OneCallAtATime /\ NothingWithoutTable /\ CachedPages /\ ScriptsInv
  BY DEF ServicesInv
<1>2. /\ script[c] # <<>> /\ Len(script[c]) \in Nat /\ 1 \in Places(c)
      /\ script[c][1].op = "unmap" /\ p \in Frames
      /\ PagePassed(c, p)
      /\ \/ EntryGoes(c, p)
         \/ UNCHANGED <<pte, tlb>> /\ (Unmaps(script[c][1], p) => pte[p] = Absent)
  BY UnmapPageEffect
<1> HIDE DEF p
<1>3. /\ \A q \in Frames : ~Maps(script[c][1], q)
      /\ UNCHANGED <<script, osRuns, identity, tables>>
      /\ \A q \in Frames \ {p} : pte'[q] = pte[q]
      /\ \A q \in Frames : pte'[q] # Absent => pte[q] # Absent
  BY <1>2 DEF Maps, PagePassed, EntryGoes
<1>4. \A d \in CPUs, i \in Nat, q \in Frames :
          StillToDo(d, i, q) /\ ~(d = c /\ i = 1 /\ q = p) => StillToDo(d, i, q)'
  BY <1>2, PagePassedKeeps
<1>5. NothingWithoutTable'
  BY <1>1, <1>2, <1>3 DEF NothingWithoutTable, PagePassed
<1>6. CachedPages'
  <2>1. ASSUME NEW d \in CPUs, NEW q \in Frames, tlb'[d][q] # Absent, pte'[q] = Absent
        PROVE  q = Screen \/ q \in VmcsPages
    <3>1. tlb[d][q] # Absent
      BY <1>2, <2>1 DEF PagePassed
    <3>2. CASE pte[q] = Absent
      BY <1>1, <3>1, <3>2 DEF CachedPages, StaleTranslationsAreHarmless
    <3>3. CASE pte[q] # Absent
      <4>1. q = p /\ EntryGoes(c, p)
        BY <1>2, <1>3, <2>1, <3>3
      <4>2. d # c
        BY <2>1, <4>1 DEF EntryGoes
      <4>3. CASE c = Bsp
        <5>1. ~osRuns
          BY <1>1, <1>2, <4>1, <4>3 DEF ScriptsInv, BspPages, EntryGoes, Unmaps
        <5>2. QED
          BY <1>1, <3>1, <4>2, <4>3, <5>1 DEF CachedPages
      <4>4. CASE c # Bsp
        <5>1. q = Vmcs(c)
          BY <1>1, <1>2, <4>1, <4>4 DEF ScriptsInv, ApPages, ApPagesOf, EntryGoes
        <5>2. QED
          BY <5>1, PageUse
      <4>5. QED
        BY <4>3, <4>4
    <3>4. QED
      BY <3>2, <3>3
  <2>2. QED
    BY <1>1, <1>2, <1>3, <2>1
       DEF CachedPages, StaleTranslationsAreHarmless, VmcsPages, PagePassed
<1>7. AllCovered'
  <2> SUFFICES ASSUME NEW d \in CPUs, NEW i \in Places(d), NEW q \in Frames,
                      Needs(script[d][i], q), d # Bsp => q # Screen
               PROVE  Covered(d, i, q)'
    BY <1>3 DEF AllCovered, CoveredOf, Places, Needs
  <2>1. Covered(d, i, q)
    BY <1>1 DEF ScriptsInv, AllCovered, CoveredOf
  <2>2. i \in Nat /\ i # 0
    BY DEF Places
  <2>3. CASE pte[q] # Absent /\ \A j \in 1..(i - 1) : ~Unmaps(script[d][j], q)
    <3>1. pte'[q] # Absent
      <4>1. SUFFICES ASSUME pte'[q] = Absent PROVE FALSE
        OBVIOUS
      <4>2. q = p /\ Unmaps(script[c][1], p)
        BY <1>2, <1>3, <2>3, <4>1 DEF EntryGoes
      <4>3. d = c
        BY <1>2, <4>2, NobodyElseNeeds
      <4>4. i # 1
        BY <1>2, <4>3 DEF Needs
      <4>5. 1 \in 1..(i - 1)
        BY <2>2, <4>4
      <4>6. QED
        BY <2>3, <4>2, <4>3, <4>5
    <3>2. QED
      BY <1>3, <2>3, <3>1 DEF Covered, Unmaps
  <2>4. ASSUME NEW k \in 1..(i - 1), Maps(script[d][k], q), StillToDo(d, k, q),
               \A j \in (k + 1)..(i - 1) : ~Unmaps(script[d][j], q)
        PROVE  Covered(d, i, q)'
    <3>1. k \in Nat /\ ~(d = c /\ k = 1)
      BY <1>3, <2>4
    <3>2. StillToDo(d, k, q)'
      BY <1>4, <2>4, <3>1
    <3>3. QED
      BY <1>3, <2>4, <3>2 DEF Covered, Maps, Unmaps
  <2>5. QED
    BY <2>1, <2>3, <2>4 DEF Covered
<1>8. LowMemoryGoes'
  <2> SUFFICES ASSUME ~osRuns, NEW q \in LowPages \ {Screen}
               PROVE  Goes(q)'
    BY <1>3 DEF LowMemoryGoes, LowPages
  <2>1. Goes(q)
    BY <1>1 DEF ScriptsInv, LowMemoryGoes
  <2>2. ASSUME pte'[q] # Absent
        PROVE  \E i \in Places(Bsp) : Unmaps(script[Bsp][i], q) /\ StillToDo(Bsp, i, q)'
    <3>1. Bsp \in CPUs /\ q \in Frames
      BY PageUse
    <3>2. PICK i \in Places(Bsp) : Unmaps(script[Bsp][i], q) /\ StillToDo(Bsp, i, q)
      BY <1>3, <2>1, <2>2, <3>1 DEF Goes
    <3>3. ~(Bsp = c /\ i = 1 /\ q = p)
      BY <1>2, <2>2, <3>2 DEF EntryGoes
    <3>4. i \in Nat
      BY DEF Places
    <3>5. QED
      BY <1>4, <3>1, <3>2, <3>3, <3>4
  <2>3. QED
    BY <1>3, <2>1, <2>2 DEF Goes, Places, Unmaps, Maps
<1>9. ScreenStays'
  <2>1. Bsp \in CPUs /\ Screen \in Frames
    BY PageUse
  <2>2. CASE pte[Screen] # Absent /\ \A i \in Places(Bsp) : ~Unmaps(script[Bsp][i], Screen)
    <3>1. pte'[Screen] # Absent
      <4>1. SUFFICES ASSUME pte'[Screen] = Absent PROVE FALSE
        OBVIOUS
      <4>2. Unmaps(script[c][1], Screen)
        BY <1>2, <1>3, <2>1, <2>2, <4>1 DEF EntryGoes
      <4>3. c # Bsp
        BY <1>2, <2>2, <4>2
      <4>4. Screen = Vmcs(c)
        BY <1>1, <1>2, <2>1, <4>2, <4>3 DEF ScriptsInv, ApPages, ApPagesOf
      <4>5. QED
        BY <4>4, PageUse
    <3>2. QED
      BY <1>3, <2>2, <3>1 DEF ScreenStays, Unmaps, Places
  <2>3. ASSUME NEW i \in Places(Bsp), script[Bsp][i] = MapMemory({Screen}),
               StillToDo(Bsp, i, Screen),
               \A j \in (i + 1)..Len(script[Bsp]) : ~Unmaps(script[Bsp][j], Screen)
        PROVE  ScreenStays'
    <3>1. Maps(script[Bsp][i], Screen) /\ i \in Nat
      BY <2>3 DEF Maps, MapMemory, MapMemoryInvalidate, Places
    <3>2. StillToDo(Bsp, i, Screen)'
      BY <1>3, <1>4, <2>1, <2>3, <3>1
    <3>3. QED
      BY <1>3, <2>3, <3>2 DEF ScreenStays, Places, Unmaps, MapMemory, MapMemoryInvalidate
  <2>4. QED
    BY <1>1, <2>2, <2>3 DEF ScriptsInv, ScreenStays
<1>10. IdentityUntilScreen'
  <2>1. SUFFICES ASSUME identity
                 PROVE  /\ pte'[Screen] # Absent
                        /\ \E j \in Places(Bsp) :
                              /\ script[Bsp][j].op = "unmapPml4"
                              /\ \A i \in 1..(j - 1) : ~Unmaps(script[Bsp][i], Screen)
    BY <1>3 DEF IdentityUntilScreen, Places, Unmaps
  <2>2. PICK j \in Places(Bsp) : /\ script[Bsp][j].op = "unmapPml4"
                                 /\ \A i \in 1..(j - 1) : ~Unmaps(script[Bsp][i], Screen)
    BY <1>1, <2>1 DEF ScriptsInv, IdentityUntilScreen
  <2>3. pte'[Screen] # Absent
    <3>1. SUFFICES ASSUME pte'[Screen] = Absent PROVE FALSE
      OBVIOUS
    <3>2. Screen \in Frames /\ pte[Screen] # Absent
      BY <1>1, <2>1, PageUse DEF ScriptsInv, IdentityUntilScreen
    <3>3. Unmaps(script[c][1], Screen)
      BY <1>2, <1>3, <3>1, <3>2 DEF EntryGoes
    <3>4. c # Bsp
      <4>1. SUFFICES ASSUME c = Bsp PROVE FALSE
        OBVIOUS
      <4>2. j # 1
        BY <1>2, <2>2, <4>1
      <4>3. 1 \in 1..(j - 1)
        BY <4>2 DEF Places
      <4>4. QED
        BY <2>2, <3>3, <4>1, <4>3
    <3>5. Screen = Vmcs(c)
      BY <1>1, <1>2, <3>2, <3>3, <3>4 DEF ScriptsInv, ApPages, ApPagesOf
    <3>6. QED
      BY <3>5, PageUse
  <2>4. QED
    BY <2>2, <2>3
<1>11. QED
  BY <1>2, <1>5, <1>6, <1>7, <1>8, <1>9, <1>10, PagePassedKeeps DEF ServicesInv, ScriptsInv

-------------------------------------------------------------------------------
(* The steps that end a call. *)

\* Only in MapMemory and UnmapMemory is there a middle.
LEMMA AtStart ==
    ASSUME ServicesInv, NEW c \in CPUs, script[c][1].op \notin {"map", "unmap"}
    PROVE  at[c] = "start"
  BY DEF ServicesInv, OneCallAtATime, CallOf

\* A call that ends.
LEMMA CallEndsKeeps ==
    ASSUME ServicesInv, NEW c \in CPUs, GoesOn(c),
           script' = [script EXCEPT ![c] = Tail(@)], at' = [at EXCEPT ![c] = "start"],
           UNCHANGED <<pte, tables, ActiveCpus, left, fault, osRuns>>,
           identity' \in BOOLEAN, identity' => identity,
           tlb' \in [CPUs -> [Frames -> Types]], PagingLock' \in CPUs \union {NoCpu},
           ActiveCpus = 0 => PagingLock' = NoCpu,
           \A d \in CPUs \ {c} : at[d] # "start" => PagingLock' = PagingLock,
           script[c][1].op \notin {"count", "wake"},
           script[c][1].op = "unmapPml4" => ~identity'
    PROVE  ServicesTypeOK' /\ OneCallAtATime' /\ ScriptsInv'
<1>1. ServicesTypeOK /\ OneCallAtATime /\ ScriptsInv
  BY DEF ServicesInv
<1>2. script'[c] \in Seq(Calls)
  BY <1>1, ScriptGoesOn
<1>3. ServicesTypeOK'
  BY <1>1, <1>2 DEF ServicesTypeOK, GoesOn
<1>4. at'[c] = "start" /\ \A d \in CPUs \ {c} : Stays(d)
  BY <1>1 DEF ServicesTypeOK, Stays
<1>5. OneCallAtATime'
  <2>1. ASSUME NEW d \in CPUs PROVE CallOf(d)'
    <3>1. CASE d = c
      BY <1>4, <3>1 DEF CallOf
    <3>2. CASE d # c
      <4>1. CallOf(d)
        BY <1>1 DEF OneCallAtATime
      <4>2. Stays(d)
        BY <1>4, <3>2
      <4>3. NextPage(d)' = NextPage(d)
        BY <4>2 DEF Stays, NextPage
      <4>4. QED
        BY <3>2, <4>1, <4>2, <4>3 DEF CallOf, Stays
    <3>3. QED
      BY <3>1, <3>2
  <2>2. QED
    BY <2>1 DEF OneCallAtATime
<1>6. ScriptsInv'
  BY <1>1, <1>4, GoesOnKeeps
<1>7. QED
  BY <1>3, <1>5, <1>6

\* LeaveCall: the ASSERT in ReleaseLock holds.
LEMMA LeaveCallKeeps ==
    ASSUME ServicesInv, NEW c \in CPUs, LeaveCall(c), UNCHANGED osRuns
    PROVE  ServicesInv' /\ UNCHANGED fault
<1>1. ServicesTypeOK /\ OneCallAtATime /\ NothingWithoutTable /\ CachedPages /\ ScriptsInv
  BY DEF ServicesInv
<1>2. PICK op \in {"map", "unmap"} : Does(c, op)
  BY DEF LeaveCall
<1>3. script[c] # <<>> /\ script[c][1].op \in {"map", "unmap"}
  BY <1>1, <1>2, FirstCall
<1>4. at[c] = "pages" /\ left[c] = {}
  BY DEF LeaveCall
<1>5. ActiveCpus # 0 => PagingLock = c
  BY <1>1, <1>4 DEF OneCallAtATime, CallOf
<1>6. /\ script' = [script EXCEPT ![c] = Tail(@)] /\ at' = [at EXCEPT ![c] = "start"]
      /\ PagingLock' = IF ActiveCpus # 0 THEN NoCpu ELSE PagingLock
      /\ UNCHANGED <<pte, tables, identity, ActiveCpus, tlb, left, fault>>
  BY <1>5 DEF LeaveCall, NeedsLock, LockAfter, Ends
<1>7. script'[c] = Tail(script[c]) /\ at'[c] = "start"
  BY <1>1, <1>6 DEF ServicesTypeOK
<1>8. GoesOn(c)
  BY <1>3, <1>4, <1>7 DEF GoesOn
<1>9. \A d \in CPUs \ {c} : at[d] = "start"
  BY <1>1, <1>4, OneInCall
<1>10. /\ identity' \in BOOLEAN /\ tlb' \in [CPUs -> [Frames -> Types]]
       /\ PagingLock' \in CPUs \union {NoCpu} /\ (ActiveCpus = 0 => PagingLock' = NoCpu)
  BY <1>1, <1>6 DEF ServicesTypeOK, OneCallAtATime
<1>11. ServicesTypeOK' /\ OneCallAtATime' /\ ScriptsInv'
  BY <1>3, <1>6, <1>8, <1>9, <1>10, CallEndsKeeps
<1>12. NothingWithoutTable' /\ CachedPages'
  BY <1>1, <1>6 DEF NothingWithoutTable, CachedPages, StaleTranslationsAreHarmless, VmcsPages
<1>13. QED
  BY <1>6, <1>11, <1>12 DEF ServicesInv

\* The calls that take one step: they only end.
LEMMA OneStepCallKeeps ==
    ASSUME ServicesInv, NEW c \in CPUs, NEW op \in {"unmapPml4", "awaitSignal", "orElse", "access", "accessPast"},
           Does(c, op),
           Ends(c), identity' = (identity /\ op # "unmapPml4"),
           tlb' \in [CPUs -> [Frames -> Types]],
           UNCHANGED <<pte, tables, ActiveCpus, PagingLock, at, left, fault, osRuns>>
    PROVE  ServicesTypeOK' /\ OneCallAtATime' /\ ScriptsInv'
<1>1. ServicesTypeOK /\ OneCallAtATime
  BY DEF ServicesInv
<1>2. script[c] # <<>> /\ script[c][1].op = op
  BY <1>1, FirstCall
<1>3. at[c] = "start"
  BY <1>2, AtStart
<1>4. script' = [script EXCEPT ![c] = Tail(@)] /\ at' = [at EXCEPT ![c] = "start"]
  BY <1>1, <1>3 DEF Ends, ServicesTypeOK
<1>5. GoesOn(c)
  BY <1>1, <1>2, <1>3, <1>4 DEF GoesOn, ServicesTypeOK
<1>6. /\ identity' \in BOOLEAN /\ (identity' => identity) /\ (op = "unmapPml4" => ~identity')
      /\ PagingLock' \in CPUs \union {NoCpu} /\ (ActiveCpus = 0 => PagingLock' = NoCpu)
  BY <1>1 DEF ServicesTypeOK, OneCallAtATime
<1>7. QED
  BY <1>2, <1>4, <1>5, <1>6, CallEndsKeeps

\* UnmapPML4Entry: the BSP has not unmapped the screen yet.
LEMMA UnmapPML4EntryKeeps ==
    ASSUME ServicesInv, NEW c \in CPUs, UnmapPML4Entry(c), UNCHANGED osRuns
    PROVE  ServicesInv'
<1>1. ServicesTypeOK /\ NothingWithoutTable /\ CachedPages
  BY DEF ServicesInv
<1>2. /\ Does(c, "unmapPml4") /\ Ends(c) /\ ~identity'
      /\ UNCHANGED <<pte, tables, ActiveCpus, PagingLock, tlb, at, left, fault>>
  BY DEF UnmapPML4Entry
<1>3. tlb' \in [CPUs -> [Frames -> Types]] /\ identity' = FALSE
  BY <1>1 DEF ServicesTypeOK, UnmapPML4Entry
<1>4. ServicesTypeOK' /\ OneCallAtATime' /\ ScriptsInv'
  BY <1>2, <1>3, OneStepCallKeeps
<1>5. NothingWithoutTable' /\ CachedPages'
  BY <1>1, <1>2 DEF NothingWithoutTable, CachedPages, StaleTranslationsAreHarmless, VmcsPages
<1>6. QED
  BY <1>4, <1>5 DEF ServicesInv

\* AwaitSignal changes nothing but the script.
LEMMA AwaitSignalKeeps ==
    ASSUME ServicesInv, NEW c \in CPUs, AwaitSignal(c)
    PROVE  ServicesInv'
<1>1. ServicesTypeOK /\ NothingWithoutTable /\ CachedPages
  BY DEF ServicesInv
<1>2. /\ Does(c, "awaitSignal") /\ Ends(c)
      /\ UNCHANGED <<pte, tables, identity, ActiveCpus, PagingLock, tlb, at, left, fault, osRuns>>
  BY DEF AwaitSignal
<1>3. tlb' \in [CPUs -> [Frames -> Types]] /\ identity' = (identity /\ "awaitSignal" # "unmapPml4")
  BY <1>1, <1>2 DEF ServicesTypeOK
<1>4. ServicesTypeOK' /\ OneCallAtATime' /\ ScriptsInv'
  BY <1>2, <1>3, OneStepCallKeeps
<1>5. NothingWithoutTable' /\ CachedPages'
  BY <1>1, <1>2 DEF NothingWithoutTable, CachedPages, StaleTranslationsAreHarmless, VmcsPages
<1>6. QED
  BY <1>4, <1>5 DEF ServicesInv

\* What a processor reads is mapped. Only another than the BSP may miss the screen.
LEMMA AccessIsMapped ==
    ASSUME ServicesInv, NEW c \in CPUs, Does(c, "access"), pte[Head(script[c]).page] = Absent
    PROVE  c # Bsp /\ Head(script[c]).page = Screen
<1> DEFINE p == Head(script[c]).page
<1>1. ServicesTypeOK /\ ScriptsInv
  BY DEF ServicesInv
<1>2. /\ 1 \in Places(c) /\ script[c][1] \in Calls /\ Head(script[c]) = script[c][1]
      /\ script[c][1].op = "access"
  BY <1>1, FirstCall
<1>3. p \in Frames /\ Needs(script[c][1], p)
  BY <1>2, CallKinds DEF Needs
<1> HIDE DEF p
<1>4. ~Covered(c, 1, p)
  BY DEF Covered, p
<1>5. QED
  BY <1>1, <1>2, <1>3, <1>4 DEF ScriptsInv, AllCovered, CoveredOf, p

\* While the screen is away the BSP is about to map it again.
LEMMA ScreenIsAwayInTheWindow ==
    ASSUME ServicesInv, pte[Screen] = Absent
    PROVE  ScreenWindow
<1>1. ServicesTypeOK /\ ScreenStays /\ IdentityUntilScreen /\ Bsp \in CPUs
  BY PageUse DEF ServicesInv, ScriptsInv
<1>2. ~identity
  BY <1>1 DEF IdentityUntilScreen
<1>3. PICK i \in Places(Bsp) : script[Bsp][i] = MapMemory({Screen})
  BY <1>1 DEF ScreenStays
<1>4. DOMAIN script[Bsp] = Places(Bsp)
  BY <1>1, LenProperties DEF ServicesTypeOK, Places
<1>5. QED
  BY <1>2, <1>3, <1>4 DEF ScreenWindow

\* A processor that faults is out: it has nothing left to do.
LEMMA PageFaultKeeps ==
    ASSUME ServicesInv, NEW c \in CPUs \ {Bsp}, at[c] = "start",
           script' = [script EXCEPT ![c] = <<>>], fault' = [fault EXCEPT ![c] = {Screen}],
           UNCHANGED <<pte, tables, identity, ActiveCpus, PagingLock, tlb, at, left, osRuns>>
    PROVE  ServicesInv'
<1>1. ServicesTypeOK /\ OneCallAtATime /\ NothingWithoutTable /\ CachedPages /\ ScriptsInv
  BY DEF ServicesInv
<1>2. ServicesTypeOK'
  <2>1. <<>> \in Seq(Calls)
    OBVIOUS
  <2>2. script' \in [CPUs -> Seq(Calls)]
    BY <1>1, <2>1 DEF ServicesTypeOK
  <2>3. fault' \in [CPUs -> SUBSET Frames]
    BY <1>1, PageUse DEF ServicesTypeOK
  <2>4. QED
    BY <1>1, <2>2, <2>3 DEF ServicesTypeOK
<1>3. /\ script'[c] = <<>> /\ Places(c)' = {} /\ at'[c] = "start"
      /\ \A d \in CPUs \ {c} : Stays(d)
  BY <1>1 DEF ServicesTypeOK, Stays, Places
<1>4. Bsp \in CPUs /\ Stays(Bsp) /\ \A d \in CPUs : script[d] = <<>> => script'[d] = <<>>
  BY <1>3, PageUse DEF Stays
<1>5. OneCallAtATime'
  <2>1. ASSUME NEW d \in CPUs PROVE CallOf(d)'
    <3>1. CASE d = c
      BY <1>3, <3>1 DEF CallOf
    <3>2. CASE d # c
      <4>1. CallOf(d) /\ Stays(d) /\ NextPage(d)' = NextPage(d)
        BY <1>1, <1>3, <3>2 DEF OneCallAtATime, NextPage
      <4>2. QED
        BY <3>2, <4>1 DEF CallOf, Stays
    <3>3. QED
      BY <3>1, <3>2
  <2>2. QED
    BY <1>1, <2>1 DEF OneCallAtATime
<1>6. NothingWithoutTable' /\ CachedPages'
  BY <1>1 DEF NothingWithoutTable, CachedPages, StaleTranslationsAreHarmless, VmcsPages
<1>7. CountedFirst' /\ WokenOnce' /\ OsRunsLast' /\ BspPages'
  BY <1>1, <1>4, CountedGoesOn, WokenGoesOn, OsRunsGoesOn, BspPagesGoesOn DEF ScriptsInv
<1>8. LowMemoryGoes' /\ ScreenStays' /\ IdentityUntilScreen'
  BY <1>1, <1>4, LowMemoryGoesOn, ScreenGoesOn, IdentityGoesOn DEF ScriptsInv
<1>9. ApPages'
  <2>1. ASSUME NEW d \in CPUs \ {Bsp} PROVE ApPagesOf(d)'
    <3>1. CASE d = c
      BY <1>3, <3>1 DEF ApPagesOf
    <3>2. CASE d # c
      BY <1>1, <1>3, <3>2, ApPagesGoesOn DEF ScriptsInv, ApPages
    <3>3. QED
      BY <3>1, <3>2
  <2>2. QED
    BY <2>1 DEF ApPages
<1>10. AllCovered'
  <2>1. ASSUME NEW d \in CPUs PROVE CoveredOf(d)'
    <3>1. CASE d = c
      BY <1>3, <3>1 DEF CoveredOf
    <3>2. CASE d # c
      BY <1>1, <1>3, <3>2, CoveredGoesOn DEF ScriptsInv, AllCovered
    <3>3. QED
      BY <3>1, <3>2
  <2>2. QED
    BY <2>1 DEF AllCovered
<1>11. QED
  BY <1>2, <1>5, <1>6, <1>7, <1>8, <1>9, <1>10 DEF ServicesInv, ScriptsInv

-------------------------------------------------------------------------------
(* The steps of the boot. *)

\* CountCpu: no processor but the BSP is counted first, and then calls take the lock.
LEMMA CountCpuKeeps ==
    ASSUME ServicesInv, NEW c \in CPUs, CountCpu(c)
    PROVE  ServicesInv'
<1>1. ServicesTypeOK /\ OneCallAtATime /\ NothingWithoutTable /\ CachedPages /\ ScriptsInv
  BY DEF ServicesInv
<1>2. /\ Does(c, "count") /\ ActiveCpus' = ActiveCpus + 1
      /\ script' = [script EXCEPT ![c] = Tail(@)]
      /\ UNCHANGED <<pte, tables, identity, PagingLock, tlb, at, left, fault, osRuns>>
  BY DEF CountCpu, Ends
<1>3. script[c] # <<>> /\ script[c][1].op = "count" /\ 1 \in Places(c)
  BY <1>1, <1>2, FirstCall
<1>4. at[c] = "start"
  BY <1>3, AtStart
<1>5. GoesOn(c) /\ \A d \in CPUs \ {c} : Stays(d)
  BY <1>1, <1>2, <1>3, <1>4 DEF GoesOn, Stays, ServicesTypeOK
<1>6. ActiveCpus' \in Nat /\ ActiveCpus' # 0
  BY <1>1, <1>2 DEF ServicesTypeOK
<1>7. ServicesTypeOK'
  <2>1. script'[c] \in Seq(Calls)
    BY <1>1, <1>5, ScriptGoesOn
  <2>2. QED
    BY <1>1, <1>2, <1>6, <2>1 DEF ServicesTypeOK, GoesOn
<1>8. OneCallAtATime'
  <2>1. ASSUME NEW d \in CPUs PROVE CallOf(d)'
    <3>1. CASE d = c
      BY <1>2, <1>4, <3>1 DEF CallOf
    <3>2. CASE d # c
      <4>1. CallOf(d) /\ Stays(d) /\ NextPage(d)' = NextPage(d)
        BY <1>1, <1>2, <1>5, <3>2 DEF OneCallAtATime, NextPage
      <4>2. ActiveCpus = 0 => at[d] = "start"
        <5>1. SUFFICES ASSUME ActiveCpus = 0, at[d] # "start" PROVE FALSE
          OBVIOUS
        <5>2. d = Bsp
          BY <4>1, <5>1 DEF CallOf
        <5>3. QED
          BY <1>1, <1>3, <3>2, <5>1, <5>2 DEF ScriptsInv, CountedFirst
      <4>3. QED
        BY <1>2, <1>6, <4>1, <4>2 DEF CallOf, Stays
    <3>3. QED
      BY <3>1, <3>2
  <2>2. QED
    BY <1>6, <2>1 DEF OneCallAtATime
<1>9. NothingWithoutTable' /\ CachedPages'
  BY <1>1, <1>2 DEF NothingWithoutTable, CachedPages, StaleTranslationsAreHarmless, VmcsPages
<1>10. /\ Bsp \in CPUs
       /\ Stays(Bsp) \/ (GoesOn(Bsp) /\ c = Bsp)
       /\ \A d \in CPUs : Stays(d) \/ GoesOn(d)
       /\ \A d \in CPUs : script[d] = <<>> => script'[d] = <<>>
  BY <1>5, PageUse DEF Stays, GoesOn
<1>11. CountedFirst'
  <2>1. \A i \in Places(Bsp)' : ~ChecksAnother(script'[Bsp][i])
    <3>1. CASE ActiveCpus = 0
      <4>1. c = Bsp
        BY <1>1, <1>3, <3>1 DEF ScriptsInv, CountedFirst
      <4>2. PICK j \in Places(Bsp) :
              /\ \A i \in 1..(j - 1) : script[Bsp][i].op \notin {"wake", "count"}
              /\ \A i \in Places(Bsp) : i > j => ~ChecksAnother(script[Bsp][i])
        BY <1>1, <3>1 DEF ScriptsInv, CountedFirst
      <4>3. j = 1
        <5>1. SUFFICES ASSUME j # 1 PROVE FALSE
          OBVIOUS
        <5>2. 1 \in 1..(j - 1)
          BY <5>1 DEF Places
        <5>3. QED
          BY <1>3, <4>1, <4>2, <5>2
      <4>4. ASSUME NEW i \in Places(Bsp)' PROVE ~ChecksAnother(script'[Bsp][i])
        <5>1. i + 1 \in Places(Bsp) /\ i + 1 > 1 /\ script'[Bsp][i] = script[Bsp][i + 1]
          BY <1>1, <1>5, <4>1, ScriptGoesOn
        <5>2. QED
          BY <4>2, <4>3, <5>1
      <4>5. QED
        BY <4>4
    <3>2. CASE ActiveCpus # 0
      <4>1. \A i \in Places(Bsp) : ~ChecksAnother(script[Bsp][i])
        BY <1>1, <3>2 DEF ScriptsInv, CountedFirst
      <4>2. CASE Stays(Bsp)
        BY <4>1, <4>2 DEF Stays, Places
      <4>3. CASE GoesOn(Bsp)
        BY <1>1, <1>10, <4>1, <4>3, ScriptGoesOn
      <4>4. QED
        BY <1>10, <4>2, <4>3
    <3>3. QED
      BY <3>1, <3>2
  <2>2. QED
    BY <1>6, <2>1 DEF CountedFirst, ChecksAnother
<1>12. WokenOnce' /\ OsRunsLast' /\ BspPages'
  BY <1>1, <1>2, <1>6, <1>10, WokenGoesOn, OsRunsGoesOn, BspPagesGoesOn DEF ScriptsInv
<1>13. LowMemoryGoes' /\ ScreenStays' /\ IdentityUntilScreen'
  BY <1>1, <1>2, <1>3, <1>10, LowMemoryGoesOn, ScreenGoesOn, IdentityGoesOn DEF ScriptsInv
<1>14. ApPages' /\ AllCovered'
  BY <1>1, <1>2, <1>10, ApPagesGoesOn, CoveredGoesOn DEF ScriptsInv, ApPages, AllCovered
<1>15. QED
  BY <1>7, <1>8, <1>9, <1>11, <1>12, <1>13, <1>14 DEF ServicesInv, ScriptsInv

\* The script of an application processor, call by call.
LEMMA ApBootIs ==
    ASSUME NEW c \in CPUs
    PROVE  /\ ApBoot(c) \in Seq(Calls) /\ Len(ApBoot(c)) = 5
           /\ ApBoot(c)[1] = [op |-> "count"] /\ ApBoot(c)[2] = Access(Screen)
           /\ ApBoot(c)[3] = Access(Screen) /\ ApBoot(c)[4] = Access(Vmcs(c))
           /\ ApBoot(c)[5] = UnmapVa({Vmcs(c)})
<1> DEFINE e1 == [op |-> "count"]
           e2 == Access(Screen)
           e4 == Access(Vmcs(c))
           e5 == UnmapVa({Vmcs(c)})
<1>1. e1 \in Calls /\ e2 \in Calls /\ e4 \in Calls /\ e5 \in Calls
  BY PageUse DEF Calls, Access, UnmapVa
<1>2. ApBoot(c) = <<e1, e2>> \o <<e2, e4, e5>>
  BY DEF ApBoot, SetUpVmx
<1> HIDE DEF e1, e2, e4, e5
<1>3. /\ ApBoot(c) \in Seq(Calls) /\ Len(ApBoot(c)) = 5
      /\ ApBoot(c)[1] = e1 /\ ApBoot(c)[2] = e2 /\ ApBoot(c)[3] = e2
      /\ ApBoot(c)[4] = e4 /\ ApBoot(c)[5] = e5
  BY <1>1, <1>2
<1>4. QED
  BY <1>3 DEF e1, e2, e4, e5

\* WakeCpu: the processor that starts finds its VMCS region mapped.
LEMMA WakeCpuKeeps ==
    ASSUME ServicesInv, NEW c \in CPUs, WakeCpu(c)
    PROVE  ServicesInv'
<1>1. ServicesTypeOK /\ OneCallAtATime /\ NothingWithoutTable /\ CachedPages /\ ScriptsInv
  BY DEF ServicesInv
<1>2. /\ script[c] # <<>> /\ script[c][1].op = "wake" /\ 1 \in Places(c)
      /\ Head(script[c]) = script[c][1] /\ script[c][1] \in Calls
  BY <1>1, FirstCall DEF WakeCpu
<1>3. c = Bsp
  BY <1>1, <1>2 DEF ScriptsInv, ApPages, ApPagesOf, Risks
<1>4. PICK ap \in CPUs \ {Bsp} : ap = script[c][1].cpu /\ Needs(script[c][1], Vmcs(ap))
  BY <1>2, CallKinds DEF Needs
<1>5. /\ script' = [script EXCEPT ![c] = Tail(@), ![ap] = ApBoot(ap)]
      /\ UNCHANGED <<pte, tables, identity, ActiveCpus, PagingLock, tlb, at, left, fault, osRuns>>
  BY <1>2, <1>4 DEF WakeCpu
<1>6. script[ap] = <<>>
  BY <1>1, <1>2, <1>3, <1>4 DEF ScriptsInv, WokenOnce
<1>7. ActiveCpus # 0
  <2>1. SUFFICES ASSUME ActiveCpus = 0 PROVE FALSE
    OBVIOUS
  <2>2. PICK j \in Places(Bsp) : /\ script[Bsp][j].op = "count"
                                 /\ \A i \in 1..(j - 1) : script[Bsp][i].op \notin {"wake", "count"}
    BY <1>1, <2>1 DEF ScriptsInv, CountedFirst
  <2>3. j # 1
    BY <1>2, <1>3, <2>2
  <2>4. 1 \in 1..(j - 1)
    BY <2>3 DEF Places
  <2>5. QED
    BY <1>2, <1>3, <2>2, <2>4
<1>8. pte[Vmcs(ap)] # Absent
  <2>1. Covered(Bsp, 1, Vmcs(ap))
    BY <1>1, <1>2, <1>3, <1>4, PageUse DEF ScriptsInv, AllCovered, CoveredOf
  <2>2. 1..(1 - 1) = {}
    OBVIOUS
  <2>3. QED
    BY <2>1, <2>2 DEF Covered
<1>9. at[c] = "start" /\ at[ap] = "start"
  BY <1>1, <1>2, <1>4, <1>6, AtStart DEF OneCallAtATime, CallOf
<1>10. /\ script'[c] = Tail(script[c]) /\ script'[ap] = ApBoot(ap)
       /\ \A d \in CPUs \ {c, ap} : script'[d] = script[d]
  BY <1>1, <1>3, <1>4, <1>5 DEF ServicesTypeOK
<1>11. GoesOn(c) /\ \A d \in CPUs \ {c, ap} : Stays(d)
  BY <1>1, <1>2, <1>5, <1>9, <1>10 DEF GoesOn, Stays
<1>12. ServicesTypeOK'
  <2>1. script'[c] \in Seq(Calls)
    BY <1>1, <1>11, ScriptGoesOn
  <2>2. ApBoot(ap) \in Seq(Calls)
    BY <1>4, ApBootIs
  <2>3. script' \in [CPUs -> Seq(Calls)]
    BY <1>1, <1>5, <1>10, <2>1, <2>2 DEF ServicesTypeOK
  <2>4. QED
    BY <1>1, <1>5, <2>3 DEF ServicesTypeOK
<1>13. OneCallAtATime'
  <2>1. ASSUME NEW d \in CPUs PROVE CallOf(d)'
    <3>1. CASE d \in {c, ap}
      BY <1>5, <1>9, <3>1 DEF CallOf
    <3>2. CASE d \notin {c, ap}
      <4>1. CallOf(d) /\ Stays(d) /\ NextPage(d)' = NextPage(d)
        BY <1>1, <1>5, <1>11, <3>2 DEF OneCallAtATime, NextPage
      <4>2. QED
        BY <1>5, <4>1 DEF CallOf, Stays
    <3>3. QED
      BY <3>1, <3>2
  <2>2. QED
    BY <1>1, <1>5, <2>1 DEF OneCallAtATime
<1>14. NothingWithoutTable' /\ CachedPages'
  BY <1>1, <1>5 DEF NothingWithoutTable, CachedPages, StaleTranslationsAreHarmless, VmcsPages
<1>15. Bsp \in CPUs /\ GoesOn(Bsp) /\ script[Bsp][1].op = "wake" /\ script[Bsp][1].cpu = ap
  BY <1>2, <1>3, <1>4, <1>11, PageUse
<1>16. WokenOnce'
  <2>1. ASSUME NEW d \in CPUs \ {Bsp}, script[d] = <<>>, d # ap PROVE script'[d] = <<>>
    BY <1>3, <1>10, <2>1
  <2>2. QED
    BY <1>1, <1>15, <2>1, WokenGoesOn DEF ScriptsInv
<1>17. CountedFirst' /\ OsRunsLast' /\ BspPages'
  BY <1>1, <1>5, <1>7, <1>15, CountedGoesOn, OsRunsGoesOn, BspPagesGoesOn DEF ScriptsInv
<1>18. LowMemoryGoes' /\ ScreenStays' /\ IdentityUntilScreen'
  BY <1>1, <1>5, <1>15, LowMemoryGoesOn, ScreenGoesOn, IdentityGoesOn DEF ScriptsInv
<1>19. /\ Places(ap)' = 1..5
       /\ script'[ap][1] = [op |-> "count"] /\ script'[ap][2] = Access(Screen)
       /\ script'[ap][3] = Access(Screen) /\ script'[ap][4] = Access(Vmcs(ap))
       /\ script'[ap][5] = UnmapVa({Vmcs(ap)})
  <2>1. /\ script'[ap] = ApBoot(ap) /\ Len(ApBoot(ap)) = 5
        /\ ApBoot(ap)[1] = [op |-> "count"] /\ ApBoot(ap)[2] = Access(Screen)
        /\ ApBoot(ap)[3] = Access(Screen) /\ ApBoot(ap)[4] = Access(Vmcs(ap))
        /\ ApBoot(ap)[5] = UnmapVa({Vmcs(ap)})
    BY <1>4, <1>10, ApBootIs
  <2>2. QED
    BY ONLY <2>1 DEF Places
<1>20. ApPages'
  <2>1. ApPagesOf(ap)'
    <3>1. Screen \notin VmcsPages
      BY PageUse, ServicesAssumption
    <3>2. SUFFICES ASSUME NEW i \in 1..5
                   PROVE  \/ script'[ap][i] = [op |-> "count"] \/ script'[ap][i] = Access(Screen)
                          \/ script'[ap][i] = Access(Vmcs(ap)) \/ script'[ap][i] = UnmapVa({Vmcs(ap)})
      BY <1>19, <3>1 DEF ApPagesOf, Access, UnmapVa, Unmaps, VmcsPages, Risks
    <3>3. QED
      BY <1>19, <3>2
  <2>2. ASSUME NEW d \in CPUs \ {Bsp}, d # ap PROVE ApPagesOf(d)'
    BY <1>1, <1>3, <1>5, <1>11, <2>2, ApPagesGoesOn DEF ScriptsInv, ApPages
  <2>3. QED
    BY <2>1, <2>2 DEF ApPages
<1>21. AllCovered'
  <2>1. CoveredOf(ap)'
    <3>1. SUFFICES ASSUME NEW i \in 1..5, NEW p \in Frames, Needs(script'[ap][i], p), p # Screen
                   PROVE  Covered(ap, i, p)'
      BY <1>4, <1>19 DEF CoveredOf
    <3>2. i = 4 /\ p = Vmcs(ap)
      BY <1>19, <3>1 DEF Needs, Access, UnmapVa
    <3>3. \A j \in 1..3 : ~Unmaps(script'[ap][j], p)
      BY <1>19 DEF Unmaps, Access
    <3>4. 1..(i - 1) = 1..3
      BY <3>2
    <3>5. QED
      BY <1>5, <1>8, <3>2, <3>3, <3>4 DEF Covered
  <2>2. ASSUME NEW d \in CPUs, d # ap PROVE CoveredOf(d)'
    <3>1. Stays(d) \/ GoesOn(d)
      BY <1>11, <2>2
    <3>2. QED
      BY <1>1, <1>5, <3>1, CoveredGoesOn DEF ScriptsInv, AllCovered
  <2>3. QED
    BY <2>1, <2>2 DEF AllCovered
<1>22. QED
  BY <1>12, <1>13, <1>14, <1>16, <1>17, <1>18, <1>20, <1>21 DEF ServicesInv, ScriptsInv

\* When the BSP is in the guest it has been counted and PML4 entry 0 is gone.
LEMMA OsStartsKeeps ==
    ASSUME ServicesInv, OsStarts
    PROVE  ServicesInv'
<1>1. ServicesTypeOK /\ OneCallAtATime /\ NothingWithoutTable /\ CachedPages /\ ScriptsInv
  BY DEF ServicesInv
<1>2. /\ script[Bsp] = <<>> /\ osRuns' = TRUE
      /\ UNCHANGED <<pte, tables, identity, ActiveCpus, PagingLock, tlb, script, at, left, fault>>
  BY DEF OsStarts, InGuest, pagingVars
<1>3. Places(Bsp) = {}
  BY <1>1, <1>2, PageUse, Script
<1>4. ActiveCpus # 0 /\ ~identity /\ pte[Screen] # Absent
  BY <1>1, <1>3 DEF ScriptsInv, CountedFirst, IdentityUntilScreen, ScreenStays
<1>5. ServicesTypeOK'
  BY <1>1, <1>2 DEF ServicesTypeOK
<1>6. OneCallAtATime'
  BY <1>1, <1>2 DEF OneCallAtATime, CallOf, NextPage
<1>7. NothingWithoutTable' /\ CachedPages'
  BY <1>1, <1>2 DEF NothingWithoutTable, CachedPages, StaleTranslationsAreHarmless, VmcsPages
<1>8. CountedFirst' /\ WokenOnce' /\ OsRunsLast'
  BY <1>1, <1>2, <1>3, <1>4
     DEF ScriptsInv, CountedFirst, WokenOnce, OsRunsLast, Places, ChecksAnother
<1>9. BspPages'
  BY <1>2, <1>3 DEF BspPages, Places
<1>10. ApPages'
  BY <1>1, <1>2 DEF ScriptsInv, ApPages, ApPagesOf, Places, Unmaps, VmcsPages
<1>11. AllCovered'
  BY <1>1, <1>2 DEF ScriptsInv, AllCovered, CoveredOf, Covered, Places, Needs, Unmaps, Maps, StillToDo
<1>12. LowMemoryGoes' /\ ScreenStays' /\ IdentityUntilScreen'
  BY <1>1, <1>2, <1>3, <1>4
     DEF ScriptsInv, LowMemoryGoes, ScreenStays, IdentityUntilScreen, Places, Unmaps
<1>13. QED
  BY <1>5, <1>6, <1>7, <1>8, <1>9, <1>10, <1>11, <1>12 DEF ServicesInv, ScriptsInv

-------------------------------------------------------------------------------
(* The exits. A processor in the guest has nothing left to do. *)

\* Who is in the guest has no call left, and the boot of the BSP is over.
LEMMA InGuestIs ==
    ASSUME ServicesInv, NEW c \in CPUs, InGuest(c), c # Bsp => osRuns
    PROVE  /\ script[c] = <<>> /\ Places(c) = {} /\ at[c] = "start"
           /\ ActiveCpus # 0 /\ ~identity
<1>1. ServicesTypeOK /\ OneCallAtATime /\ ScriptsInv /\ script[c] = <<>>
  BY DEF ServicesInv, InGuest
<1>2. Places(c) = {} /\ at[c] = "start"
  BY <1>1, Script DEF OneCallAtATime, CallOf
<1>3. CASE osRuns
  BY <1>1, <1>2, <1>3 DEF ScriptsInv, OsRunsLast
<1>4. CASE c = Bsp
  BY <1>1, <1>2, <1>4 DEF ScriptsInv, CountedFirst, IdentityUntilScreen
<1>5. QED
  BY <1>1, <1>2, <1>3, <1>4

\* What changes when a processor, between two calls, is given another script.
Begins(c, s) ==
    /\ at[c] = "start"
    /\ script' = [script EXCEPT ![c] = s]
    /\ fault' \in [CPUs -> SUBSET Frames]
    /\ UNCHANGED <<pte, tables, identity, ActiveCpus, PagingLock, tlb, at, left, osRuns>>

\* The other scripts stay as they are.
LEMMA BeginsKeeps ==
    ASSUME ServicesInv, NEW c \in CPUs, NEW s \in Seq(Calls), Begins(c, s)
    PROVE  /\ ServicesTypeOK' /\ OneCallAtATime' /\ NothingWithoutTable' /\ CachedPages'
           /\ script'[c] = s /\ Places(c)' = 1..Len(s)
           /\ \A d \in CPUs \ {c} : Stays(d)
<1>1. ServicesTypeOK /\ OneCallAtATime /\ NothingWithoutTable /\ CachedPages
  BY DEF ServicesInv
<1>2. at[c] = "start"
  BY DEF Begins
<1>3. script'[c] = s /\ \A d \in CPUs \ {c} : script'[d] = script[d]
  BY <1>1 DEF Begins, ServicesTypeOK
<1>4. \A d \in CPUs \ {c} : Stays(d)
  BY <1>3 DEF Begins, Stays
<1>5. ServicesTypeOK'
  BY <1>1 DEF Begins, ServicesTypeOK
<1>6. OneCallAtATime'
  <2>1. ASSUME NEW d \in CPUs PROVE CallOf(d)'
    <3>1. CASE d = c
      BY <1>2, <3>1 DEF CallOf, Begins
    <3>2. CASE d # c
      <4>1. CallOf(d) /\ Stays(d) /\ NextPage(d)' = NextPage(d)
        BY <1>1, <1>4, <3>2 DEF OneCallAtATime, NextPage, Begins
      <4>2. QED
        BY <4>1 DEF CallOf, Stays, Begins
    <3>3. QED
      BY <3>1, <3>2
  <2>2. QED
    BY <1>1, <2>1 DEF OneCallAtATime, Begins
<1>7. NothingWithoutTable' /\ CachedPages'
  BY <1>1 DEF Begins, NothingWithoutTable, CachedPages, StaleTranslationsAreHarmless, VmcsPages
<1>8. Places(c)' = 1..Len(s)
  BY <1>3 DEF Places
<1>9. QED
  BY <1>3, <1>4, <1>5, <1>6, <1>7, <1>8

\* What an exit does once the operating system runs: it maps what it reads, apart from
\* the pages B that have been mapped before, and unmaps by the physical address only.
OsScript(s, B) ==
    /\ s \in Seq(Calls)
    /\ \A i \in 1..Len(s) :
          /\ s[i].op \in {"map", "access", "unmap"} \union Risks
          /\ s[i].op = "unmap" => s[i].physical
          /\ s[i].op = "access" =>
                /\ s[i].page \notin VmcsPages
                /\ s[i].page \in B \/ \E k \in 1..(i - 1) : Maps(s[k], s[i].page)

\* Once the operating system runs, such a script may take the place of any.
LEMMA OsScriptKeeps ==
    ASSUME ServicesInv, NEW c \in CPUs, osRuns, NEW s, OsScript(s, {}), Begins(c, s)
    PROVE  ServicesInv'
<1>1. ServicesTypeOK /\ ScriptsInv /\ Bsp \in CPUs
  BY PageUse DEF ServicesInv
<1>2. /\ s \in Seq(Calls) /\ Len(s) \in Nat
      /\ \A i \in 1..Len(s) : /\ s[i] \in Calls /\ s[i].op \in {"map", "access", "unmap"} \union Risks
                              /\ s[i].op = "unmap" => s[i].physical
                              /\ s[i].op = "access" => s[i].page \notin VmcsPages
  BY ElementOfSeq, LenProperties DEF OsScript
<1>3. /\ ServicesTypeOK' /\ OneCallAtATime' /\ NothingWithoutTable' /\ CachedPages'
      /\ script'[c] = s /\ Places(c)' = 1..Len(s)
      /\ \A d \in CPUs \ {c} : Stays(d)
  BY <1>2, BeginsKeeps
<1>4. at[c] = "start" /\ ActiveCpus # 0 /\ ~identity /\ pte[Screen] # Absent
  BY <1>1 DEF Begins, ScriptsInv, OsRunsLast
<1>5. UNCHANGED <<pte, identity, ActiveCpus, osRuns, at, left>>
  BY DEF Begins
<1>6. \A i \in 1..Len(s) : \A p : ~Unmaps(s[i], p)
  BY <1>2 DEF Unmaps
<1>7. CountedFirst' /\ OsRunsLast' /\ BspPages'
  <2>1. CASE c = Bsp
    <3>1. \A i \in 1..Len(s) : ~ChecksAnother(s[i])
      BY <1>2 DEF ChecksAnother, VmcsPages
    <3>2. CountedFirst'
      BY <1>3, <1>4, <1>5, <2>1, <3>1 DEF CountedFirst, ChecksAnother
    <3>3. OsRunsLast'
      BY <1>2, <1>3, <1>4, <1>5, <2>1 DEF OsRunsLast
    <3>4. BspPages'
      <4>1. ASSUME NEW i \in Places(Bsp)'
            PROVE  LET call == script'[Bsp][i]
                   IN  /\ call.op = "unmap" => (call.physical <=> osRuns')
                       /\ osRuns' /\ \A p \in Frames : ~Unmaps(call, p)
        BY <1>2, <1>3, <1>5, <1>6, <2>1, <4>1
      <4>2. QED
        BY <4>1 DEF BspPages, Unmaps
    <3>5. QED
      BY <3>2, <3>3, <3>4
  <2>2. CASE c # Bsp
    <3>1. Stays(Bsp)
      BY <1>1, <1>3, <2>2
    <3>2. QED
      BY <1>1, <1>4, <1>5, <3>1, CountedGoesOn, OsRunsGoesOn, BspPagesGoesOn DEF ScriptsInv
  <2>3. QED
    BY <2>1, <2>2
<1>8. WokenOnce'
  BY <1>1, <1>5, <1>7 DEF WokenOnce, OsRunsLast, ScriptsInv, Risks
<1>9. ApPages'
  <2>1. ASSUME NEW d \in CPUs \ {Bsp} PROVE ApPagesOf(d)'
    <3>1. CASE d = c
      <4>1. \A i \in Places(d)' :
              LET call == script'[d][i]
              IN  /\ call.op \in {"map", "access", "unmap"} \union Risks
                  /\ \A p \in Frames : ~Unmaps(call, p)
                  /\ call.op = "access" => call.page \notin VmcsPages
        BY <1>2, <1>3, <1>6, <3>1
      <4>2. osRuns'
        BY <1>5
      <4>3. QED
        BY <4>1, <4>2 DEF ApPagesOf, Unmaps, VmcsPages
    <3>2. CASE d # c
      BY <1>1, <1>3, <1>5, <3>2, ApPagesGoesOn DEF ScriptsInv, ApPages
    <3>3. QED
      BY <3>1, <3>2
  <2>2. QED
    BY <2>1 DEF ApPages
<1>10. AllCovered'
  <2>1. CoveredOf(c)'
    <3>1. SUFFICES ASSUME NEW i \in 1..Len(s), NEW p \in Frames, Needs(s[i], p)
                   PROVE  Covered(c, i, p)'
      BY <1>3 DEF CoveredOf, Needs
    <3>2. s[i].op = "access" /\ s[i].page = p
      BY <1>2, <3>1 DEF Needs, Risks
    <3>3. PICK k \in 1..(i - 1) : Maps(s[k], p)
      BY <3>2 DEF OsScript
    <3>4. StillToDo(c, k, p)'
      BY <1>4, <1>5 DEF StillToDo
    <3>5. \A j \in (k + 1)..(i - 1) : ~Unmaps(s[j], p)
      BY <1>2, <1>6
    <3>6. QED
      BY <1>3, <3>3, <3>4, <3>5 DEF Covered
  <2>2. ASSUME NEW d \in CPUs, d # c PROVE CoveredOf(d)'
    BY <1>1, <1>3, <1>5, <2>2, CoveredGoesOn DEF ScriptsInv, AllCovered
  <2>3. QED
    BY <2>1, <2>2 DEF AllCovered
<1>11. LowMemoryGoes' /\ IdentityUntilScreen'
  BY <1>4, <1>5 DEF LowMemoryGoes, IdentityUntilScreen
<1>12. ScreenStays'
  <2>1. CASE c = Bsp
    <3>1. pte'[Screen] # Absent /\ \A i \in Places(Bsp)' : ~Unmaps(script'[Bsp][i], Screen)
      BY <1>3, <1>4, <1>5, <1>6, <2>1
    <3>2. QED
      BY <3>1 DEF ScreenStays, Unmaps
  <2>2. CASE c # Bsp
    BY <1>1, <1>3, <1>5, <2>2, ScreenGoesOn DEF ScriptsInv
  <2>3. QED
    BY <2>1, <2>2
<1>13. QED
  BY <1>3, <1>7, <1>8, <1>9, <1>10, <1>11, <1>12 DEF ServicesInv, ScriptsInv

\* Nobody takes a risk before the operating system runs.
LEMMA RiskIsOs ==
    ASSUME ScriptsInv, NEW c \in CPUs, 1 \in Places(c), script[c][1].op \in Risks
    PROVE  osRuns
<1>1. CASE c = Bsp
  BY <1>1 DEF ScriptsInv, BspPages
<1>2. CASE c # Bsp
  BY <1>2 DEF ScriptsInv, ApPages, ApPagesOf
<1>3. QED
  BY <1>1, <1>2

\* Unmaps by physical addresses only are such a script.
LEMMA OsUnmaps ==
    ASSUME NEW s \in Seq(PaUnmaps), NEW B
    PROVE  OsScript(s, B)
<1>1. PaUnmaps \subseteq Calls
  BY DEF PaUnmaps, Calls
<1>2. s \in Seq(Calls) /\ \A i \in 1..Len(s) : s[i] \in PaUnmaps
  BY <1>1, ElementOfSeq
<1>3. \A i \in 1..Len(s) : s[i].op = "unmap" /\ s[i].physical
  BY <1>2 DEF PaUnmaps
<1>4. QED
  BY <1>2, <1>3 DEF OsScript

\* GoOnOrElse: what is left is the rest of this script or the other one.
LEMMA GoOnOrElseKeeps ==
    ASSUME ServicesInv, NEW c \in CPUs, GoOnOrElse(c)
    PROVE  ServicesInv'
<1>1. ServicesTypeOK /\ NothingWithoutTable /\ CachedPages /\ ScriptsInv
  BY DEF ServicesInv
<1>2. /\ Does(c, "orElse")
      /\ UNCHANGED <<pte, tables, identity, ActiveCpus, PagingLock, tlb, at, left, fault, osRuns>>
  BY DEF GoOnOrElse
<1>3. /\ script[c][1] \in Calls /\ Head(script[c]) = script[c][1] /\ script[c][1].op = "orElse"
      /\ 1 \in Places(c)
  BY <1>1, <1>2, FirstCall
<1>4. CASE Ends(c)
  <2>1. tlb' \in [CPUs -> [Frames -> Types]] /\ identity' = (identity /\ "orElse" # "unmapPml4")
    BY <1>1, <1>2 DEF ServicesTypeOK
  <2>2. ServicesTypeOK' /\ OneCallAtATime' /\ ScriptsInv'
    BY <1>2, <1>4, <2>1, OneStepCallKeeps
  <2>3. NothingWithoutTable' /\ CachedPages'
    BY <1>1, <1>2 DEF NothingWithoutTable, CachedPages, StaleTranslationsAreHarmless, VmcsPages
  <2>4. QED
    BY <2>2, <2>3 DEF ServicesInv
<1>5. CASE script' = [script EXCEPT ![c] = Head(@).rest]
  <2> DEFINE s == script[c][1].rest
  <2>1. OsScript(s, {})
    BY <1>3, CallKinds, OsUnmaps
  <2>2. osRuns /\ at[c] = "start"
    BY <1>1, <1>3, AtStart, RiskIsOs DEF Risks
  <2>3. script' = [script EXCEPT ![c] = s]
    BY <1>1, <1>3, <1>5 DEF ServicesTypeOK
  <2> HIDE DEF s
  <2>4. Begins(c, s)
    BY <1>1, <1>2, <2>2, <2>3 DEF Begins, ServicesTypeOK
  <2>5. QED
    BY <2>1, <2>2, <2>4, OsScriptKeeps
<1>6. QED
  BY <1>4, <1>5 DEF GoOnOrElse

\* AccessPage: an access that faults is one of the screen, in the window, or past what
\* is mapped.
LEMMA AccessPageKeeps ==
    ASSUME ServicesInv, NEW c \in CPUs, AccessPage(c), UNCHANGED osRuns
    PROVE  /\ ServicesInv'
           /\ fault' # fault =>
                 \/ c # Bsp /\ ScreenWindow /\ fault' = [fault EXCEPT ![c] = {Screen}]
                 \/ /\ script[c] # <<>>
                    /\ \E q \in Frames : /\ Head(script[c]) = AccessPast(q)
                                         /\ fault' = [fault EXCEPT ![c] = {q}]
<1> DEFINE p == Head(script[c]).page
<1>1. ServicesTypeOK /\ NothingWithoutTable /\ CachedPages /\ ScriptsInv
  BY DEF ServicesInv
<1>2. /\ \E op \in {"access", "accessPast"} : Does(c, op)
      /\ UNCHANGED <<pte, tables, identity, ActiveCpus, PagingLock, at, left>>
  BY DEF AccessPage
<1> DEFINE op == script[c][1].op
<1>3. /\ script[c][1] \in Calls /\ Head(script[c]) = script[c][1] /\ script[c] # <<>>
      /\ 1 \in Places(c) /\ op \in {"access", "accessPast"} /\ Does(c, op)
  BY <1>1, <1>2, FirstCall
<1> HIDE DEF op
<1>4. p \in Frames /\ p = script[c][1].page
  BY <1>3, CallKinds DEF op
<1>5. \/ /\ pte[p] # Absent /\ Ends(c) /\ UNCHANGED fault
         /\ tlb' = IF tlb[c][p] = Absent THEN [tlb EXCEPT ![c][p] = pte[p]] ELSE tlb
      \/ pte[p] = Absent /\ Ends(c) /\ UNCHANGED <<tlb, fault>>
      \/ pte[p] = Absent /\ Stops(c, p) /\ UNCHANGED tlb
  BY DEF AccessPage
<1>6. op = "access" /\ pte[p] = Absent => c # Bsp /\ p = Screen
  BY <1>3, AccessIsMapped
<1> HIDE DEF p
<1>7. CASE /\ pte[p] # Absent /\ Ends(c) /\ UNCHANGED fault
           /\ tlb' = IF tlb[c][p] = Absent THEN [tlb EXCEPT ![c][p] = pte[p]] ELSE tlb
  <2>1. tlb \in [CPUs -> [Frames -> Types]] /\ pte[p] \in Types
    BY <1>1, <1>4 DEF ServicesTypeOK
  <2>2. /\ tlb' \in [CPUs -> [Frames -> Types]]
        /\ \A d \in CPUs, q \in Frames : tlb'[d][q] # tlb[d][q] => d = c /\ q = p
    <3>1. CASE tlb' = tlb
      BY <2>1, <3>1
    <3>2. CASE tlb' = [tlb EXCEPT ![c][p] = pte[p]]
      BY <1>4, <2>1, <3>2, OneTranslation
    <3>3. QED
      BY <1>7, <3>1, <3>2
  <2>3. identity' = (identity /\ op # "unmapPml4")
    BY <1>1, <1>2, <1>3 DEF ServicesTypeOK
  <2>4. ServicesTypeOK' /\ OneCallAtATime' /\ ScriptsInv'
    BY <1>2, <1>3, <1>7, <2>2, <2>3, OneStepCallKeeps
  <2>5. NothingWithoutTable'
    <3>1. Region(p) \in tables
      BY <1>1, <1>4, <1>7 DEF NothingWithoutTable
    <3>2. ASSUME NEW q \in Frames, Region(q) \notin tables, NEW d \in CPUs
          PROVE  tlb'[d][q] = Absent
      BY <1>1, <2>2, <3>1, <3>2 DEF NothingWithoutTable
    <3>3. QED
      BY <1>1, <1>2, <3>2 DEF NothingWithoutTable
  <2>6. CachedPages'
    <3>1. ~osRuns /\ c # Bsp => p = Screen \/ p \in VmcsPages
      BY <1>1, <1>3, <1>4, PageUse DEF ScriptsInv, ApPages, ApPagesOf, Risks, op
    <3>2. ASSUME ~osRuns, NEW d \in CPUs \ {Bsp}, NEW q \in Frames, tlb'[d][q] # Absent
          PROVE  q = Screen \/ q \in VmcsPages
      BY <1>1, <2>2, <3>1, <3>2 DEF CachedPages
    <3>3. ASSUME NEW d \in CPUs, NEW q \in Frames, tlb'[d][q] # Absent, pte[q] = Absent
          PROVE  q = Screen \/ q \in VmcsPages
      BY <1>1, <1>7, <2>2, <3>3 DEF CachedPages, StaleTranslationsAreHarmless
    <3>4. QED
      BY <1>2, <3>2, <3>3 DEF CachedPages, StaleTranslationsAreHarmless, VmcsPages
  <2>7. QED
    BY <1>7, <2>4, <2>5, <2>6 DEF ServicesInv
<1>8. CASE pte[p] = Absent /\ Ends(c) /\ UNCHANGED <<tlb, fault>>
  <2>1. tlb' \in [CPUs -> [Frames -> Types]] /\ identity' = (identity /\ op # "unmapPml4")
    BY <1>1, <1>2, <1>3, <1>8 DEF ServicesTypeOK
  <2>2. ServicesTypeOK' /\ OneCallAtATime' /\ ScriptsInv'
    BY <1>2, <1>3, <1>8, <2>1, OneStepCallKeeps
  <2>3. NothingWithoutTable' /\ CachedPages'
    BY <1>1, <1>2, <1>8 DEF NothingWithoutTable, CachedPages, StaleTranslationsAreHarmless, VmcsPages
  <2>4. QED
    BY <1>8, <2>2, <2>3 DEF ServicesInv
<1>9. CASE pte[p] = Absent /\ Stops(c, p) /\ UNCHANGED tlb
  <2>1. /\ at[c] = "start" /\ script' = [script EXCEPT ![c] = <<>>]
        /\ fault' = [fault EXCEPT ![c] = {p}]
    BY <1>3, <1>9, AtStart DEF Stops, op
  <2>2. CASE op = "access"
    <3>1. c # Bsp /\ fault' = [fault EXCEPT ![c] = {Screen}]
      BY <1>6, <1>9, <2>1, <2>2
    <3>2. ServicesInv'
      BY <1>2, <1>9, <2>1, <3>1, PageFaultKeeps
    <3>3. ScreenWindow
      BY <1>6, <1>9, <2>2, ScreenIsAwayInTheWindow
    <3>4. QED
      BY <3>1, <3>2, <3>3
  <2>3. CASE op = "accessPast"
    <3>1. osRuns /\ Head(script[c]) = AccessPast(p)
      BY <1>1, <1>3, <1>4, <2>3, RiskIsOs, CallKinds DEF Risks, op
    <3>2. fault' \in [CPUs -> SUBSET Frames]
      BY <1>1, <1>4, <2>1 DEF ServicesTypeOK
    <3>3. Begins(c, <<>>)
      BY <1>2, <1>9, <2>1, <3>2 DEF Begins
    <3>4. OsScript(<<>>, {})
      BY DEF OsScript
    <3>5. ServicesInv'
      BY <3>1, <3>3, <3>4, OsScriptKeeps
    <3>6. QED
      BY <1>3, <1>4, <2>1, <3>1, <3>5
  <2>4. QED
    BY <1>3, <2>2, <2>3
<1>10. QED
  BY <1>5, <1>7, <1>8, <1>9

\* What an exit of the guest's BIOS does: pages of low memory other than the screen are
\* mapped, read and unmapped.
BiosScript(s) ==
    /\ s \in Seq(Calls)
    /\ \A i \in 1..Len(s) :
          /\ s[i].op \in {"map", "access", "unmap"}
          /\ s[i].op = "unmap" => ~s[i].physical /\ s[i].pages \subseteq LowPages \ {Screen}
          /\ s[i].op = "access" =>
                /\ s[i].page \in LowPages
                /\ \E k \in 1..(i - 1) :
                      /\ Maps(s[k], s[i].page)
                      /\ \A j \in (k + 1)..(i - 1) : ~Unmaps(s[j], s[i].page)
          /\ \A p \in LowPages : Maps(s[i], p) => \E j \in (i + 1)..Len(s) : Unmaps(s[j], p)

\* Such a script may begin before the operating system runs.
LEMMA BiosScriptKeeps ==
    ASSUME ServicesInv, InGuest(Bsp), ~osRuns, NEW s, BiosScript(s), Begins(Bsp, s)
    PROVE  ServicesInv'
<1>1. ServicesTypeOK /\ ScriptsInv /\ Bsp \in CPUs
  BY PageUse DEF ServicesInv
<1>2. /\ s \in Seq(Calls) /\ Len(s) \in Nat
      /\ \A i \in 1..Len(s) :
            /\ s[i] \in Calls /\ s[i].op \in {"map", "access", "unmap"}
            /\ s[i].op = "unmap" => ~s[i].physical /\ s[i].pages \subseteq LowPages \ {Screen}
            /\ s[i].op = "access" => s[i].page \in LowPages
  BY ElementOfSeq, LenProperties DEF BiosScript
<1>3. /\ ServicesTypeOK' /\ OneCallAtATime' /\ NothingWithoutTable' /\ CachedPages'
      /\ script'[Bsp] = s /\ Places(Bsp)' = 1..Len(s)
      /\ \A d \in CPUs \ {Bsp} : Stays(d)
  BY <1>1, <1>2, BeginsKeeps
<1>4. /\ script[Bsp] = <<>> /\ Places(Bsp) = {} /\ at[Bsp] = "start" /\ ActiveCpus # 0 /\ ~identity
  BY <1>1, InGuestIs
<1>5. UNCHANGED <<pte, identity, ActiveCpus, osRuns, at, left>>
  BY DEF Begins
<1>6. CountedFirst'
  <2>1. \A i \in 1..Len(s) : ~ChecksAnother(s[i])
    BY <1>2, PageUse DEF ChecksAnother
  <2>2. QED
    BY <1>3, <1>4, <1>5, <2>1 DEF CountedFirst, ChecksAnother
<1>7. WokenOnce' /\ OsRunsLast'
  BY <1>2, <1>3, <1>5 DEF WokenOnce, OsRunsLast
<1>8. BspPages'
  <2>1. ASSUME NEW i \in Places(Bsp)'
        PROVE  LET call == script'[Bsp][i]
               IN  /\ call.op = "unmap" => (call.physical <=> osRuns')
                   /\ call.op \notin Risks
                   /\ \A p \in Frames : Unmaps(call, p) => p \in LowPages
    BY <1>2, <1>3, <1>5, <2>1 DEF Unmaps, Risks
  <2>2. QED
    BY <2>1 DEF BspPages, Unmaps, LowPages
<1>9. ApPages'
  BY <1>1, <1>3, <1>5, ApPagesGoesOn DEF ScriptsInv, ApPages
<1>10. AllCovered'
  <2>1. CoveredOf(Bsp)'
    <3>1. SUFFICES ASSUME NEW i \in 1..Len(s), NEW p \in Frames, Needs(s[i], p)
                   PROVE  Covered(Bsp, i, p)'
      BY <1>3 DEF CoveredOf, Needs
    <3>2. s[i].op = "access" /\ s[i].page = p
      BY <1>2, <3>1 DEF Needs
    <3>3. PICK k \in 1..(i - 1) : /\ Maps(s[k], p)
                                  /\ \A j \in (k + 1)..(i - 1) : ~Unmaps(s[j], p)
      BY <3>2 DEF BiosScript
    <3>4. StillToDo(Bsp, k, p)'
      BY <1>4, <1>5 DEF StillToDo
    <3>5. QED
      BY <1>3, <3>3, <3>4 DEF Covered
  <2>2. ASSUME NEW d \in CPUs, d # Bsp PROVE CoveredOf(d)'
    BY <1>1, <1>3, <1>5, <2>2, CoveredGoesOn DEF ScriptsInv, AllCovered
  <2>3. QED
    BY <2>1, <2>2 DEF AllCovered
<1>11. LowMemoryGoes'
  <2>1. SUFFICES ASSUME NEW p \in LowPages \ {Screen} PROVE Goes(p)'
    BY DEF LowMemoryGoes, LowPages
  <2>2. pte[p] = Absent
    BY <1>1, <1>4 DEF ScriptsInv, LowMemoryGoes, Goes
  <2>3. QED
    BY <1>3, <1>5, <2>2 DEF Goes, BiosScript
<1>12. ScreenStays'
  <2>1. pte[Screen] # Absent
    BY <1>1, <1>4 DEF ScriptsInv, ScreenStays
  <2>2. pte'[Screen] # Absent /\ \A i \in Places(Bsp)' : ~Unmaps(script'[Bsp][i], Screen)
    BY <1>2, <1>3, <1>5, <2>1, PageUse DEF Unmaps
  <2>3. QED
    BY <2>2 DEF ScreenStays, Unmaps
<1>13. IdentityUntilScreen'
  BY <1>4, <1>5 DEF IdentityUntilScreen
<1>14. QED
  BY <1>3, <1>6, <1>7, <1>8, <1>9, <1>10, <1>11, <1>12, <1>13 DEF ServicesInv, ScriptsInv

-------------------------------------------------------------------------------
(* The scripts of the exits are of these two kinds. *)

\* The calls for one page.
LEMMA CallsAre ==
    /\ \A p \in Frames : /\ MapMemory({p}) \in Calls /\ Access(p) \in Calls
                         /\ UnmapVa({p}) \in Calls /\ UnmapPa({p}) \in Calls
  BY DEF Calls, MapMemory, MapMemoryInvalidate, Access, UnmapVa, UnmapPa

\* The INT 15h call gives back what it maps.
LEMMA Int15hIsBios ==
    ASSUME NEW buffer \in LowPages \ {Screen}, NEW stack \in LowPages \ {Screen}
    PROVE  BiosScript(Int15h(buffer, stack)) /\ BiosScript(Int15hFails(stack))
<1>1. buffer \in Frames /\ stack \in Frames
  BY PageUse
<1>2. BiosScript(Int15h(buffer, stack))
  <2> DEFINE s == Int15h(buffer, stack)
  <2>1. /\ s \in Seq(Calls) /\ Len(s) = 6
        /\ s[1] = MapMemory({buffer}) /\ s[2] = Access(buffer) /\ s[3] = UnmapVa({buffer})
        /\ s[4] = MapMemory({stack}) /\ s[5] = Access(stack) /\ s[6] = UnmapVa({stack})
    <3> DEFINE m1 == MapMemory({buffer})
               a1 == Access(buffer)
               u1 == UnmapVa({buffer})
               m2 == MapMemory({stack})
               a2 == Access(stack)
               u2 == UnmapVa({stack})
    <3>1. /\ m1 \in Calls /\ a1 \in Calls /\ u1 \in Calls
          /\ m2 \in Calls /\ a2 \in Calls /\ u2 \in Calls
      BY <1>1, CallsAre
    <3>2. s = <<m1, a1>> \o <<u1>> \o <<m2, a2>> \o <<u2>>
      BY DEF Int15h, Read
    <3> HIDE DEF s, m1, a1, u1, m2, a2, u2
    <3>3. /\ s \in Seq(Calls) /\ Len(s) = 6
          /\ s[1] = m1 /\ s[2] = a1 /\ s[3] = u1 /\ s[4] = m2 /\ s[5] = a2 /\ s[6] = u2
      BY <3>1, <3>2
    <3>4. QED
      BY <3>3 DEF m1, a1, u1, m2, a2, u2
  <2> HIDE DEF s
  <2>2. /\ \A i \in {1, 4} : s[i].op = "map"
        /\ \A i \in {2, 5} : s[i].op = "access"
        /\ \A i \in {3, 6} : s[i].op = "unmap" /\ ~s[i].physical
        /\ s[1].pages = {buffer} /\ s[2].page = buffer /\ s[3].pages = {buffer}
        /\ s[4].pages = {stack} /\ s[5].page = stack /\ s[6].pages = {stack}
    BY <2>1 DEF MapMemory, MapMemoryInvalidate, Access, UnmapVa
  <2>3. ASSUME NEW i \in 1..6
        PROVE  /\ s[i].op \in {"map", "access", "unmap"}
               /\ s[i].op = "unmap" => ~s[i].physical /\ s[i].pages \subseteq LowPages \ {Screen}
               /\ s[i].op = "access" =>
                     /\ s[i].page \in LowPages
                     /\ \E k \in 1..(i - 1) :
                           /\ Maps(s[k], s[i].page)
                           /\ \A j \in (k + 1)..(i - 1) : ~Unmaps(s[j], s[i].page)
               /\ \A p \in LowPages : Maps(s[i], p) => \E j \in (i + 1)..6 : Unmaps(s[j], p)
    <3>1. CASE i \in {1, 4}
      <4>1. PICK j \in (i + 1)..6 : s[j].op = "unmap" /\ ~s[j].physical /\ s[j].pages = s[i].pages
        <5>1. i = 1 => 3 \in (i + 1)..6
          OBVIOUS
        <5>2. i = 4 => 6 \in (i + 1)..6
          OBVIOUS
        <5>3. QED
          BY <2>2, <3>1, <5>1, <5>2
      <4>2. QED
        BY <2>2, <3>1, <4>1 DEF Maps, Unmaps
    <3>2. CASE i \in {2, 5}
      <4>1. /\ i - 1 \in 1..(i - 1) /\ ((i - 1) + 1)..(i - 1) = {}
            /\ Maps(s[i - 1], s[i].page)
        BY <2>2, <3>2 DEF Maps
      <4>2. QED
        BY <2>2, <3>2, <4>1 DEF Maps
    <3>3. CASE i \in {3, 6}
      BY <2>2, <3>3 DEF Maps
    <3>4. QED
      BY <3>1, <3>2, <3>3
  <2>4. QED
    BY <2>1, <2>3 DEF BiosScript, s
<1>3. BiosScript(Int15hFails(stack))
  <2> DEFINE s == Int15hFails(stack)
  <2>1. /\ s \in Seq(Calls) /\ Len(s) = 3
        /\ s[1] = MapMemory({stack}) /\ s[2] = Access(stack) /\ s[3] = UnmapVa({stack})
    <3> DEFINE m == MapMemory({stack})
               a == Access(stack)
               u == UnmapVa({stack})
    <3>1. m \in Calls /\ a \in Calls /\ u \in Calls
      BY <1>1, CallsAre
    <3>2. s = <<m, a>> \o <<u>>
      BY DEF Int15hFails, Read
    <3> HIDE DEF s, m, a, u
    <3>3. s \in Seq(Calls) /\ Len(s) = 3 /\ s[1] = m /\ s[2] = a /\ s[3] = u
      BY <3>1, <3>2
    <3>4. QED
      BY <3>3 DEF m, a, u
  <2> HIDE DEF s
  <2>2. /\ s[1].op = "map" /\ s[2].op = "access" /\ s[3].op = "unmap" /\ ~s[3].physical
        /\ s[1].pages = {stack} /\ s[2].page = stack /\ s[3].pages = {stack}
    BY <2>1 DEF MapMemory, MapMemoryInvalidate, Access, UnmapVa
  <2>3. ASSUME NEW i \in 1..3
        PROVE  /\ s[i].op \in {"map", "access", "unmap"}
               /\ s[i].op = "unmap" => ~s[i].physical /\ s[i].pages \subseteq LowPages \ {Screen}
               /\ s[i].op = "access" =>
                     /\ s[i].page \in LowPages
                     /\ \E k \in 1..(i - 1) :
                           /\ Maps(s[k], s[i].page)
                           /\ \A j \in (k + 1)..(i - 1) : ~Unmaps(s[j], s[i].page)
               /\ \A p \in LowPages : Maps(s[i], p) => \E j \in (i + 1)..3 : Unmaps(s[j], p)
    <3>1. CASE i = 1
      <4>1. 3 \in (i + 1)..3
        BY <3>1
      <4>2. QED
        BY <2>2, <3>1, <4>1 DEF Maps, Unmaps
    <3>2. CASE i = 2
      <4>1. 1 \in 1..(i - 1) /\ (1 + 1)..(i - 1) = {} /\ Maps(s[1], s[i].page)
        BY <2>2, <3>2 DEF Maps
      <4>2. QED
        BY <2>2, <3>2, <4>1 DEF Maps
    <3>3. CASE i = 3
      BY <2>2, <3>3 DEF Maps
    <3>4. QED
      BY <3>1, <3>2, <3>3
  <2>4. QED
    BY <2>1, <2>3 DEF BiosScript, s
<1>4. QED
  BY <1>2, <1>3

\* VmCallInt15h.
LEMMA VmCallInt15hKeeps ==
    ASSUME ServicesInv, NEW c \in CPUs, VmCallInt15h(c)
    PROVE  ServicesInv' /\ UNCHANGED fault
<1>1. PICK buffer, stack \in {Page0, Page1} \union OtherLow :
        Exit(c, Int15h(buffer, stack)) \/ Exit(c, Int15hFails(stack))
  BY DEF VmCallInt15h
<1>2. buffer \in LowPages \ {Screen} /\ stack \in LowPages \ {Screen}
  BY ServicesAssumption DEF LowPages
<1>3. PICK s : BiosScript(s) /\ Exit(c, s)
  BY <1>1, <1>2, Int15hIsBios
<1>4. c = Bsp /\ ~osRuns /\ InGuest(c) /\ UNCHANGED fault
  BY <1>3 DEF VmCallInt15h, Exit
<1>5. at[c] = "start" /\ fault \in [CPUs -> SUBSET Frames]
  BY <1>4, InGuestIs DEF ServicesInv, ServicesTypeOK
<1>6. Begins(c, s)
  BY <1>3, <1>5 DEF Exit, Begins
<1>7. QED
  BY <1>3, <1>4, <1>6, BiosScriptKeeps

-------------------------------------------------------------------------------
(* FlattenSeq. *)

\* The order SmallestNumber rests on.
LessThan == {pair \in Nat \X Nat : pair[1] < pair[2]}

\* A set of numbers has a smallest one.
LEMMA SmallestNumber ==
    ASSUME NEW S, S \subseteq Nat, S # {}
    PROVE  \E x \in S : \A y \in S : x <= y
<1>1. IsWellFoundedOn(LessThan, Nat)
  BY NatLessThanWellFounded DEF OpToRel, LessThan
<1>2. PICK x \in S : \A y \in S : ~ (<<y, x>> \in LessThan)
  BY <1>1, WFMin
<1>3. ASSUME NEW y \in S PROVE x <= y
  <2>1. <<y, x>> \in Nat \X Nat
    OBVIOUS
  <2>2. ~(y < x)
    BY <1>2, <2>1 DEF LessThan
  <2>3. x \in Nat /\ y \in Nat
    OBVIOUS
  <2>4. QED
    BY <2>2, <2>3
<1>4. QED
  BY <1>3

\* The first n of the sequences one after the other, for all n up to the length.
Joins(f, seqs, n) ==
    f = [i \in 1..n |-> IF i = 1 THEN seqs[i] ELSE f[i - 1] \o seqs[i]]

\* The recursive function in FlattenSeq exists.
LEMMA JoinsExist ==
    ASSUME NEW seqs, NEW n \in Nat
    PROVE  \E f : Joins(f, seqs, n)
<1> DEFINE Without == {m \in Nat : ~ \E f : Joins(f, seqs, m)}
<1>1. SUFFICES Without = {}
  OBVIOUS
<1>2. SUFFICES ASSUME Without # {} PROVE FALSE
  OBVIOUS
<1>3. PICK m \in Without : \A y \in Without : m <= y
  <2>1. Without \subseteq Nat
    OBVIOUS
  <2> HIDE DEF Without
  <2>2. QED
    BY <1>2, <2>1, SmallestNumber
<1>4. m \in Nat /\ ~ \E f : Joins(f, seqs, m)
  OBVIOUS
<1>5. CASE m = 0
  <2> DEFINE f == [i \in 1..m |-> seqs[i]]
  <2>1. 1..m = {}
    BY <1>5
  <2>2. f = [i \in 1..m |-> IF i = 1 THEN seqs[i] ELSE f[i - 1] \o seqs[i]]
    BY <2>1
  <2>3. Joins(f, seqs, m)
    BY <2>2 DEF Joins
  <2>4. QED
    BY <1>4, <2>3
<1>6. CASE m # 0
  <2>1. m - 1 \in Nat /\ m - 1 \notin Without
    BY <1>3, <1>4, <1>6
  <2>2. PICK g : Joins(g, seqs, m - 1)
    BY <2>1
  <2> DEFINE f == [i \in 1..m |-> IF i < m THEN g[i]
                                  ELSE IF i = 1 THEN seqs[i] ELSE g[i - 1] \o seqs[i]]
  <2>3. \A i \in 1..(m - 1) : g[i] = IF i = 1 THEN seqs[i] ELSE g[i - 1] \o seqs[i]
    BY <2>2 DEF Joins
  <2>4. ASSUME NEW i \in 1..m
        PROVE  f[i] = IF i = 1 THEN seqs[i] ELSE f[i - 1] \o seqs[i]
    <3>1. i # 1 => i - 1 \in 1..m /\ i - 1 < m /\ f[i - 1] = g[i - 1]
      BY <1>4
    <3>2. i < m => i \in 1..(m - 1)
      BY <1>4
    <3>3. QED
      BY <1>4, <2>3, <3>1, <3>2
  <2>5. f = [i \in 1..m |-> IF i = 1 THEN seqs[i] ELSE f[i - 1] \o seqs[i]]
    BY <2>4
  <2>6. Joins(f, seqs, m)
    BY <2>5 DEF Joins
  <2>7. QED
    BY <1>4, <2>6
<1>7. QED
  BY <1>5, <1>6

\* FlattenSeq joins the sequences one by one.
LEMMA Flatten ==
    ASSUME NEW seqs, Len(seqs) \in Nat, Len(seqs) # 0
    PROVE  \E f : Joins(f, seqs, Len(seqs)) /\ FlattenSeq(seqs) = f[Len(seqs)]
<1> DEFINE f == CHOOSE g : Joins(g, seqs, Len(seqs))
<1>1. Joins(f, seqs, Len(seqs))
  BY JoinsExist
<1>2. FlattenSeq(seqs) = f[Len(seqs)]
  BY DEF FlattenSeq, Joins
<1>3. QED
  BY <1>1, <1>2

-------------------------------------------------------------------------------
(* The scripts of the introspection are put together from pieces. *)

\* A script maps the page at some place.
MapsSome(s, p) == \E k \in 1..Len(s) : Maps(s[k], p)

\* A piece needs the pages B mapped before, and has those of M mapped after.
Piece(s, B, M) == OsScript(s, B) /\ \A p \in M : MapsSome(s, p)

\* A piece may use what the piece before it has mapped.
LEMMA PieceJoin ==
    ASSUME NEW s, NEW t, NEW B, NEW D, NEW M, NEW N, Piece(s, B, M), Piece(t, D, N),
           D \subseteq B \union M
    PROVE  Piece(s \o t, B, M \union N)
<1> DEFINE u == s \o t
<1>1. /\ s \in Seq(Calls) /\ t \in Seq(Calls) /\ u \in Seq(Calls)
      /\ Len(s) \in Nat /\ Len(t) \in Nat /\ Len(u) = Len(s) + Len(t)
  BY ConcatProperties, LenProperties DEF Piece, OsScript
<1>2. /\ \A i \in 1..Len(s) : u[i] = s[i]
      /\ \A i \in 1..Len(u) : i > Len(s) => i - Len(s) \in 1..Len(t) /\ u[i] = t[i - Len(s)]
  BY <1>1, ConcatProperties
<1>3. \A i \in 1..Len(t) : i + Len(s) \in 1..Len(u) /\ u[i + Len(s)] = t[i]
  <2>1. ASSUME NEW i \in 1..Len(t)
        PROVE  /\ i + Len(s) \in 1..Len(u) /\ i + Len(s) > Len(s) /\ (i + Len(s)) - Len(s) = i
    BY <1>1
  <2>2. QED
    BY <1>2, <2>1
<1>4. 1..Len(s) \subseteq 1..Len(u)
  BY <1>1
<1> HIDE DEF u
<1>5. ASSUME NEW p \in M \union N PROVE MapsSome(u, p)
  <2>1. MapsSome(s, p) \/ MapsSome(t, p)
    BY DEF Piece
  <2>2. QED
    BY <1>2, <1>3, <1>4, <2>1 DEF MapsSome
<1>6. ASSUME NEW i \in 1..Len(u)
      PROVE  /\ u[i].op \in {"map", "access", "unmap"} \union Risks
             /\ u[i].op = "unmap" => u[i].physical
             /\ u[i].op = "access" =>
                   /\ u[i].page \notin VmcsPages
                   /\ u[i].page \in B \/ \E k \in 1..(i - 1) : Maps(u[k], u[i].page)
  <2>1. CASE i <= Len(s)
    <3>1. i \in 1..Len(s) /\ u[i] = s[i] /\ 1..(i - 1) \subseteq 1..Len(s)
      BY <1>1, <1>2, <2>1
    <3>2. QED
      BY <1>2, <3>1 DEF Piece, OsScript
  <2>2. CASE i > Len(s)
    <3>1. /\ i - Len(s) \in 1..Len(t) /\ u[i] = t[i - Len(s)]
          /\ 1..Len(s) \subseteq 1..(i - 1)
      BY <1>1, <1>2, <2>2
    <3>2. ASSUME u[i].op = "access"
          PROVE  u[i].page \in B \/ \E k \in 1..(i - 1) : Maps(u[k], u[i].page)
      <4> DEFINE p == u[i].page
      <4>1. p \in D \/ \E k \in 1..((i - Len(s)) - 1) : Maps(t[k], p)
        BY <3>1, <3>2 DEF Piece, OsScript
      <4> HIDE DEF p
      <4>2. CASE p \in D
        <5>1. p \in B \/ \E k \in 1..Len(s) : Maps(s[k], p)
          BY <4>2 DEF Piece, MapsSome
        <5>2. QED
          BY <1>2, <3>1, <5>1 DEF p
      <4>3. ASSUME NEW k \in 1..((i - Len(s)) - 1), Maps(t[k], p)
            PROVE  \E j \in 1..(i - 1) : Maps(u[j], p)
        <5>1. k \in 1..Len(t) /\ k + Len(s) \in 1..(i - 1)
          BY <1>1, <3>1
        <5>2. QED
          BY <1>3, <4>3, <5>1
      <4>4. QED
        BY <4>1, <4>2, <4>3 DEF p
    <3>3. QED
      BY <3>1, <3>2 DEF Piece, OsScript
  <2>3. QED
    BY <1>1, <2>1, <2>2
<1>7. QED
  BY <1>1, <1>5, <1>6 DEF Piece, OsScript, u

\* A piece may have more mapped before, and less after.
LEMMA PieceLess ==
    ASSUME NEW s, NEW B, NEW M, Piece(s, B, M), NEW D, NEW N, B \subseteq D, N \subseteq M
    PROVE  Piece(s, D, N)
  BY DEF Piece, OsScript

\* Nothing to do.
LEMMA PieceEmpty == \A B : Piece(<<>>, B, {})
  BY DEF Piece, OsScript

\* One call.
LEMMA PieceOne ==
    ASSUME NEW call \in Calls, NEW B, NEW M,
           call.op \in {"map", "access", "unmap"} \union Risks,
           call.op = "unmap" => call.physical,
           call.op = "access" => call.page \in B /\ call.page \notin VmcsPages,
           \A p \in M : Maps(call, p)
    PROVE  Piece(<<call>>, B, M)
<1> DEFINE s == <<call>>
<1>1. s \in Seq(Calls) /\ Len(s) = 1 /\ s[1] = call
  OBVIOUS
<1> HIDE DEF s
<1>2. \A i \in 1..Len(s) : s[i] = call
  BY <1>1
<1>3. OsScript(s, B)
  BY <1>1, <1>2 DEF OsScript
<1>4. ASSUME NEW p \in M PROVE MapsSome(s, p)
  <2>1. 1 \in 1..Len(s) /\ Maps(s[1], p)
    BY <1>1
  <2>2. QED
    BY <2>1 DEF MapsSome
<1>5. QED
  BY <1>3, <1>4 DEF Piece, s

\* Two calls.
LEMMA PieceTwo ==
    ASSUME NEW a \in Calls, NEW b \in Calls, NEW B, NEW D, NEW M, NEW N,
           Piece(<<a>>, B, M), Piece(<<b>>, D, N), D \subseteq B \union M
    PROVE  Piece(<<a, b>>, B, M \union N)
<1> DEFINE s == <<a>>
           t == <<b>>
           u == <<a, b>>
<1>1. /\ s \in Seq(Calls) /\ Len(s) = 1 /\ s[1] = a
      /\ t \in Seq(Calls) /\ Len(t) = 1 /\ t[1] = b
      /\ u \in Seq(Calls) /\ Len(u) = 2 /\ u[1] = a /\ u[2] = b
  OBVIOUS
<1>2. Piece(s, B, M) /\ Piece(t, D, N)
  OBVIOUS
<1> HIDE DEF s, t, u
<1>3. s \o t \in Seq(Calls) /\ Len(s \o t) = 2 /\ (s \o t)[1] = a /\ (s \o t)[2] = b
  BY <1>1, ConcatProperties
<1>4. u = s \o t
  BY <1>1, <1>3, SeqEqual
<1>5. Piece(u, B, M \union N)
  BY <1>2, <1>4, PieceJoin
<1>6. QED
  BY <1>5 DEF u

\* The scripts that need B only.
OsScripts(B) == {s \in Seq(Calls) : OsScript(s, B)}

\* FlattenSeq joins sequences of a kind to one of that kind.
LEMMA FlattenIn ==
    ASSUME NEW S, <<>> \in S, \A s, t \in S : s \o t \in S, NEW seqs \in Seq(S)
    PROVE  FlattenSeq(seqs) \in S
<1> DEFINE n == Len(seqs)
<1>1. n \in Nat /\ \A i \in 1..n : seqs[i] \in S
  BY LenProperties, ElementOfSeq
<1>2. CASE n = 0
  <2>1. seqs = <<>> /\ FlattenSeq(seqs) = seqs
    BY <1>2, EmptySeq DEF FlattenSeq
  <2>2. QED
    BY <2>1
<1>3. CASE n # 0
  <2>1. PICK f : Joins(f, seqs, n) /\ FlattenSeq(seqs) = f[n]
    BY <1>1, <1>3, Flatten
  <2> HIDE DEF n
  <2>2. \A i \in 1..n : f[i] = IF i = 1 THEN seqs[i] ELSE f[i - 1] \o seqs[i]
    BY <2>1 DEF Joins
  <2> DEFINE Others == {i \in 1..n : f[i] \notin S}
  <2>3. SUFFICES ASSUME Others # {} PROVE FALSE
    BY <1>1, <1>3, <2>1
  <2>4. PICK m \in Others : \A y \in Others : m <= y
    <3>1. Others \subseteq Nat
      OBVIOUS
    <3> HIDE DEF Others
    <3>2. QED
      BY <2>3, <3>1, SmallestNumber
  <2>5. m \in 1..n /\ f[m] \notin S
    OBVIOUS
  <2>6. m # 1
    BY <1>1, <2>2, <2>5
  <2>7. m - 1 \in 1..n /\ m - 1 \notin Others
    BY <1>1, <2>4, <2>5, <2>6
  <2>8. f[m - 1] \in S /\ seqs[m] \in S /\ f[m] = f[m - 1] \o seqs[m]
    BY <1>1, <2>2, <2>5, <2>6, <2>7
  <2>9. QED
    BY <2>5, <2>8
<1>4. QED
  BY <1>2, <1>3

\* Any number of pieces in a row that need the same.
LEMMA PieceFlatten ==
    ASSUME NEW B, NEW M, NEW seqs \in Seq(OsScripts(B)),
           \A p \in M : \E i \in 1..Len(seqs) : MapsSome(seqs[i], p)
    PROVE  Piece(FlattenSeq(seqs), B, M)
<1>1. \A s \in OsScripts(B) : Piece(s, B, {}) /\ s \in Seq(Calls)
  BY DEF OsScripts, Piece
<1>2. \A s, t \in OsScripts(B) : s \o t \in OsScripts(B)
  <2> SUFFICES ASSUME NEW s \in OsScripts(B), NEW t \in OsScripts(B)
               PROVE  s \o t \in OsScripts(B)
    OBVIOUS
  <2>1. Piece(s \o t, B, {} \union {})
    BY <1>1, PieceJoin
  <2>2. QED
    BY <2>1 DEF Piece, OsScripts, OsScript
<1>3. <<>> \in OsScripts(B)
  BY PieceEmpty DEF Piece, OsScripts, OsScript
<1>4. OsScript(FlattenSeq(seqs), B)
  BY <1>2, <1>3, FlattenIn DEF OsScripts
<1>5. ASSUME NEW p \in M PROVE MapsSome(FlattenSeq(seqs), p)
  <2> DEFINE n == Len(seqs)
  <2>1. PICK k \in 1..n : MapsSome(seqs[k], p)
    OBVIOUS
  <2>2. n \in Nat /\ n # 0 /\ \A i \in 1..n : seqs[i] \in OsScripts(B)
    BY <2>1, LenProperties, ElementOfSeq
  <2>3. PICK f : Joins(f, seqs, n) /\ FlattenSeq(seqs) = f[n]
    BY <2>2, Flatten
  <2> HIDE DEF n
  <2>4. \A i \in 1..n : f[i] = IF i = 1 THEN seqs[i] ELSE f[i - 1] \o seqs[i]
    BY <2>3 DEF Joins
  <2> DEFINE Mapped(i) == IF i >= k THEN {p} ELSE {}
             Others == {i \in 1..n : ~Piece(f[i], B, Mapped(i))}
  <2>5. SUFFICES ASSUME Others # {} PROVE FALSE
    <3>1. n \in 1..n /\ Mapped(n) = {p}
      BY <2>1, <2>2
    <3> HIDE DEF Mapped
    <3>2. Piece(f[n], B, {p})
      BY <2>5, <3>1
    <3>3. QED
      BY <2>3, <3>2 DEF Piece
  <2>6. PICK m \in Others : \A y \in Others : m <= y
    <3>1. Others \subseteq Nat
      OBVIOUS
    <3> HIDE DEF Others
    <3>2. QED
      BY <2>5, <3>1, SmallestNumber
  <2>7. m \in 1..n /\ ~Piece(f[m], B, Mapped(m)) /\ m \in Int /\ k \in Int
    BY <2>1
  <2>8. Piece(seqs[m], B, IF m = k THEN {p} ELSE {})
    BY <1>1, <2>1, <2>2, <2>7 DEF Piece
  <2>9. CASE m = 1
    <3>1. Mapped(m) \subseteq IF m = k THEN {p} ELSE {}
      BY <2>1, <2>7, <2>9
    <3>2. f[m] = seqs[m]
      BY <2>4, <2>7, <2>9
    <3>3. QED
      BY <2>7, <2>8, <3>1, <3>2, PieceLess
  <2>10. CASE m # 1
    <3>1. m - 1 \in 1..n /\ m - 1 \notin Others
      <4> HIDE DEF Others
      <4>1. QED
        BY <2>2, <2>6, <2>7, <2>10
    <3>2. Piece(f[m - 1], B, Mapped(m - 1)) /\ f[m] = f[m - 1] \o seqs[m]
      BY <2>4, <2>7, <2>10, <3>1
    <3>3. Mapped(m) \subseteq Mapped(m - 1) \union IF m = k THEN {p} ELSE {}
      BY <2>7
    <3> HIDE DEF Mapped, Others
    <3>4. Piece(f[m], B, Mapped(m - 1) \union IF m = k THEN {p} ELSE {})
      BY <2>8, <3>2, PieceJoin
    <3>5. QED
      BY <2>7, <3>3, <3>4, PieceLess
  <2>11. QED
    BY <2>9, <2>10
<1>6. QED
  BY <1>4, <1>5 DEF Piece

\* Where the guest has its memory: none of it is a VMCS region.
LEMMA SpanIs ==
    ASSUME NEW span \in Spans
    PROVE  /\ span \in Seq(GuestPages) /\ Len(span) \in Nat /\ DOMAIN span = 1..Len(span)
           /\ Range(span) \subseteq Frames /\ Range(span) \intersect VmcsPages = {}
           /\ \A i \in 1..Len(span) : span[i] \in Range(span) /\ span[i] \in Frames
<1>1. span \in Seq(GuestPages)
  BY DEF Spans
<1>2. Len(span) \in Nat /\ DOMAIN span = 1..Len(span) /\ \A i \in 1..Len(span) : span[i] \in GuestPages
  BY <1>1, LenProperties, ElementOfSeq
<1>3. GuestPages \subseteq Frames /\ GuestPages \intersect VmcsPages = {}
  BY ServicesAssumption
<1>4. QED
  BY <1>1, <1>2, <1>3 DEF Range

\* An access by an index.
LEMMA PieceIndex ==
    ASSUME NEW span \in Spans, NEW use \in Index(span)
    PROVE  use \in Calls /\ Piece(<<use>>, Range(span), {})
<1>1. CASE use \in {Access(p) : p \in Range(span)}
  <2>1. PICK p \in Range(span) : use = Access(p)
    BY <1>1
  <2>2. p \in Frames /\ p \notin VmcsPages
    BY SpanIs
  <2>3. use \in Calls /\ use.op = "access" /\ use.page = p
    BY <2>1, <2>2, CallsAre DEF Access
  <2>4. QED
    BY <2>2, <2>3, PieceOne
<1>2. CASE use \in {AccessPast(p) : p \in Frames}
  <2>1. use \in Calls /\ use.op = "accessPast"
    BY <1>2 DEF AccessPast, Calls
  <2>2. QED
    BY <2>1, PieceOne DEF Risks
<1>3. QED
  BY <1>1, <1>2 DEF Index

\* Mapping pages, and going on or not.
LEMMA PieceMap ==
    ASSUME NEW pages \in SUBSET Frames
    PROVE  MapMemory(pages) \in Calls /\ Piece(<<MapMemory(pages)>>, {}, pages)
<1> DEFINE call == MapMemory(pages)
<1>1. call \in Calls /\ call.op = "map" /\ call.pages = pages
  BY DEF MapMemory, MapMemoryInvalidate, Calls
<1>2. \A p \in pages : Maps(call, p)
  BY <1>1 DEF Maps
<1> HIDE DEF call
<1>3. Piece(<<call>>, {}, pages)
  BY <1>1, <1>2, PieceOne
<1>4. QED
  BY <1>1, <1>3 DEF call

LEMMA PieceOrElse ==
    ASSUME NEW rest \in Seq(PaUnmaps)
    PROVE  OrElse(rest) \in Calls /\ Piece(<<OrElse(rest)>>, {}, {})
<1> DEFINE call == OrElse(rest)
<1>1. call \in Calls /\ call.op = "orElse"
  BY DEF OrElse, Calls
<1> HIDE DEF call
<1>2. Piece(<<call>>, {}, {})
  BY <1>1, PieceOne DEF Risks
<1>3. QED
  BY <1>1, <1>2 DEF call

\* Reading a page of the guest's tables maps it first.
LEMMA PieceRead ==
    ASSUME NEW table \in GuestTables
    PROVE  Piece(Read(table), {}, {})
<1> DEFINE m == MapMemory({table})
           a == Access(table)
<1>1. table \in Frames /\ table \notin VmcsPages
  BY ServicesAssumption
<1>2. m \in Calls /\ Piece(<<m>>, {}, {table})
  BY <1>1, PieceMap
<1>3. a \in Calls /\ a.op = "access" /\ a.page = table
  BY <1>1, CallsAre DEF Access
<1> HIDE DEF m, a
<1>4. Piece(<<a>>, {table}, {})
  BY <1>1, <1>3, PieceOne
<1>5. Piece(<<m, a>>, {}, {table} \union {})
  BY <1>2, <1>3, <1>4, PieceTwo
<1>6. Piece(<<m, a>>, {}, {})
  BY <1>5 DEF Piece
<1>7. QED
  BY <1>6 DEF Read, m, a

\* GuestVAToHostVA maps what it finds.
LEMMA PieceVa ==
    ASSUME NEW table \in GuestTables, NEW span \in Spans, NEW rest \in Seq(PaUnmaps)
    PROVE  Piece(GuestVAToHostVA(table, span, rest), {}, Range(span))
<1> DEFINE o == OrElse(rest)
           m == MapMemory(Range(span))
           r == Read(table)
           P == Range(span)
<1>1. o \in Calls /\ Piece(<<o>>, {}, {})
  BY PieceOrElse
<1>2. m \in Calls /\ Piece(<<m>>, {}, P)
  BY SpanIs, PieceMap
<1>3. Piece(r, {}, {})
  BY PieceRead
<1> HIDE DEF o, m, r, P
<1>4. Piece(<<o, m>>, {}, {} \union P)
  BY <1>1, <1>2, PieceTwo
<1>5. Piece(r \o <<o, m>>, {}, {} \union ({} \union P))
  BY <1>3, <1>4, PieceJoin
<1>6. Piece(r \o <<o, m>>, {}, P)
  BY <1>5, PieceLess
<1>7. QED
  BY <1>6 DEF GuestVAToHostVA, o, m, r, P

\* Reading and writing what has been mapped.
LEMMA PieceUse ==
    ASSUME NEW span \in Spans
    PROVE  Piece(Use(span), Range(span), {})
<1> DEFINE s == Use(span)
           n == Len(span)
<1>1. /\ n \in Nat /\ DOMAIN span = 1..n /\ \A i \in 1..n : span[i] \in Range(span)
      /\ Range(span) \subseteq Frames /\ Range(span) \intersect VmcsPages = {}
  BY SpanIs
<1> HIDE DEF n
<1>2. s = [i \in 1..n |-> Access(span[i])] /\ \A i \in 1..n : Access(span[i]) \in Calls
  BY <1>1, CallsAre DEF Use
<1>3. s \in Seq(Calls) /\ Len(s) = n /\ \A i \in 1..n : s[i] = Access(span[i])
  BY <1>1, <1>2
<1> HIDE DEF s
<1>4. \A i \in 1..n : s[i].op = "access" /\ s[i].page = span[i]
  BY <1>3 DEF Access
<1>5. QED
  BY <1>1, <1>3, <1>4 DEF Piece, OsScript, s

\* What is given back is unmapped by physical addresses.
LEMMA GiveBackIs ==
    ASSUME NEW spans \in Seq(Spans)
    PROVE  GiveBack(spans) \in Seq(PaUnmaps)
<1>1. DOMAIN spans = 1..Len(spans) /\ Len(spans) \in Nat /\ \A i \in 1..Len(spans) : spans[i] \in Spans
  BY LenProperties, ElementOfSeq
<1>2. \A i \in 1..Len(spans) : UnmapPa(Range(spans[i])) \in PaUnmaps
  BY <1>1, SpanIs DEF UnmapPa, PaUnmaps
<1>3. QED
  BY <1>1, <1>2 DEF GiveBack

\* GuestRead reads what GuestVAToHostVA has mapped.
LEMMA PieceGuestRead ==
    ASSUME NEW table \in GuestTables, NEW span \in Spans, NEW rest \in Seq(PaUnmaps)
    PROVE  Piece(GuestRead(table, span, rest), {}, {})
<1> DEFINE v == GuestVAToHostVA(table, span, rest)
           u == Use(span)
           g == GiveBack(<<span>>)
           P == Range(span)
<1>1. Piece(v, {}, P) /\ Piece(u, P, {})
  BY PieceVa, PieceUse
<1>2. Piece(g, {}, {})
  BY GiveBackIs, OsUnmaps DEF Piece
<1> HIDE DEF v, u, g, P
<1>3. Piece(v \o u, {}, P \union {})
  BY <1>1, PieceJoin
<1>4. Piece((v \o u) \o g, {}, (P \union {}) \union {})
  BY <1>2, <1>3, PieceJoin
<1>5. Piece((v \o u) \o g, {}, {})
  BY <1>4, PieceLess
<1>6. QED
  BY <1>5 DEF GuestRead, v, u, g


\* What a layout says, by name.
LEMMA LayoutIs ==
    ASSUME NEW e \in Layouts
    PROVE  /\ e.table \in GuestTables
           /\ e.buffer \in Spans /\ e.image \in Spans /\ e.exportDir \in Spans /\ e.symbol \in Spans
           /\ e.headers \in Index(e.image)
           /\ e.context \in Seq(Spans)
           /\ e.pages \in Nat /\ e.pages >= 1
           /\ e.tables \in Seq(Spans) /\ Len(e.tables) = 3 * e.pages
           /\ e.names \in Seq(NamesOf(e))
           /\ e.processes \in Seq(ProcessesOf(e))
  BY ServicesAssumption DEF IsLayout

\* The pages of some spans, one after the other.
PagesOf(spans) == UNION {Range(spans[i]) : i \in DOMAIN spans}

\* All that the cleanup does is to unmap by physical addresses.
LEMMA CleanupIs ==
    ASSUME NEW e \in Layouts, NEW n \in 0..Len(e.tables)
    PROVE  Cleanup(e, n) \in Seq(PaUnmaps)
<1> DEFINE m == IF n < 3 THEN 1 ELSE n - 2
           g == GiveBack(SubSeq(e.tables, m, n))
           seqs == [i \in 1..e.pages |-> g]
           h == GiveBack(<<e.exportDir, e.image>>)
<1>1. /\ e.tables \in Seq(Spans) /\ Len(e.tables) \in Nat /\ e.pages \in Nat
      /\ e.exportDir \in Spans /\ e.image \in Spans
  BY LayoutIs, LenProperties
<1>2. m \in 1..(Len(e.tables) + 1) /\ n \in (m - 1)..Len(e.tables)
  BY <1>1
<1>3. g \in Seq(PaUnmaps)
  <2> HIDE DEF m
  <2>1. SubSeq(e.tables, m, n) \in Seq(Spans)
    BY <1>1, <1>2, SubSeqProperties
  <2>2. QED
    BY <2>1, GiveBackIs
<1>4. <<e.exportDir, e.image>> \in Seq(Spans)
  BY <1>1
<1>5. h \in Seq(PaUnmaps)
  BY <1>4, GiveBackIs
<1> HIDE DEF g, h, m
<1>6. seqs \in Seq(Seq(PaUnmaps))
  BY <1>1, <1>3
<1>7. <<>> \in Seq(PaUnmaps) /\ \A s, t \in Seq(PaUnmaps) : s \o t \in Seq(PaUnmaps)
  BY ConcatProperties, EmptySeq
<1> HIDE DEF seqs
<1>8. FlattenSeq(seqs) \in Seq(PaUnmaps)
  BY <1>6, <1>7, FlattenIn
<1>9. FlattenSeq(seqs) \o h \in Seq(PaUnmaps)
  BY <1>5, <1>7, <1>8
<1>10. QED
  BY <1>9 DEF Cleanup, seqs, g, h, m

\* A table page is mapped; the export directory must have been.
LEMMA PieceMapTable ==
    ASSUME NEW e \in Layouts, NEW n \in 1..Len(e.tables), NEW quit \in Seq(PaUnmaps)
    PROVE  Piece(MapTable(e, n, quit), Range(e.exportDir), Range(e.tables[n]))
<1> DEFINE u == Use(e.exportDir)
           rest == Cleanup(e, n - 1) \o quit
           v == GuestVAToHostVA(e.table, e.tables[n], rest)
           X == Range(e.exportDir)
           T == Range(e.tables[n])
<1>1. /\ e.tables \in Seq(Spans) /\ Len(e.tables) \in Nat /\ e.tables[n] \in Spans
      /\ e.exportDir \in Spans /\ e.table \in GuestTables
  BY LayoutIs, LenProperties, ElementOfSeq
<1>2. n - 1 \in 0..Len(e.tables)
  BY <1>1
<1>3. rest \in Seq(PaUnmaps)
  BY <1>2, CleanupIs, ConcatProperties
<1> HIDE DEF rest
<1>4. Piece(u, X, {}) /\ Piece(v, {}, T)
  BY <1>1, <1>3, PieceUse, PieceVa
<1> HIDE DEF u, v, X, T
<1>5. Piece(u \o v, X, {} \union T)
  BY <1>4, PieceJoin
<1>6. Piece(u \o v, X, T)
  BY <1>5, PieceLess
<1>7. QED
  BY <1>6 DEF MapTable, u, v, X, T, rest

\* A look at one name reads the tables and the name.
LEMMA PieceLookup ==
    ASSUME NEW e \in Layouts, NEW name \in NamesOf(e)
    PROVE  Piece(Lookup(e, name), PagesOf(e.tables), {})
<1> DEFINE n == Len(e.tables)
           T == PagesOf(e.tables)
           a == name.entry
           r == Read(e.table)
           m == MapMemory(Range(name.span))
           P == Range(name.span)
           u == Use(name.span)
           f == name.function
           g == GiveBack(<<name.span>>)
           start == <<a>> \o r
<1>1. /\ e.tables \in Seq(Spans) /\ n \in Nat /\ n >= 3 /\ DOMAIN e.tables = 1..n
      /\ e.table \in GuestTables
  BY LayoutIs, LenProperties
<1>2. \A i \in {n - 2, n - 1, n} : /\ i \in 1..n /\ e.tables[i] \in Spans
                                   /\ Range(e.tables[i]) \subseteq T
  <2> SUFFICES ASSUME NEW i \in {n - 2, n - 1, n}
               PROVE  i \in 1..n /\ e.tables[i] \in Spans /\ Range(e.tables[i]) \subseteq T
    OBVIOUS
  <2>1. i \in 1..n
    BY <1>1
  <2>2. QED
    BY <1>1, <2>1, ElementOfSeq DEF PagesOf
<1>3. /\ name.entry \in Index(e.tables[n - 2])
      /\ name.span \in Spans \/ name.span = <<>>
      /\ name.function \in {<<>>} \union (Index(e.tables[n - 1]) \X Index(e.tables[n]))
  BY DEF NamesOf
<1>4. ASSUME NEW i \in {n - 2, n - 1, n}, NEW use \in Index(e.tables[i])
      PROVE  use \in Calls /\ Piece(<<use>>, T, {})
  <2> HIDE DEF T, n
  <2>1. use \in Calls /\ Piece(<<use>>, Range(e.tables[i]), {})
    BY <1>2, PieceIndex
  <2>2. Piece(<<use>>, T, {})
    BY <1>2, <2>1, PieceLess
  <2>3. QED
    BY <2>1, <2>2
<1> HIDE DEF n, T
<1>5. Piece(start, T, {})
  <2>1. Piece(<<a>>, T, {}) /\ Piece(r, {}, {})
    BY <1>1, <1>3, <1>4, PieceRead
  <2> HIDE DEF a, r
  <2>2. Piece(<<a>> \o r, T, {} \union {})
    BY <2>1, PieceJoin
  <2>3. QED
    BY <2>2, PieceLess
<1>6. Piece(f, T, {})
  <2>1. CASE name.function = <<>>
    BY <2>1, PieceEmpty
  <2>2. CASE name.function \in Index(e.tables[n - 1]) \X Index(e.tables[n])
    <3>1. PICK b \in Index(e.tables[n - 1]), d \in Index(e.tables[n]) : name.function = <<b, d>>
      BY <2>2
    <3>2. b \in Calls /\ d \in Calls /\ Piece(<<b>>, T, {}) /\ Piece(<<d>>, T, {})
      BY <1>4
    <3>3. Piece(<<b, d>>, T, {} \union {})
      BY <3>2, PieceTwo
    <3>4. Piece(<<b, d>>, T, {})
      BY <3>3, PieceLess
    <3>5. QED
      BY <3>1, <3>4
  <2>3. QED
    BY <1>3, <2>1, <2>2
<1>7. CASE name.span = <<>>
  <2>1. Piece(<<>>, T, {})
    BY PieceEmpty
  <2> HIDE DEF start
  <2>2. Piece(start \o <<>>, T, {} \union {})
    BY <1>5, <2>1, PieceJoin
  <2>3. Piece(start \o <<>>, T, {})
    BY <2>2, PieceLess
  <2>4. QED
    BY <1>7, <2>3 DEF Lookup, start, T
<1>8. CASE name.span \in Spans
  <2>1. name.span # <<>>
    <3>1. Len(name.span) \in 1..2 /\ Len(<<>>) = 0
      BY <1>8 DEF Spans
    <3>2. Len(name.span) # 0
      BY <3>1
    <3>3. QED
      BY <3>1, <3>2
  <2>2. P \in SUBSET Frames /\ <<name.span>> \in Seq(Spans)
    BY <1>8, SpanIs
  <2>3. /\ Piece(<<m>>, {}, P) /\ Piece(u, P, {})
        /\ Piece(g, {}, {})
    BY <1>8, <2>2, PieceMap, PieceUse, GiveBackIs, OsUnmaps DEF Piece
  <2> DEFINE most == <<m>> \o u \o f \o g
  <2>4. Piece(most, T, {})
    <3> HIDE DEF m, u, f, g, P
    <3>1. Piece(<<m>> \o u, {}, P \union {})
      BY <2>3, PieceJoin
    <3>2. Piece(<<m>> \o u, T, {})
      BY <3>1, PieceLess
    <3>3. Piece((<<m>> \o u) \o f, T, {} \union {})
      BY <1>6, <3>2, PieceJoin
    <3>4. Piece(((<<m>> \o u) \o f) \o g, T, ({} \union {}) \union {})
      BY <2>3, <3>3, PieceJoin
    <3>5. QED
      BY <3>4, PieceLess
  <2> HIDE DEF most, start
  <2>5. Piece(start \o most, T, {} \union {})
    BY <1>5, <2>4, PieceJoin
  <2>6. Piece(start \o most, T, {})
    BY <2>5, PieceLess
  <2>7. QED
    BY <2>1, <2>6 DEF Lookup, start, most, T
<1>9. QED
  BY <1>3, <1>7, <1>8

\* A piece goes on with what the pieces before it have mapped.
LEMMA PieceThen ==
    ASSUME NEW s, NEW t, NEW D, NEW M, NEW N, Piece(s, {}, M), Piece(t, D, N), D \subseteq M
    PROVE  Piece(s \o t, {}, M \union N)
  BY PieceJoin

\* The search for an export needs nothing mapped before.
LEMMA PieceMzpeFindExport ==
    ASSUME NEW e \in Layouts, NEW quit \in Seq(PaUnmaps)
    PROVE  Piece(MzpeFindExport(e, quit), {}, {})
<1> DEFINE back == GiveBack(<<e.image>>) \o quit
           v1 == GuestVAToHostVA(e.table, e.image, quit)
           u1 == Use(e.image)
           h == <<e.headers, OrElse(back)>>
           v2 == GuestVAToHostVA(e.table, e.exportDir, back)
           u2 == Use(e.exportDir)
           ts == [n \in DOMAIN e.tables |-> MapTable(e, n, quit)]
           ns == [i \in DOMAIN e.names |-> Lookup(e, e.names[i])]
           c == Cleanup(e, Len(e.tables))
           I == Range(e.image)
           X == Range(e.exportDir)
           T == PagesOf(e.tables)
<1>1. /\ e.table \in GuestTables /\ e.image \in Spans /\ e.exportDir \in Spans
      /\ e.headers \in Index(e.image)
      /\ e.tables \in Seq(Spans) /\ e.names \in Seq(NamesOf(e))
  BY LayoutIs
<1>2. back \in Seq(PaUnmaps)
  <2>1. <<e.image>> \in Seq(Spans)
    BY <1>1
  <2>2. QED
    BY <2>1, GiveBackIs, ConcatProperties
<1> HIDE DEF back
<1>3. Piece(v1, {}, I) /\ Piece(u1, I, {}) /\ Piece(v2, {}, X) /\ Piece(u2, X, {})
  BY <1>1, <1>2, PieceVa, PieceUse
<1>4. Piece(h, I, {})
  <2> DEFINE a == e.headers
             o == OrElse(back)
  <2>1. a \in Calls /\ o \in Calls /\ Piece(<<a>>, I, {}) /\ Piece(<<o>>, {}, {})
    BY <1>1, <1>2, PieceIndex, PieceOrElse
  <2> HIDE DEF a, o
  <2>2. Piece(<<a, o>>, I, {} \union {})
    BY <2>1, PieceTwo
  <2>3. Piece(<<a, o>>, I, {})
    BY <2>2, PieceLess
  <2>4. QED
    BY <2>3 DEF a, o
<1>5. Piece(FlattenSeq(ts), X, T)
  <2> DEFINE n == Len(e.tables)
  <2>1. n \in Nat /\ DOMAIN e.tables = 1..n
    BY <1>1, LenProperties
  <2>2. \A i \in 1..n : Piece(MapTable(e, i, quit), X, Range(e.tables[i]))
    BY PieceMapTable
  <2>3. \A i \in 1..n : MapTable(e, i, quit) \in OsScripts(X)
    BY <2>2 DEF Piece, OsScripts, OsScript
  <2> HIDE DEF n
  <2>4. ts = [i \in 1..n |-> MapTable(e, i, quit)]
    BY <2>1
  <2>5. ts \in Seq(OsScripts(X)) /\ Len(ts) = n /\ \A i \in 1..n : ts[i] = MapTable(e, i, quit)
    BY <2>1, <2>3, <2>4
  <2> HIDE DEF ts
  <2>6. ASSUME NEW p \in T PROVE \E i \in 1..Len(ts) : MapsSome(ts[i], p)
    <3>1. PICK i \in 1..n : p \in Range(e.tables[i])
      BY <2>1 DEF PagesOf
    <3>2. MapsSome(ts[i], p)
      BY <2>2, <2>5, <3>1 DEF Piece
    <3>3. QED
      BY <2>5, <3>2
  <2> HIDE DEF T
  <2>7. QED
    BY <2>5, <2>6, PieceFlatten
<1>6. Piece(FlattenSeq(ns), T, {})
  <2> DEFINE n == Len(e.names)
  <2>1. n \in Nat /\ DOMAIN e.names = 1..n /\ \A i \in 1..n : e.names[i] \in NamesOf(e)
    BY <1>1, LenProperties, ElementOfSeq
  <2>2. \A i \in 1..n : Piece(Lookup(e, e.names[i]), T, {})
    BY <2>1, PieceLookup
  <2>3. \A i \in 1..n : Lookup(e, e.names[i]) \in OsScripts(T)
    BY <2>2 DEF Piece, OsScripts, OsScript
  <2> HIDE DEF n
  <2>4. ns = [i \in 1..n |-> Lookup(e, e.names[i])]
    BY <2>1
  <2>5. ns \in Seq(OsScripts(T))
    BY <2>1, <2>3, <2>4
  <2> HIDE DEF ns, T
  <2>6. QED
    BY <2>5, PieceFlatten
<1>7. Piece(c, {}, {})
  <2>1. Len(e.tables) \in 0..Len(e.tables)
    BY <1>1, LenProperties
  <2>2. c \in Seq(PaUnmaps)
    BY <2>1, CleanupIs
  <2> HIDE DEF c
  <2>3. QED
    BY <2>2, OsUnmaps DEF Piece
<1> DEFINE fs == FlattenSeq(ts)
           gs == FlattenSeq(ns)
           s1 == v1 \o u1
           s2 == s1 \o h
           s3 == s2 \o v2
           s4 == s3 \o u2
           s5 == s4 \o fs
           s6 == s5 \o gs
           s7 == s6 \o c
<1>8. Piece(s1, {}, I)
  <2> HIDE DEF v1, u1, I
  <2>1. QED
    BY <1>3, PieceThen, PieceLess
<1> HIDE DEF s1
<1>9. Piece(s2, {}, I)
  <2> HIDE DEF h, I
  <2>1. QED
    BY <1>4, <1>8, PieceThen, PieceLess
<1> HIDE DEF s2
<1>10. Piece(s3, {}, X)
  <2> HIDE DEF v2, I, X
  <2>1. QED
    BY <1>3, <1>9, PieceThen, PieceLess
<1> HIDE DEF s3
<1>11. Piece(s4, {}, X)
  <2> HIDE DEF u2, X
  <2>1. QED
    BY <1>3, <1>10, PieceThen, PieceLess
<1> HIDE DEF s4
<1>12. Piece(s5, {}, T)
  <2> HIDE DEF ts, X, T
  <2>1. Piece(s4 \o FlattenSeq(ts), {}, X \union T)
    BY <1>5, <1>11, PieceThen
  <2>2. QED
    BY <2>1, PieceLess
<1> HIDE DEF s5
<1>13. Piece(s6, {}, {})
  <2> HIDE DEF ns, T
  <2>1. QED
    BY <1>6, <1>12, PieceThen, PieceLess
<1> HIDE DEF s6
<1>14. Piece(s7, {}, {})
  <2> HIDE DEF c
  <2>1. QED
    BY <1>7, <1>13, PieceThen, PieceLess
<1>15. MzpeFindExport(e, quit) = s7
  BY DEF MzpeFindExport, s1, s2, s3, s4, s5, s6, back
<1>16. QED
  BY <1>14, <1>15

\* One process needs the buffer, and the number when the caller wants it.
LEMMA PieceProcess ==
    ASSUME NEW e \in Layouts, NEW process \in ProcessesOf(e), NEW quit \in Seq(PaUnmaps)
    PROVE  Piece(Process(e, process, quit), Range(e.buffer) \union PagesOf(e.context), {})
<1> DEFINE v == GuestVAToHostVA(e.table, process.span, quit)
           u == Use(process.span)
           cs == [i \in DOMAIN e.context |-> Use(e.context[i])]
           w == process.written
           middle == IF w = <<>> THEN <<>> ELSE FlattenSeq(cs) \o w
           g == GiveBack(<<process.span>>)
           P == Range(process.span)
           F == Range(e.buffer)
           C == PagesOf(e.context)
           B == F \union C
<1>1. /\ e.table \in GuestTables /\ e.buffer \in Spans /\ e.context \in Seq(Spans)
      /\ process.span \in Spans /\ w \in {<<>>} \union {<<use>> : use \in Index(e.buffer)}
  BY LayoutIs DEF ProcessesOf
<1>2. Piece(v, {}, P) /\ Piece(u, P, {})
  BY <1>1, PieceVa, PieceUse
<1>3. Piece(FlattenSeq(cs), C, {})
  <2> DEFINE n == Len(e.context)
  <2>1. /\ n \in Nat /\ DOMAIN e.context = 1..n
        /\ \A i \in 1..n : e.context[i] \in Spans /\ Range(e.context[i]) \subseteq C
    <3>1. n \in Nat /\ DOMAIN e.context = 1..n /\ \A i \in 1..n : e.context[i] \in Spans
      BY <1>1, LenProperties, ElementOfSeq
    <3>2. QED
      BY <3>1 DEF PagesOf
  <2> HIDE DEF C, n
  <2>2. \A i \in 1..n : Piece(Use(e.context[i]), C, {})
    BY <2>1, PieceUse, PieceLess
  <2>3. \A i \in 1..n : Use(e.context[i]) \in OsScripts(C)
    BY <2>2 DEF Piece, OsScripts, OsScript
  <2>4. cs = [i \in 1..n |-> Use(e.context[i])]
    BY <2>1
  <2>5. cs \in Seq(OsScripts(C))
    BY <2>1, <2>3, <2>4
  <2> HIDE DEF cs
  <2>6. QED
    BY <2>5, PieceFlatten
<1>4. Piece(middle, B, {})
  <2>1. CASE w = <<>>
    <3>1. middle = <<>>
      BY <2>1
    <3>2. QED
      BY <3>1, PieceEmpty
  <2>2. CASE w # <<>>
    <3>1. PICK use \in Index(e.buffer) : w = <<use>>
      BY <1>1, <2>2
    <3>2. Piece(w, F, {})
      BY <1>1, <3>1, PieceIndex
    <3>3. middle = FlattenSeq(cs) \o w
      BY <2>2
    <3> HIDE DEF w, cs, middle, F, C
    <3>4. Piece(w, B, {}) /\ Piece(FlattenSeq(cs), B, {})
      BY <1>3, <3>2, PieceLess
    <3> HIDE DEF B
    <3>5. Piece(FlattenSeq(cs) \o w, B, {} \union {})
      BY <3>4, PieceJoin
    <3>6. QED
      BY <3>3, <3>5, PieceLess
  <2>3. QED
    BY <2>1, <2>2
<1>5. Piece(g, {}, {})
  <2>1. <<process.span>> \in Seq(Spans)
    BY <1>1
  <2>2. QED
    BY <2>1, GiveBackIs, OsUnmaps DEF Piece
<1> HIDE DEF v, u, middle, g, P, B
<1>6. Piece(v \o u, {}, P \union {})
  BY <1>2, PieceThen
<1>7. Piece(v \o u, B, {})
  BY <1>6, PieceLess
<1>8. Piece((v \o u) \o middle, B, {} \union {})
  BY <1>4, <1>7, PieceJoin
<1>9. Piece(((v \o u) \o middle) \o g, B, ({} \union {}) \union {})
  BY <1>5, <1>8, PieceJoin
<1>10. Piece(((v \o u) \o middle) \o g, B, {})
  BY <1>9, PieceLess
<1>11. QED
  BY <1>10 DEF Process, v, u, cs, w, middle, g, B, F, C

\* The introspection call and the search for the kernel need nothing mapped before.
LEMMA PieceActiveProcessesList ==
    ASSUME NEW e \in Layouts
    PROVE  Piece(ActiveProcessesList(e), {}, {})
<1> DEFINE quit == GiveBack(<<e.buffer>> \o e.context)
           v == GuestVAToHostVA(e.table, e.buffer, <<>>)
           vs == [i \in DOMAIN e.context |-> GuestVAToHostVA(e.table, e.context[i], <<>>)]
           o == <<OrElse(quit)>>
           x == MzpeFindExport(e, quit)
           r == GuestRead(e.table, e.symbol, quit)
           ps == [i \in DOMAIN e.processes |-> Process(e, e.processes[i], quit)]
           l == IF Found(e) THEN r \o FlattenSeq(ps) ELSE <<>>
           F == Range(e.buffer)
           C == PagesOf(e.context)
           B == F \union C
<1>1. /\ e.table \in GuestTables /\ e.buffer \in Spans /\ e.symbol \in Spans
      /\ e.context \in Seq(Spans) /\ e.processes \in Seq(ProcessesOf(e))
  BY LayoutIs
<1>2. <<>> \in Seq(PaUnmaps) /\ quit \in Seq(PaUnmaps)
  <2>1. <<e.buffer>> \in Seq(Spans)
    BY <1>1
  <2> DEFINE b == <<e.buffer>>
  <2> HIDE DEF b
  <2>2. b \o e.context \in Seq(Spans)
    BY <1>1, <2>1, ConcatProperties DEF b
  <2>3. GiveBack(b \o e.context) \in Seq(PaUnmaps)
    BY <2>2, GiveBackIs
  <2>4. QED
    BY <2>3, EmptySeq DEF b
<1>3. Piece(v, {}, F)
  BY <1>1, <1>2, PieceVa
<1>4. Piece(FlattenSeq(vs), {}, C)
  <2> DEFINE n == Len(e.context)
             V(i) == GuestVAToHostVA(e.table, e.context[i], <<>>)
  <2>1. n \in Nat /\ DOMAIN e.context = 1..n /\ \A i \in 1..n : e.context[i] \in Spans
    BY <1>1, LenProperties, ElementOfSeq
  <2>2. \A i \in 1..n : Piece(V(i), {}, Range(e.context[i]))
    BY <1>1, <1>2, <2>1, PieceVa
  <2> HIDE DEF V
  <2>3. \A i \in 1..n : V(i) \in OsScripts({})
    BY <2>2 DEF Piece, OsScripts, OsScript
  <2> HIDE DEF n
  <2>4. vs = [i \in 1..n |-> V(i)]
    BY <2>1 DEF V
  <2>5. vs \in Seq(OsScripts({})) /\ Len(vs) = n /\ \A i \in 1..n : vs[i] = V(i)
    BY <2>1, <2>3, <2>4
  <2> HIDE DEF vs
  <2>6. ASSUME NEW p \in C PROVE \E i \in 1..Len(vs) : MapsSome(vs[i], p)
    <3>1. PICK i \in 1..n : p \in Range(e.context[i])
      BY <2>1 DEF PagesOf
    <3>2. MapsSome(vs[i], p)
      BY <2>2, <2>5, <3>1 DEF Piece
    <3>3. QED
      BY <2>5, <3>2
  <2> HIDE DEF C
  <2>7. QED
    BY <2>5, <2>6, PieceFlatten
<1> HIDE DEF quit
<1>5. Piece(o, {}, {}) /\ Piece(x, {}, {}) /\ Piece(r, {}, {})
  BY <1>1, <1>2, PieceOrElse, PieceMzpeFindExport, PieceGuestRead
<1>6. Piece(FlattenSeq(ps), B, {})
  <2> DEFINE n == Len(e.processes)
             P(i) == Process(e, e.processes[i], quit)
  <2>1. n \in Nat /\ DOMAIN e.processes = 1..n /\ \A i \in 1..n : e.processes[i] \in ProcessesOf(e)
    BY <1>1, LenProperties, ElementOfSeq
  <2>2. \A i \in 1..n : Piece(P(i), B, {})
    BY <1>2, <2>1, PieceProcess
  <2> HIDE DEF P
  <2>3. \A i \in 1..n : P(i) \in OsScripts(B)
    BY <2>2 DEF Piece, OsScripts, OsScript
  <2> HIDE DEF n
  <2>4. ps = [i \in 1..n |-> P(i)]
    BY <2>1 DEF P
  <2> HIDE DEF B
  <2>5. ps \in Seq(OsScripts(B))
    BY <2>1, <2>3, <2>4
  <2> HIDE DEF ps
  <2>6. QED
    BY <2>5, PieceFlatten
<1>7. Piece(l, B, {})
  <2> HIDE DEF r, ps, B
  <2>1. Piece(r, B, {})
    BY <1>5, PieceLess
  <2>2. Piece(r \o FlattenSeq(ps), B, {} \union {})
    BY <1>6, <2>1, PieceJoin
  <2>3. Piece(r \o FlattenSeq(ps), B, {}) /\ Piece(<<>>, B, {})
    BY <2>2, PieceLess, PieceEmpty
  <2>4. QED
    BY <2>3
<1>8. Piece(quit, {}, {})
  BY <1>2, OsUnmaps DEF Piece
<1> HIDE DEF v, vs, o, x, l, F, C
<1> DEFINE s1 == v \o FlattenSeq(vs)
           s2 == s1 \o o
           s3 == s2 \o x
           s4 == s3 \o l
           s5 == s4 \o quit
<1>9. Piece(s1, {}, B)
  BY <1>3, <1>4, PieceThen
<1> HIDE DEF s1, B
<1>10. Piece(s2, {}, B)
  BY <1>5, <1>9, PieceThen, PieceLess
<1> HIDE DEF s2
<1>11. Piece(s3, {}, B)
  BY <1>5, <1>10, PieceThen, PieceLess
<1> HIDE DEF s3
<1>12. Piece(s4, {}, {})
  BY <1>7, <1>11, PieceThen, PieceLess
<1> HIDE DEF s4
<1>13. Piece(s5, {}, {})
  BY <1>8, <1>12, PieceThen, PieceLess
<1>14. ActiveProcessesList(e) = s5
  BY DEF ActiveProcessesList, s1, s2, s3, s4, v, vs, o, x, l, quit
<1>15. QED
  BY <1>13, <1>14

LEMMA PieceFindKernelBase ==
    ASSUME NEW table \in GuestTables, NEW pages \in [1..SearchPages -> GuestPages]
    PROVE  Piece(FindKernelBase(table, pages), {}, {})
<1> DEFINE One(i) == GuestRead(table, <<pages[i]>>, <<>>) \o <<OrElse(<<>>)>>
           seqs == [i \in DOMAIN pages |-> One(i)]
<1>1. SearchPages \in Nat
  BY ServicesAssumption
<1>2. <<>> \in Seq(PaUnmaps)
  BY EmptySeq
<1>3. ASSUME NEW i \in 1..SearchPages PROVE One(i) \in OsScripts({})
  <2> DEFINE r == GuestRead(table, <<pages[i]>>, <<>>)
             o == <<OrElse(<<>>)>>
  <2>1. <<pages[i]>> \in Spans
    BY DEF Spans
  <2>2. Piece(r, {}, {}) /\ Piece(o, {}, {})
    BY <1>2, <2>1, PieceGuestRead, PieceOrElse
  <2> HIDE DEF r, o
  <2>3. Piece(r \o o, {}, {} \union {})
    BY <2>2, PieceJoin
  <2>4. r \o o \in OsScripts({})
    BY <2>3 DEF Piece, OsScripts, OsScript
  <2>5. QED
    BY <2>4 DEF r, o
<1> HIDE DEF One
<1>4. seqs = [i \in 1..SearchPages |-> One(i)]
  OBVIOUS
<1>5. seqs \in Seq(OsScripts({}))
  BY <1>1, <1>3, <1>4
<1> HIDE DEF seqs
<1>6. Piece(FlattenSeq(seqs), {}, {})
  BY <1>5, PieceFlatten
<1>7. QED
  BY <1>6 DEF FindKernelBase, seqs, One

\* VmCallIntrospection.
LEMMA VmCallIntrospectionKeeps ==
    ASSUME ServicesInv, NEW c \in CPUs, VmCallIntrospection(c)
    PROVE  ServicesInv' /\ UNCHANGED fault
<1>1. PICK e \in Layouts : Exit(c, ActiveProcessesList(e))
  BY DEF VmCallIntrospection
<1> DEFINE s == ActiveProcessesList(e)
<1>2. OsScript(s, {})
  BY PieceActiveProcessesList DEF Piece
<1>3. osRuns /\ InGuest(c) /\ UNCHANGED fault
  BY <1>1 DEF VmCallIntrospection, Exit
<1>4. at[c] = "start" /\ fault \in [CPUs -> SUBSET Frames]
  BY <1>3, InGuestIs DEF ServicesInv, ServicesTypeOK
<1> HIDE DEF s
<1>5. Begins(c, s)
  BY <1>1, <1>4 DEF Exit, Begins, s
<1>6. QED
  BY <1>2, <1>3, <1>5, OsScriptKeeps

\* WrMsr.
LEMMA WrMsrKeeps ==
    ASSUME ServicesInv, NEW c \in CPUs, WrMsr(c)
    PROVE  ServicesInv' /\ UNCHANGED fault
<1>1. PICK table \in GuestTables, pages \in [1..SearchPages -> GuestPages] :
        Exit(c, FindKernelBase(table, pages))
  BY DEF WrMsr
<1> DEFINE s == FindKernelBase(table, pages)
<1>2. OsScript(s, {})
  BY PieceFindKernelBase DEF Piece
<1>3. osRuns /\ InGuest(c) /\ UNCHANGED fault
  BY <1>1 DEF WrMsr, Exit
<1>4. at[c] = "start" /\ fault \in [CPUs -> SUBSET Frames]
  BY <1>3, InGuestIs DEF ServicesInv, ServicesTypeOK
<1> HIDE DEF s
<1>5. Begins(c, s)
  BY <1>1, <1>4 DEF Exit, Begins, s
<1>6. QED
  BY <1>2, <1>3, <1>5, OsScriptKeeps

-------------------------------------------------------------------------------
(* A step, and the theorems but for the initial state. *)

\* What MappedPagesAreFound says of a step.
FaultsAreExpected ==
    \A c \in CPUs : fault'[c] # fault[c] =>
        \/ c # Bsp /\ fault'[c] = {Screen} /\ ScreenWindow
        \/ script[c] # <<>> /\ \E p \in Frames : Head(script[c]) = AccessPast(p) /\ fault'[c] = {p}

\* A step of MapMemory, UnmapMemory, UnmapPML4Entry or an access.
LEMMA PagingStepKeeps ==
    ASSUME ServicesInv, NEW c \in CPUs, PagingStep(c), UNCHANGED osRuns
    PROVE  ServicesInv' /\ FaultsAreExpected
<1>1. CASE EnterCall(c)
  BY <1>1, EnterCallKeeps DEF EnterCall, FaultsAreExpected
<1>2. CASE FindTable(c)
  BY <1>2, FindTableKeeps DEF FindTable, FaultsAreExpected
<1>3. CASE LinkTable(c)
  BY <1>3, LinkTableKeeps DEF LinkTable, FaultsAreExpected
<1>4. CASE MapPage(c)
  BY <1>4, MapPageKeeps DEF MapPage, FaultsAreExpected
<1>5. CASE UnmapPage(c)
  BY <1>5, UnmapPageKeeps DEF UnmapPage, FaultsAreExpected
<1>6. CASE LeaveCall(c)
  BY <1>6, LeaveCallKeeps DEF FaultsAreExpected
<1>7. CASE UnmapPML4Entry(c)
  BY <1>7, UnmapPML4EntryKeeps DEF UnmapPML4Entry, FaultsAreExpected
<1>8. CASE AccessPage(c)
  <2>1. /\ ServicesInv'
        /\ fault' # fault =>
              \/ c # Bsp /\ ScreenWindow /\ fault' = [fault EXCEPT ![c] = {Screen}]
              \/ /\ script[c] # <<>>
                 /\ \E q \in Frames : /\ Head(script[c]) = AccessPast(q)
                                      /\ fault' = [fault EXCEPT ![c] = {q}]
    BY <1>8, AccessPageKeeps
  <2>2. fault \in [CPUs -> SUBSET Frames]
    BY DEF ServicesInv, ServicesTypeOK
  <2>3. ASSUME NEW q, fault' = [fault EXCEPT ![c] = {q}], NEW d \in CPUs, fault'[d] # fault[d]
        PROVE  d = c /\ fault'[d] = {q}
    BY <2>2, <2>3
  <2>4. QED
    BY <2>1, <2>3 DEF FaultsAreExpected
<1>9. QED
  BY <1>1, <1>2, <1>3, <1>4, <1>5, <1>6, <1>7, <1>8 DEF PagingStep

\* A step of the boot.
LEMMA BootStepKeeps ==
    ASSUME ServicesInv, NEW c \in CPUs, BootStep(c)
    PROVE  ServicesInv' /\ FaultsAreExpected
<1>1. CASE WakeCpu(c)
  BY <1>1, WakeCpuKeeps DEF WakeCpu, FaultsAreExpected
<1>2. CASE CountCpu(c)
  BY <1>2, CountCpuKeeps DEF CountCpu, FaultsAreExpected
<1>3. CASE AwaitSignal(c)
  BY <1>3, AwaitSignalKeeps DEF AwaitSignal, FaultsAreExpected
<1>4. CASE GoOnOrElse(c)
  BY <1>4, GoOnOrElseKeeps DEF GoOnOrElse, FaultsAreExpected
<1>5. QED
  BY <1>1, <1>2, <1>3, <1>4 DEF BootStep

\* An exit.
LEMMA GuestStepKeeps ==
    ASSUME ServicesInv, NEW c \in CPUs, GuestStep(c)
    PROVE  ServicesInv' /\ FaultsAreExpected
<1>1. ServicesInv' /\ UNCHANGED fault
  BY VmCallInt15hKeeps, VmCallIntrospectionKeeps, WrMsrKeeps DEF GuestStep
<1>2. QED
  BY <1>1 DEF FaultsAreExpected

\* A stuttering step.
LEMMA NothingChangesKeeps ==
    ASSUME ServicesInv, UNCHANGED servicesVars
    PROVE  ServicesInv' /\ FaultsAreExpected
<1>1. UNCHANGED <<pte, tables, identity, ActiveCpus, PagingLock, tlb, script, at, left, fault, osRuns>>
  BY DEF servicesVars, pagingVars
<1>2. ServicesTypeOK' /\ OneCallAtATime' /\ NothingWithoutTable' /\ CachedPages'
  <2>1. ServicesTypeOK'
    BY <1>1 DEF ServicesInv, ServicesTypeOK
  <2>2. OneCallAtATime'
    BY <1>1 DEF ServicesInv, OneCallAtATime, CallOf, NextPage
  <2>3. NothingWithoutTable' /\ CachedPages'
    BY <1>1 DEF ServicesInv, NothingWithoutTable, CachedPages, StaleTranslationsAreHarmless, VmcsPages
  <2>4. QED
    BY <2>1, <2>2, <2>3
<1>3. ScriptsInv'
  BY <1>1, InCallKeeps DEF ServicesInv, StillToDo
<1>4. QED
  BY <1>1, <1>2, <1>3 DEF ServicesInv, FaultsAreExpected

\* The invariant is inductive, and a step faults where it may.
LEMMA StepKeeps ==
    ASSUME ServicesInv, [ServicesNext]_servicesVars
    PROVE  ServicesInv' /\ FaultsAreExpected
<1>1. ASSUME NEW c \in CPUs, PagingStep(c) /\ UNCHANGED <<osRuns, calls>>
      PROVE  ServicesInv' /\ FaultsAreExpected
  BY <1>1, PagingStepKeeps
<1>2. ASSUME NEW c \in CPUs, BootStep(c)
      PROVE  ServicesInv' /\ FaultsAreExpected
  BY <1>2, BootStepKeeps
<1>3. ASSUME NEW c \in CPUs, GuestStep(c)
      PROVE  ServicesInv' /\ FaultsAreExpected
  BY <1>3, GuestStepKeeps
<1>4. CASE OsStarts
  BY <1>4, OsStartsKeeps DEF OsStarts, pagingVars, FaultsAreExpected
<1>5. CASE UNCHANGED servicesVars
  BY <1>5, NothingChangesKeeps
<1>6. QED
  BY <1>1, <1>2, <1>3, <1>4, <1>5 DEF ServicesNext

\* What the invariant says of stale translations and of low memory.
LEMMA ServicesInvIs ==
    ASSUME ServicesInv
    PROVE  StaleTranslationsAreHarmless /\ LowMemoryIsGivenBack
<1>1. StaleTranslationsAreHarmless
  BY DEF ServicesInv, CachedPages
<1>2. ASSUME InGuest(Bsp), ~osRuns PROVE {p \in LowPages : pte[p] # Absent} = {Screen}
  <2>1. Places(Bsp) = {}
    BY <1>2, InGuestIs, PageUse
  <2>2. pte[Screen] # Absent
    BY <2>1 DEF ServicesInv, ScriptsInv, ScreenStays
  <2>3. \A p \in LowPages \ {Screen} : pte[p] = Absent
    BY <1>2, <2>1 DEF ServicesInv, ScriptsInv, LowMemoryGoes, Goes
  <2>4. QED
    BY <2>2, <2>3, PageUse
<1>3. QED
  BY <1>1, <1>2 DEF LowMemoryIsGivenBack

-------------------------------------------------------------------------------
(* The script of the BSP, call by call. *)

\* How many processors are woken, and the parts of BspBoot.
ApCount == Len(Aps)

Opening ==
    <<MapMemoryInvalidate({Lapic}, Uncacheable, TRUE)>> \o SerialInitialize
    \o <<MapMemoryInvalidate(VmcsPages, WriteBack, TRUE)>> \o PatchInt15 \o <<Access(Vmcs(Bsp))>>
Checks == [i \in DOMAIN Aps |-> Access(Vmcs(Aps[i]))]
Wakes == FlattenSeq([i \in DOMAIN Aps |-> WakeUp(Aps[i])])
Closing == <<Access(Screen), [op |-> "unmapPml4"], UnmapVa(LowPages), MapMemory({Screen})>>

\* The application processors by their numbers.
LEMMA ApsAre == ApCount \in Nat /\ DOMAIN Aps = 1..ApCount /\ \A i \in 1..ApCount : Aps[i] \in CPUs \ {Bsp}
  BY ServicesAssumption, LenProperties, ElementOfSeq DEF ApCount

\* The first two pages are low memory, and not the screen.
LEMMA LowPagesAre == Page0 \in LowPages \ {Screen} /\ Page1 \in LowPages \ {Screen} /\ Lapic \in Frames
  BY ServicesAssumption DEF LowPages

\* The elements of two sequences one after the other.
LEMMA Join ==
    ASSUME NEW s \in Seq(Calls), NEW t \in Seq(Calls)
    PROVE  /\ s \o t \in Seq(Calls) /\ Len(s \o t) = Len(s) + Len(t)
           /\ Len(s) \in Nat /\ Len(t) \in Nat
           /\ \A i \in 1..Len(s) : (s \o t)[i] = s[i]
           /\ \A i \in 1..Len(t) : (s \o t)[Len(s) + i] = t[i]
<1>1. /\ s \o t \in Seq(Calls) /\ Len(s \o t) = Len(s) + Len(t)
      /\ Len(s) \in Nat /\ Len(t) \in Nat
      /\ \A i \in 1..(Len(s) + Len(t)) : (s \o t)[i] = IF i <= Len(s) THEN s[i] ELSE t[i - Len(s)]
  BY ConcatProperties, LenProperties
<1>2. ASSUME NEW i \in 1..Len(s) PROVE (s \o t)[i] = s[i]
  <2>1. i \in 1..(Len(s) + Len(t)) /\ i <= Len(s)
    BY <1>1
  <2>2. QED
    BY <1>1, <2>1
<1>3. ASSUME NEW i \in 1..Len(t) PROVE (s \o t)[Len(s) + i] = t[i]
  <2>1. /\ Len(s) + i \in 1..(Len(s) + Len(t)) /\ ~(Len(s) + i <= Len(s))
        /\ (Len(s) + i) - Len(s) = i
    BY <1>1
  <2>2. QED
    BY <1>1, <2>1
<1>4. QED
  BY <1>1, <1>2, <1>3

\* Init64 up to VmxStartVmxOn of the BSP.
LEMMA OpeningIs ==
    /\ Opening \in Seq(Calls) /\ Len(Opening) = 12
    /\ Opening[1] = MapMemoryInvalidate({Lapic}, Uncacheable, TRUE)
    /\ Opening[2] = MapMemory({Page0}) /\ Opening[3] = Access(Page0) /\ Opening[4] = UnmapVa({Page0})
    /\ Opening[5] = MapMemoryInvalidate(VmcsPages, WriteBack, TRUE)
    /\ Opening[6] = MapMemory({Page0}) /\ Opening[7] = Access(Page0)
    /\ Opening[8] = MapMemory({Page0}) /\ Opening[9] = Access(Page0)
    /\ Opening[10] = UnmapVa({Page0, Page1}) /\ Opening[11] = UnmapVa({Page0, Page1})
    /\ Opening[12] = Access(Vmcs(Bsp))
<1> DEFINE l == MapMemoryInvalidate({Lapic}, Uncacheable, TRUE)
           m == MapMemory({Page0})
           a == Access(Page0)
           u == UnmapVa({Page0})
           v == MapMemoryInvalidate(VmcsPages, WriteBack, TRUE)
           w == UnmapVa({Page0, Page1})
           b == Access(Vmcs(Bsp))
           s == Opening
<1>1. /\ l \in Calls /\ m \in Calls /\ a \in Calls /\ u \in Calls /\ v \in Calls /\ w \in Calls
      /\ b \in Calls
  <2>1. /\ Lapic \in Frames /\ Page0 \in Frames /\ Page1 \in Frames /\ VmcsPages \subseteq Frames
        /\ Vmcs(Bsp) \in Frames
    BY LowPagesAre, PageUse DEF VmcsPages
  <2>2. l \in Calls /\ v \in Calls
    BY <2>1 DEF Calls, MapMemoryInvalidate
  <2>3. w \in Calls
    BY <2>1 DEF Calls, UnmapVa
  <2>4. QED
    BY <2>1, <2>2, <2>3, CallsAre
<1>2. s = <<l>> \o (<<m, a>> \o <<u>>) \o <<v>> \o (<<m, a>> \o <<m, a>> \o <<w, w>>) \o <<b>>
  BY DEF Opening, SerialInitialize, PatchInt15, Read
<1> HIDE DEF l, m, a, u, v, w, b, s
<1> DEFINE s1 == <<l>> \o (<<m, a>> \o <<u>>) \o <<v>>
           s2 == <<m, a>> \o <<m, a>> \o <<w, w>>
<1>3. /\ s1 \in Seq(Calls) /\ Len(s1) = 5
      /\ s1[1] = l /\ s1[2] = m /\ s1[3] = a /\ s1[4] = u /\ s1[5] = v
  BY <1>1
<1>4. /\ s2 \in Seq(Calls) /\ Len(s2) = 6
      /\ s2[1] = m /\ s2[2] = a /\ s2[3] = m /\ s2[4] = a /\ s2[5] = w /\ s2[6] = w
  BY <1>1
<1>5. s = (s1 \o s2) \o <<b>>
  BY <1>2
<1> HIDE DEF s1, s2
<1>6. /\ s \in Seq(Calls) /\ Len(s) = 12
      /\ s[1] = l /\ s[2] = m /\ s[3] = a /\ s[4] = u /\ s[5] = v /\ s[6] = m /\ s[7] = a
      /\ s[8] = m /\ s[9] = a /\ s[10] = w /\ s[11] = w /\ s[12] = b
  <2> DEFINE t == s1 \o s2
  <2>0. /\ t \in Seq(Calls) /\ Len(t) = Len(s1) + Len(s2)
        /\ \A i \in 1..Len(s1) : t[i] = s1[i]
        /\ \A i \in 1..Len(s2) : t[Len(s1) + i] = s2[i]
    BY <1>3, <1>4, Join
  <2> HIDE DEF t
  <2>1. /\ t \in Seq(Calls) /\ Len(t) = 11
        /\ \A i \in 1..5 : t[i] = s1[i]
        /\ \A i \in 1..6 : t[5 + i] = s2[i]
    BY <1>3, <1>4, <2>0
  <2>2. /\ t[1] = l /\ t[2] = m /\ t[3] = a /\ t[4] = u /\ t[5] = v
    BY <1>3, <2>1
  <2>3. t[6] = m /\ t[7] = a /\ t[8] = m /\ t[9] = a /\ t[10] = w /\ t[11] = w
    <3>1. /\ t[5 + 1] = s2[1] /\ t[5 + 2] = s2[2] /\ t[5 + 3] = s2[3] /\ t[5 + 4] = s2[4]
          /\ t[5 + 5] = s2[5] /\ t[5 + 6] = s2[6]
      BY <2>1
    <3>2. QED
      BY <1>4, <3>1
  <2>4. <<b>> \in Seq(Calls) /\ Len(<<b>>) = 1 /\ <<b>>[1] = b
    BY <1>1
  <2>5. /\ t \o <<b>> \in Seq(Calls) /\ Len(t \o <<b>>) = 12
        /\ \A i \in 1..11 : (t \o <<b>>)[i] = t[i]
        /\ (t \o <<b>>)[12] = b
    <3> DEFINE z == <<b>>
               r == t \o z
    <3>1. z \in Seq(Calls) /\ Len(z) = 1 /\ z[1] = b
      BY <2>4
    <3> HIDE DEF z
    <3>2. /\ r \in Seq(Calls) /\ Len(r) = Len(t) + Len(z)
          /\ \A i \in 1..Len(t) : r[i] = t[i]
          /\ \A i \in 1..Len(z) : r[Len(t) + i] = z[i]
      BY <2>1, <3>1, Join
    <3> HIDE DEF r
    <3>3. r[Len(t) + 1] = z[1]
      BY <3>1, <3>2
    <3>4. r \in Seq(Calls) /\ Len(r) = 12 /\ (\A i \in 1..11 : r[i] = t[i]) /\ r[12] = b
      BY <2>1, <3>1, <3>2, <3>3
    <3>5. QED
      BY <3>4 DEF r, z
  <2>6. s = t \o <<b>>
    BY <1>5 DEF t
  <2>7. QED
    BY <2>2, <2>3, <2>5, <2>6
<1>7. QED
  BY <1>6 DEF l, m, a, u, v, w, b, s

\* VmxStartVmxOn and VmxSetupVmcsStructures.
LEMMA SetUpVmxIs ==
    ASSUME NEW c \in CPUs
    PROVE  /\ SetUpVmx(c) \in Seq(Calls) /\ Len(SetUpVmx(c)) = 3
           /\ SetUpVmx(c)[1] = Access(Screen) /\ SetUpVmx(c)[2] = Access(Vmcs(c))
           /\ SetUpVmx(c)[3] = UnmapVa({Vmcs(c)})
<1> DEFINE a == Access(Screen)
           b == Access(Vmcs(c))
           u == UnmapVa({Vmcs(c)})
           s == SetUpVmx(c)
<1>1. a \in Calls /\ b \in Calls /\ u \in Calls
  BY PageUse, CallsAre
<1>2. s = <<a, b, u>>
  BY DEF SetUpVmx
<1> HIDE DEF a, b, u, s
<1>3. s \in Seq(Calls) /\ Len(s) = 3 /\ s[1] = a /\ s[2] = b /\ s[3] = u
  BY <1>1, <1>2
<1>4. QED
  BY <1>3 DEF a, b, u, s

\* One processor is woken.
LEMMA WakeUpIs ==
    ASSUME NEW c \in CPUs \ {Bsp}
    PROVE  /\ WakeUp(c) \in Seq(Calls) /\ Len(WakeUp(c)) = 3
           /\ WakeUp(c)[1] = Access(Lapic) /\ WakeUp(c)[2] = [op |-> "wake", cpu |-> c]
           /\ WakeUp(c)[3] = [op |-> "awaitSignal"]
<1> DEFINE a == Access(Lapic)
           b == [op |-> "wake", cpu |-> c]
           u == [op |-> "awaitSignal"]
           s == WakeUp(c)
<1>1. a \in Calls /\ b \in Calls /\ u \in Calls
  BY LowPagesAre, CallsAre DEF Calls
<1>2. s = <<a, b, u>>
  BY DEF WakeUp
<1> HIDE DEF a, b, u, s
<1>3. s \in Seq(Calls) /\ Len(s) = 3 /\ s[1] = a /\ s[2] = b /\ s[3] = u
  BY <1>1, <1>2
<1>4. QED
  BY <1>3 DEF a, b, u, s

\* The last calls of Init64.
LEMMA ClosingIs ==
    /\ Closing \in Seq(Calls) /\ Len(Closing) = 4
    /\ Closing[1] = Access(Screen) /\ Closing[2] = [op |-> "unmapPml4"]
    /\ Closing[3] = UnmapVa(LowPages) /\ Closing[4] = MapMemory({Screen})
<1> DEFINE a == Access(Screen)
           b == [op |-> "unmapPml4"]
           u == UnmapVa(LowPages)
           m == MapMemory({Screen})
           s == Closing
<1>1. a \in Calls /\ b \in Calls /\ u \in Calls /\ m \in Calls
  <2>1. u \in Calls
    BY PageUse DEF Calls, UnmapVa
  <2>2. b \in Calls
    BY DEF Calls
  <2>3. QED
    BY <2>1, <2>2, PageUse, CallsAre
<1>2. s = <<a, b, u, m>>
  BY DEF Closing
<1> HIDE DEF a, b, u, m, s
<1>3. s \in Seq(Calls) /\ Len(s) = 4 /\ s[1] = a /\ s[2] = b /\ s[3] = u /\ s[4] = m
  BY <1>1, <1>2
<1>4. QED
  BY <1>3 DEF a, b, u, m, s

\* The second call of every three wakes the next processor.
WakesAt(m, call) ==
    \/ call = Access(Lapic) \/ call = [op |-> "awaitSignal"]
    \/ \E k \in 1..ApCount : m = 3 * k - 1 /\ call = [op |-> "wake", cpu |-> Aps[k]]

\* The calls that wake the processors, by their places.
LEMMA WakesAre ==
    Wakes \in Seq(Calls) /\ Len(Wakes) = 3 * ApCount /\ \A m \in 1..(3 * ApCount) : WakesAt(m, Wakes[m])
<1> DEFINE seqs == [i \in DOMAIN Aps |-> WakeUp(Aps[i])]
           Wakes3(s, i) == /\ s \in Seq(Calls) /\ Len(s) = 3 * i
                           /\ \A m \in 1..(3 * i) : WakesAt(m, s[m])
<1>1. seqs \in Seq(Seq(Calls)) /\ Len(seqs) = ApCount /\ \A i \in 1..ApCount : seqs[i] = WakeUp(Aps[i])
  <2>1. seqs \in [1..ApCount -> Seq(Calls)]
    BY ApsAre, WakeUpIs
  <2>2. QED
    BY <2>1, ApsAre
<1>2. Wakes = FlattenSeq(seqs)
  BY DEF Wakes
<1>3. CASE ApCount = 0
  <2>1. Wakes = seqs
    BY <1>1, <1>2, <1>3 DEF FlattenSeq
  <2> HIDE DEF seqs
  <2>2. seqs = <<>>
    BY <1>1, <1>3, EmptySeq
  <2>3. <<>> \in Seq(Calls) /\ Len(<<>>) = 0
    BY EmptySeq
  <2>4. QED
    BY <1>3, <2>1, <2>2, <2>3
<1>4. CASE ApCount # 0
  <2> HIDE DEF seqs
  <2>1. PICK f : Joins(f, seqs, ApCount) /\ FlattenSeq(seqs) = f[ApCount]
    BY <1>1, <1>4, ApsAre, Flatten
  <2>2. \A i \in 1..ApCount : f[i] = IF i = 1 THEN WakeUp(Aps[i]) ELSE f[i - 1] \o WakeUp(Aps[i])
    BY <1>1, <2>1 DEF Joins
  <2> HIDE DEF Wakes3
  <2> DEFINE Others == {i \in 1..ApCount : ~Wakes3(f[i], i)}
  <2>3. SUFFICES ASSUME Others # {} PROVE FALSE
    <3>1. ApCount \in 1..ApCount
      BY <1>4, ApsAre
    <3>2. QED
      BY <1>2, <2>1, <3>1 DEF Wakes3
  <2>4. PICK i \in Others : \A y \in Others : i <= y
    <3>1. Others \subseteq Nat
      OBVIOUS
    <3> HIDE DEF Others
    <3>2. QED
      BY <2>3, <3>1, SmallestNumber
  <2>5. i \in 1..ApCount /\ ~Wakes3(f[i], i)
    OBVIOUS
  <2> DEFINE w == WakeUp(Aps[i])
  <2>6. /\ w \in Seq(Calls) /\ Len(w) = 3
        /\ w[1] = Access(Lapic) /\ w[2] = [op |-> "wake", cpu |-> Aps[i]] /\ w[3] = [op |-> "awaitSignal"]
    BY <2>5, ApsAre, WakeUpIs
  <2>7. i = 1 => f[i] = w
    BY <2>2, <2>5
  <2>8. i # 1 => /\ i - 1 \in 1..ApCount /\ Wakes3(f[i - 1], i - 1) /\ f[i] = f[i - 1] \o w
    <3>1. i # 1 => i - 1 \in 1..ApCount /\ i - 1 \notin Others
      BY <2>4, <2>5, ApsAre
    <3>2. QED
      BY <2>2, <2>5, <3>1
  <2> HIDE DEF w, Others
  <2>9. CASE i = 1
    <3>1. \A m \in 1..3 : m = 1 \/ m = 2 \/ m = 3
      OBVIOUS
    <3>2. 1 \in 1..ApCount /\ 2 = 3 * 1 - 1
      BY <2>5, <2>9
    <3>3. \A m \in 1..3 : WakesAt(m, w[m])
      BY <2>6, <2>9, <3>1, <3>2 DEF WakesAt
    <3>4. Wakes3(f[i], i)
      BY <2>6, <2>7, <2>9, <3>3 DEF Wakes3
    <3>5. QED
      BY <2>5, <3>4
  <2>10. CASE i # 1
    <3> DEFINE g == f[i - 1]
    <3>1. g \in Seq(Calls) /\ Len(g) = 3 * (i - 1) /\ \A m \in 1..(3 * (i - 1)) : WakesAt(m, g[m])
      BY <2>8, <2>10 DEF Wakes3
    <3>2. f[i] = g \o w
      BY <2>8, <2>10
    <3> HIDE DEF g
    <3>3. /\ f[i] \in Seq(Calls) /\ Len(f[i]) = 3 * i
          /\ \A m \in 1..(3 * i) : f[i][m] = IF m <= 3 * (i - 1) THEN g[m] ELSE w[m - 3 * (i - 1)]
      <4>1. /\ f[i] \in Seq(Calls) /\ Len(f[i]) = Len(g) + 3
            /\ \A m \in 1..(Len(g) + 3) : f[i][m] = IF m <= Len(g) THEN g[m] ELSE w[m - Len(g)]
        <5>1. w \in Seq(Calls) /\ g \in Seq(Calls) /\ Len(w) = 3
          BY <2>6, <3>1
        <5>2. /\ g \o w \in Seq(Calls) /\ Len(g \o w) = Len(g) + Len(w)
              /\ \A m \in 1..(Len(g) + Len(w)) :
                    (g \o w)[m] = IF m <= Len(g) THEN g[m] ELSE w[m - Len(g)]
          BY <5>1, ConcatProperties
        <5>3. QED
          BY <3>2, <5>1, <5>2
      <4>2. Len(g) + 3 = 3 * i
        BY <2>5, <3>1
      <4>3. QED
        BY <3>1, <4>1, <4>2
    <3>4. ASSUME NEW m \in 1..(3 * i) PROVE WakesAt(m, f[i][m])
      <4>1. CASE m <= 3 * (i - 1)
        <5>1. m \in 1..(3 * (i - 1))
          BY <2>5, <4>1
        <5>2. QED
          BY <3>1, <3>3, <4>1, <5>1
      <4>2. CASE m > 3 * (i - 1)
        <5>1. m = 3 * i - 2 \/ m = 3 * i - 1 \/ m = 3 * i
          BY <2>5, <4>2
        <5>2. f[i][m] = w[m - 3 * (i - 1)]
          BY <2>5, <3>3, <4>2
        <5>3. \/ m - 3 * (i - 1) = 1 
              \/ m = 3 * i - 1 /\ m - 3 * (i - 1) = 2
              \/ m - 3 * (i - 1) = 3
          BY <2>5, <5>1
        <5>4. QED
          BY <2>5, <2>6, <5>2, <5>3 DEF WakesAt
      <4>3. QED
        BY <2>5, <4>1, <4>2
    <3>5. Wakes3(f[i], i)
      BY <3>3, <3>4 DEF Wakes3
    <3>6. QED
      BY <2>5, <3>5
  <2>11. QED
    BY <2>9, <2>10
<1>5. QED
  BY <1>3, <1>4

\* The i-th call of Init64.
BootCall(i, call) ==
    \/ i = 1 /\ call = MapMemoryInvalidate({Lapic}, Uncacheable, TRUE)
    \/ i \in {2, 6, 8} /\ call = MapMemory({Page0})
    \/ i \in {3, 7, 9} /\ call = Access(Page0)
    \/ i = 4 /\ call = UnmapVa({Page0})
    \/ i = 5 /\ call = MapMemoryInvalidate(VmcsPages, WriteBack, TRUE)
    \/ i \in {10, 11} /\ call = UnmapVa({Page0, Page1})
    \/ i \in 12..(12 + ApCount) /\ \E d \in CPUs : call = Access(Vmcs(d))
    \/ i = 13 + ApCount /\ call = [op |-> "count"]
    \/ i \in {14 + ApCount, 17 + 4 * ApCount} /\ call = Access(Screen)
    \/ i = 15 + ApCount /\ call = Access(Vmcs(Bsp))
    \/ i = 16 + ApCount /\ call = UnmapVa({Vmcs(Bsp)})
    \/ i \in (17 + ApCount)..(16 + 4 * ApCount) /\ WakesAt(i - (16 + ApCount), call)
    \/ i = 18 + 4 * ApCount /\ call = [op |-> "unmapPml4"]
    \/ i = 19 + 4 * ApCount /\ call = UnmapVa(LowPages)
    \/ i = 20 + 4 * ApCount /\ call = MapMemory({Screen})

\* A script whose calls are those of Init64, from the first one.
BootCalls(s) == s \in Seq(Calls) /\ \A i \in 1..Len(s) : BootCall(i, s[i])

\* The calls go on where those before them end.
LEMMA BootJoin ==
    ASSUME NEW s, NEW t \in Seq(Calls), BootCalls(s),
           \A i \in 1..Len(t) : BootCall(Len(s) + i, t[i])
    PROVE  BootCalls(s \o t) /\ Len(s \o t) = Len(s) + Len(t)
<1>1. s \in Seq(Calls) /\ \A i \in 1..Len(s) : BootCall(i, s[i])
  BY DEF BootCalls
<1> DEFINE u == s \o t
<1>2. /\ u \in Seq(Calls) /\ Len(u) = Len(s) + Len(t)
      /\ Len(s) \in Nat /\ Len(t) \in Nat
      /\ \A i \in 1..Len(s) : u[i] = s[i]
      /\ \A i \in 1..Len(t) : u[Len(s) + i] = t[i]
  BY <1>1, Join
<1> HIDE DEF u
<1>3. ASSUME NEW i \in 1..Len(u) PROVE BootCall(i, u[i])
  <2>1. CASE i <= Len(s)
    <3>1. i \in 1..Len(s)
      BY <1>2, <2>1
    <3>2. QED
      BY <1>1, <1>2, <3>1
  <2>2. CASE i > Len(s)
    <3>1. i - Len(s) \in 1..Len(t) /\ Len(s) + (i - Len(s)) = i
      BY <1>2, <2>2
    <3>2. QED
      BY <1>2, <3>1
  <2>3. QED
    BY <1>2, <2>1, <2>2
<1>4. QED
  BY <1>2, <1>3 DEF BootCalls, u

\* Init64 is what BootCall says.
LEMMA BspBootIs == BootCalls(BspBoot) /\ Len(BspBoot) = 20 + 4 * ApCount
<1> DEFINE K == <<[op |-> "count"]>>
           u1 == Opening \o Checks
           u2 == u1 \o K
           u3 == u2 \o SetUpVmx(Bsp)
           u4 == u3 \o Wakes
           u5 == u4 \o Closing
<1>1. BspBoot = u5
  BY DEF BspBoot, Opening, Checks, Wakes, Closing
<1>2. Bsp \in CPUs /\ ApCount \in Nat
  BY PageUse, ApsAre
<1>3. BootCalls(Opening) /\ Len(Opening) = 12
  <2>1. \A i \in 1..12 : i = 1 \/ i \in {2, 6, 8} \/ i \in {3, 7, 9} \/ i = 4 \/ i = 5
                         \/ i \in {10, 11} \/ i = 12
    OBVIOUS
  <2>2. 12 \in 12..(12 + ApCount)
    BY <1>2
  <2>3. ASSUME NEW i \in 1..12 PROVE BootCall(i, Opening[i])
    BY <1>2, <2>1, <2>2, OpeningIs DEF BootCall
  <2>4. QED
    BY <2>3, OpeningIs DEF BootCalls
<1> HIDE DEF u1
<1>4. BootCalls(u1) /\ Len(u1) = 12 + ApCount
  <2>1. Checks \in Seq(Calls) /\ Len(Checks) = ApCount /\ \A i \in 1..ApCount : Checks[i] = Access(Vmcs(Aps[i]))
    <3>1. Checks \in [1..ApCount -> Calls] /\ \A i \in 1..ApCount : Checks[i] = Access(Vmcs(Aps[i]))
      BY ApsAre, PageUse, CallsAre DEF Checks
    <3>2. QED
      BY <1>2, <3>1
  <2>2. ASSUME NEW i \in 1..ApCount PROVE BootCall(12 + i, Checks[i])
    <3>1. 12 + i \in 12..(12 + ApCount) /\ Checks[i] = Access(Vmcs(Aps[i])) /\ Aps[i] \in CPUs
      BY <1>2, <2>1, ApsAre
    <3>2. QED
      BY <3>1 DEF BootCall
  <2>3. QED
    BY <1>3, <2>1, <2>2, BootJoin DEF u1
<1> HIDE DEF u2, K
<1>5. BootCalls(u2) /\ Len(u2) = 13 + ApCount
  <2>1. K \in Seq(Calls) /\ Len(K) = 1 /\ K[1] = [op |-> "count"]
    <3>1. [op |-> "count"] \in Calls
      BY DEF Calls
    <3>2. QED
      BY <3>1 DEF K
  <2>2. ASSUME NEW i \in 1..Len(K) PROVE BootCall(Len(u1) + i, K[i])
    <3>1. i = 1 /\ Len(u1) + i = 13 + ApCount
      BY <1>2, <1>4, <2>1
    <3>2. QED
      BY <2>1, <3>1 DEF BootCall
  <2>3. BootCalls(u2) /\ Len(u2) = Len(u1) + Len(K)
    BY <1>4, <2>1, <2>2, BootJoin DEF u2
  <2>4. QED
    BY <1>2, <1>4, <2>1, <2>3
<1> HIDE DEF u3
<1>6. BootCalls(u3) /\ Len(u3) = 16 + ApCount
  <2> DEFINE t == SetUpVmx(Bsp)
  <2>1. t \in Seq(Calls) /\ Len(t) = 3 /\ t[1] = Access(Screen) /\ t[2] = Access(Vmcs(Bsp)) /\ t[3] = UnmapVa({Vmcs(Bsp)})
    BY <1>2, SetUpVmxIs
  <2> HIDE DEF t
  <2>2. ASSUME NEW i \in 1..Len(t) PROVE BootCall(Len(u2) + i, t[i])
    <3>1. \/ i = 1 /\ Len(u2) + i = 14 + ApCount
          \/ i = 2 /\ Len(u2) + i = 15 + ApCount
          \/ i = 3 /\ Len(u2) + i = 16 + ApCount
      BY <1>2, <1>5, <2>1
    <3>2. QED
      BY <2>1, <3>1 DEF BootCall
  <2>3. BootCalls(u3) /\ Len(u3) = Len(u2) + Len(t)
    BY <1>5, <2>1, <2>2, BootJoin DEF u3, t
  <2>4. QED
    BY <1>2, <1>5, <2>1, <2>3
<1> HIDE DEF u4
<1>7. BootCalls(u4) /\ Len(u4) = 16 + 4 * ApCount
  <2>1. Wakes \in Seq(Calls) /\ Len(Wakes) = 3 * ApCount /\ \A m \in 1..(3 * ApCount) : WakesAt(m, Wakes[m])
    BY WakesAre
  <2>2. ASSUME NEW i \in 1..Len(Wakes) PROVE BootCall(Len(u3) + i, Wakes[i])
    <3>1. /\ Len(u3) + i \in (17 + ApCount)..(16 + 4 * ApCount)
          /\ (Len(u3) + i) - (16 + ApCount) = i
      BY <1>2, <1>6, <2>1
    <3>2. WakesAt(i, Wakes[i])
      BY <2>1
    <3>3. QED
      BY <3>1, <3>2 DEF BootCall
  <2>3. BootCalls(u4) /\ Len(u4) = Len(u3) + Len(Wakes)
    BY <1>6, <2>1, <2>2, BootJoin DEF u4
  <2>4. QED
    BY <1>2, <1>6, <2>1, <2>3
<1> HIDE DEF u5
<1>8. BootCalls(u5) /\ Len(u5) = 20 + 4 * ApCount
  <2>1. ASSUME NEW i \in 1..Len(Closing) PROVE BootCall(Len(u4) + i, Closing[i])
    <3>1. \/ i = 1 /\ Len(u4) + i = 17 + 4 * ApCount
          \/ i = 2 /\ Len(u4) + i = 18 + 4 * ApCount
          \/ i = 3 /\ Len(u4) + i = 19 + 4 * ApCount
          \/ i = 4 /\ Len(u4) + i = 20 + 4 * ApCount
      BY <1>2, <1>7, ClosingIs
    <3>2. QED
      BY <3>1, ClosingIs DEF BootCall
  <2>2. BootCalls(u5) /\ Len(u5) = Len(u4) + Len(Closing)
    BY <1>7, <2>1, BootJoin, ClosingIs DEF u5
  <2>3. QED
    BY <1>2, <1>7, <2>2, ClosingIs
<1>9. QED
  BY <1>1, <1>8

\* What these calls carry.
LEMMA WakesFields ==
    ASSUME NEW m, NEW call, WakesAt(m, call)
    PROVE  \/ call.op = "access" /\ call.page = Lapic
           \/ call.op = "awaitSignal"
           \/ call.op = "wake" /\ \E k \in 1..ApCount : m = 3 * k - 1 /\ call.cpu = Aps[k]
  BY DEF WakesAt, Access

\* What the calls of Init64 carry.
LEMMA BootFields ==
    ASSUME NEW i, NEW call, BootCall(i, call)
    PROVE  \/ i = 1 /\ call.op = "map" /\ call.pages = {Lapic}
           \/ i \in {2, 6, 8} /\ call.op = "map" /\ call.pages = {Page0}
           \/ i \in {3, 7, 9} /\ call.op = "access" /\ call.page = Page0
           \/ i = 4 /\ call.op = "unmap" /\ ~call.physical /\ call.pages = {Page0}
           \/ i = 5 /\ call.op = "map" /\ call.pages = VmcsPages
           \/ i \in {10, 11} /\ call.op = "unmap" /\ ~call.physical /\ call.pages = {Page0, Page1}
           \/ i \in 12..(12 + ApCount) /\ call.op = "access" /\ \E d \in CPUs : call.page = Vmcs(d)
           \/ i = 13 + ApCount /\ call.op = "count"
           \/ i \in {14 + ApCount, 17 + 4 * ApCount} /\ call.op = "access" /\ call.page = Screen
           \/ i = 15 + ApCount /\ call.op = "access" /\ call.page = Vmcs(Bsp)
           \/ i = 16 + ApCount /\ call.op = "unmap" /\ ~call.physical /\ call.pages = {Vmcs(Bsp)}
           \/ i \in (17 + ApCount)..(16 + 4 * ApCount) /\ WakesAt(i - (16 + ApCount), call)
           \/ i = 18 + 4 * ApCount /\ call.op = "unmapPml4"
           \/ i = 19 + 4 * ApCount /\ call.op = "unmap" /\ ~call.physical /\ call.pages = LowPages
           \/ i = 20 + 4 * ApCount /\ call.op = "map" /\ call.pages = {Screen}
  BY DEF BootCall, MapMemoryInvalidate, MapMemory, UnmapVa, Access

\* What a call at its place in Init64 unmaps, maps and needs.
BootUnmaps(i, call) ==
    /\ call.op = "unmap" => ~call.physical
    /\ \A p : Unmaps(call, p) => \/ i \in {4, 10, 11} /\ p \in {Page0, Page1}
                                 \/ i = 16 + ApCount /\ p = Vmcs(Bsp)
                                 \/ i = 19 + 4 * ApCount /\ p \in LowPages
BootMaps(i, call) ==
    \A p : Maps(call, p) => \/ i < 10 /\ p # Screen
                            \/ i = 20 + 4 * ApCount /\ p = Screen
BootNeeds(i, call) ==
    \A p : Needs(call, p) =>
        \/ i \in {3, 7, 9} /\ p = Page0
        \/ i > 11 /\ i < 19 + 4 * ApCount /\ p \in {Screen, Lapic}
        \/ i > 11 /\ i < 16 + ApCount /\ p \in VmcsPages
        \/ i > 16 + ApCount /\ i < 19 + 4 * ApCount /\ \E d \in CPUs \ {Bsp} : p = Vmcs(d)
BootOrder(i, call) ==
    /\ call.op = "count" => i = 13 + ApCount
    /\ call.op = "wake" =>
          /\ i > 16 + ApCount
          /\ \E k \in 1..ApCount : i - (16 + ApCount) = 3 * k - 1 /\ call.cpu = Aps[k]
    /\ ChecksAnother(call) => i < 13 + ApCount
    /\ call.op \notin Risks

\* What every call of Init64 unmaps, maps and needs, and in which order.
LEMMA BootCallIs ==
    ASSUME NEW i \in 1..(20 + 4 * ApCount), NEW call, BootCall(i, call)
    PROVE  BootUnmaps(i, call) /\ BootMaps(i, call) /\ BootNeeds(i, call) /\ BootOrder(i, call)
<1>1. ApCount \in Nat /\ Bsp \in CPUs
  BY ApsAre, PageUse
<1>2. /\ Page0 # Screen /\ Page1 # Screen /\ Lapic # Screen /\ Screen \notin VmcsPages
      /\ Screen \in LowPages
      /\ \A d \in CPUs : Vmcs(d) \in VmcsPages /\ Vmcs(d) # Screen
      /\ Page0 \notin VmcsPages /\ Lapic \notin VmcsPages
      /\ \A d \in CPUs : Vmcs(d) = Vmcs(Bsp) => d = Bsp
  <2>1. Lapic \notin LowPages /\ Lapic \notin VmcsPages /\ LowPages \intersect VmcsPages = {}
    BY ServicesAssumption
  <2>2. QED
    BY <2>1, PageUse, LowPagesAre
<1>3. CASE call.op = "map"
  <2>1. \/ i = 1 /\ call.pages = {Lapic}
        \/ i \in {2, 6, 8} /\ call.pages = {Page0}
        \/ i = 5 /\ call.pages = VmcsPages
        \/ i = 20 + 4 * ApCount /\ call.pages = {Screen}
    BY <1>3, BootFields, WakesFields
  <2>2. BootMaps(i, call)
    BY <1>1, <1>2, <2>1 DEF BootMaps, Maps
  <2>3. QED
    BY <1>3, <2>2 DEF BootUnmaps, BootNeeds, BootOrder, Unmaps, Needs, ChecksAnother, Risks
<1>4. CASE call.op = "unmap"
  <2>1. /\ ~call.physical
        /\ \/ i = 4 /\ call.pages = {Page0}
           \/ i \in {10, 11} /\ call.pages = {Page0, Page1}
           \/ i = 16 + ApCount /\ call.pages = {Vmcs(Bsp)}
           \/ i = 19 + 4 * ApCount /\ call.pages = LowPages
    BY <1>4, BootFields, WakesFields
  <2>2. BootUnmaps(i, call)
    BY <2>1 DEF BootUnmaps, Unmaps
  <2>3. QED
    BY <1>4, <2>2 DEF BootMaps, BootNeeds, BootOrder, Maps, Needs, ChecksAnother, Risks
<1>5. CASE call.op = "access"
  <2>1. \/ i \in {3, 7, 9} /\ call.page = Page0
        \/ i \in 12..(12 + ApCount) /\ call.page \in VmcsPages
        \/ i \in {14 + ApCount, 17 + 4 * ApCount} /\ call.page = Screen
        \/ i = 15 + ApCount /\ call.page = Vmcs(Bsp)
        \/ i \in (17 + ApCount)..(16 + 4 * ApCount) /\ call.page = Lapic
    BY <1>2, <1>5, BootFields, WakesFields
  <2>2. BootNeeds(i, call)
    BY <1>1, <1>2, <1>5, <2>1 DEF BootNeeds, Needs
  <2>3. BootOrder(i, call)
    BY <1>1, <1>2, <1>5, <2>1 DEF BootOrder, ChecksAnother, Risks
  <2>4. QED
    BY <1>5, <2>2, <2>3 DEF BootUnmaps, BootMaps, Unmaps, Maps
<1>6. CASE call.op = "wake"
  <2>1. i \in (17 + ApCount)..(16 + 4 * ApCount) /\ WakesAt(i - (16 + ApCount), call)
    BY <1>6, BootFields
  <2>2. PICK k \in 1..ApCount : i - (16 + ApCount) = 3 * k - 1 /\ call.cpu = Aps[k]
    BY <1>6, <2>1, WakesFields
  <2>3. call.cpu = Aps[k] /\ Aps[k] \in CPUs \ {Bsp}
    BY <2>2, ApsAre
  <2>4. BootOrder(i, call)
    BY <1>1, <1>6, <2>1, <2>2, <2>3 DEF BootOrder, ChecksAnother, Risks
  <2>5. BootNeeds(i, call)
    BY <1>1, <1>6, <2>1, <2>3 DEF BootNeeds, Needs
  <2>6. QED
    BY <1>6, <2>4, <2>5 DEF BootUnmaps, BootMaps, Unmaps, Maps
<1>7. CASE call.op = "count"
  <2>1. i = 13 + ApCount
    BY <1>7, BootFields, WakesFields
  <2>2. QED
    BY <1>7, <2>1 DEF BootUnmaps, BootMaps, BootNeeds, BootOrder, Unmaps, Maps, Needs, ChecksAnother, Risks
<1>8. CASE call.op \notin {"map", "unmap", "access", "wake", "count"}
  <2>1. call.op \in {"unmapPml4", "awaitSignal"}
    BY <1>8, BootFields, WakesFields
  <2>2. QED
    BY <2>1 DEF BootUnmaps, BootMaps, BootNeeds, BootOrder, Unmaps, Maps, Needs, ChecksAnother, Risks
<1>9. QED
  BY <1>3, <1>4, <1>5, <1>6, <1>7, <1>8

\* The invariant holds when Init64 begins: every page it reads is mapped before, low
\* memory is unmapped at the end and the screen mapped again.
LEMMA InitIs ==
    ASSUME ServicesInit
    PROVE  ServicesInv
<1> DEFINE b == BspBoot
           last == 20 + 4 * ApCount
<1>1. /\ pte = [p \in Frames |-> IF p \in BootMapped THEN WriteBack ELSE Absent]
      /\ tables = BootTables
      /\ identity = TRUE /\ ActiveCpus = 0 /\ PagingLock = NoCpu
      /\ tlb = [c \in CPUs |-> [p \in Frames |-> Absent]]
      /\ at = [c \in CPUs |-> "start"] /\ left = [c \in CPUs |-> {}]
      /\ fault = [c \in CPUs |-> {}]
      /\ script = [c \in CPUs |-> IF c = Bsp THEN BspBoot ELSE <<>>]
      /\ osRuns = FALSE
  BY DEF ServicesInit, PagingInit
<1>2. /\ ApCount \in Nat /\ Bsp \in CPUs /\ script[Bsp] = b
      /\ \A c \in CPUs \ {Bsp} : script[c] = <<>> /\ Places(c) = {}
  <2>1. ApCount \in Nat /\ Bsp \in CPUs /\ script[Bsp] = b /\ \A c \in CPUs \ {Bsp} : script[c] = <<>>
    BY <1>1, ApsAre, PageUse
  <2>2. Len(<<>>) = 0 /\ 1..0 = {}
    BY EmptySeq
  <2>3. QED
    BY <2>1, <2>2 DEF Places
<1>3. b \in Seq(Calls) /\ Len(b) = last /\ \A i \in 1..last : BootCall(i, b[i])
  BY BspBootIs DEF BootCalls
<1>4. /\ \A i \in 1..last : BootUnmaps(i, b[i])
      /\ \A i \in 1..last : BootMaps(i, b[i])
      /\ \A i \in 1..last : BootNeeds(i, b[i])
      /\ \A i \in 1..last : BootOrder(i, b[i])
  BY <1>3, BootCallIs
<1>5. /\ Maps(b[1], Lapic) /\ Maps(b[2], Page0) /\ Maps(b[6], Page0) /\ Maps(b[8], Page0)
      /\ \A p \in VmcsPages : Maps(b[5], p)
  <2>1. {1, 2, 5, 6, 8} \subseteq 1..last
    BY <1>2
  <2>2. \A i \in {1, 2, 5, 6, 8} : BootCall(i, b[i])
    BY <1>3, <2>1
  <2> HIDE DEF b, last
  <2>3. b[1].op = "map" /\ b[1].pages = {Lapic}
    BY <1>2, <2>2, BootFields
  <2>4. b[2].op = "map" /\ b[2].pages = {Page0}
    BY <1>2, <2>2, BootFields
  <2>5. b[6].op = "map" /\ b[6].pages = {Page0}
    BY <1>2, <2>2, BootFields
  <2>6. b[8].op = "map" /\ b[8].pages = {Page0}
    BY <1>2, <2>2, BootFields
  <2>7. b[5].op = "map" /\ b[5].pages = VmcsPages
    BY <1>2, <2>2, BootFields
  <2>8. QED
    BY <2>3, <2>4, <2>5, <2>6, <2>7 DEF Maps
<1>6. /\ b[13 + ApCount].op = "count"
      /\ b[18 + 4 * ApCount].op = "unmapPml4"
      /\ \A p \in LowPages : Unmaps(b[19 + 4 * ApCount], p)
      /\ b[last] = MapMemory({Screen})
  <2>1. /\ 13 + ApCount \in 1..last /\ 18 + 4 * ApCount \in 1..last
        /\ 19 + 4 * ApCount \in 1..last /\ last \in 1..last
    BY <1>2
  <2>2. /\ BootCall(13 + ApCount, b[13 + ApCount]) /\ BootCall(18 + 4 * ApCount, b[18 + 4 * ApCount])
        /\ BootCall(19 + 4 * ApCount, b[19 + 4 * ApCount]) /\ BootCall(last, b[last])
    BY <1>3, <2>1
  <2> HIDE DEF b
  <2>3. b[13 + ApCount].op = "count"
    BY <1>2, <2>2, BootFields
  <2>4. b[18 + 4 * ApCount].op = "unmapPml4"
    BY <1>2, <2>2, BootFields
  <2>5. LET call == b[19 + 4 * ApCount]
        IN  call.op = "unmap" /\ ~call.physical /\ call.pages = LowPages
    BY <1>2, <2>2, BootFields
  <2>6. b[last] = MapMemory({Screen})
    <3>1. /\ last \notin {1, 2, 3, 4, 5, 6, 7, 8, 9, 10, 11} /\ last \notin 12..(12 + ApCount)
          /\ last \notin (17 + ApCount)..(16 + 4 * ApCount)
          /\ last # 13 + ApCount /\ last # 14 + ApCount /\ last # 15 + ApCount /\ last # 16 + ApCount
          /\ last # 17 + 4 * ApCount /\ last # 18 + 4 * ApCount /\ last # 19 + 4 * ApCount
      <4>1. ASSUME NEW n \in Nat, NEW l, l = 20 + 4 * n
            PROVE  /\ l > 11 /\ l > 12 + n /\ l > 16 + 4 * n /\ l \in Nat
                   /\ l # 13 + n /\ l # 14 + n /\ l # 15 + n /\ l # 16 + n
                   /\ l # 17 + 4 * n /\ l # 18 + 4 * n /\ l # 19 + 4 * n
        BY <4>1
      <4>2. ASSUME NEW l \in Nat, NEW a \in Nat, NEW z \in Nat, l > z
            PROVE  l \notin a..z
        BY <4>2
      <4>3. ApCount \in Nat /\ last = 20 + 4 * ApCount
        BY <1>2
      <4>4. /\ last > 11 /\ last > 12 + ApCount /\ last > 16 + 4 * ApCount /\ last \in Nat
            /\ last # 13 + ApCount /\ last # 14 + ApCount /\ last # 15 + ApCount /\ last # 16 + ApCount
            /\ last # 17 + 4 * ApCount /\ last # 18 + 4 * ApCount /\ last # 19 + 4 * ApCount
        BY <4>1, <4>3
      <4>5. last \notin 12..(12 + ApCount) /\ last \notin (17 + ApCount)..(16 + 4 * ApCount)
        BY <4>2, <4>3, <4>4
      <4>6. last \notin {1, 2, 3, 4, 5, 6, 7, 8, 9, 10, 11}
        BY <4>4
      <4>7. QED
        BY <4>4, <4>5, <4>6
    <3> DEFINE call == b[last]
    <3>2. BootCall(last, call)
      BY <2>2
    <3> HIDE DEF last, call
    <3>3. call = MapMemory({Screen})
      BY <3>1, <3>2 DEF BootCall
    <3>4. QED
      BY <3>3 DEF call
  <2>7. QED
    BY <2>3, <2>4, <2>5, <2>6 DEF Unmaps
<1> HIDE DEF b
<1>7. Places(Bsp) = 1..last
  BY <1>2, <1>3 DEF Places
<1>8. /\ pte[Screen] # Absent /\ pte \in [Frames -> Types]
      /\ \A p \in Frames : Region(p) \notin tables => pte[p] = Absent
      /\ \A c \in CPUs, p \in Frames : tlb[c][p] = Absent
  <2>1. Screen \in BootMapped /\ \A p \in BootMapped : Region(p) \in BootTables
    BY ServicesAssumption
  <2>2. WriteBack # Absent
    BY DEF WriteBack, Absent
  <2>3. QED
    BY <1>1, <2>1, <2>2, PageUse DEF Types
<1>9. ServicesTypeOK
  <2>1. script \in [CPUs -> Seq(Calls)]
    BY <1>1, <1>2, <1>3, EmptySeq
  <2>2. tlb \in [CPUs -> [Frames -> Types]]
    BY <1>1 DEF Types
  <2>3. QED
    BY <1>1, <1>2, <1>8, <2>1, <2>2 DEF ServicesTypeOK
<1>10. OneCallAtATime /\ NothingWithoutTable /\ CachedPages
  <2>1. OneCallAtATime
    BY <1>1 DEF OneCallAtATime, CallOf
  <2>2. NothingWithoutTable
    BY <1>8 DEF NothingWithoutTable
  <2>3. CachedPages
    BY <1>8 DEF CachedPages, StaleTranslationsAreHarmless
  <2>4. QED
    BY <2>1, <2>2, <2>3
<1>11. CountedFirst
  <2>1. 13 + ApCount \in 1..last
    BY <1>2
  <2>2. ASSUME NEW i \in 1..((13 + ApCount) - 1) PROVE b[i].op \notin {"wake", "count"}
    <3>1. i \in 1..last /\ i # 13 + ApCount /\ ~(i > 16 + ApCount)
      BY <1>2
    <3>2. BootOrder(i, b[i])
      BY <1>4, <3>1
    <3>3. QED
      BY <3>1, <3>2 DEF BootOrder
  <2>3. ASSUME NEW i \in 1..last, i > 13 + ApCount PROVE ~ChecksAnother(b[i])
    <3>1. ~(i < 13 + ApCount)
      BY <1>2, <2>3
    <3>2. QED
      BY <1>4, <3>1 DEF BootOrder
  <2>4. QED
    BY <1>1, <1>2, <1>6, <1>7, <2>1, <2>2, <2>3 DEF CountedFirst
<1>12. WokenOnce
  <2>1. SUFFICES ASSUME NEW i \in 1..last, b[i].op = "wake"
                 PROVE  /\ script[b[i].cpu] = <<>>
                        /\ \A j \in 1..last : j # i /\ b[j].op = "wake" => b[j].cpu # b[i].cpu
    BY <1>2, <1>7 DEF WokenOnce
  <2>2. PICK k \in 1..ApCount : i - (16 + ApCount) = 3 * k - 1 /\ b[i].cpu = Aps[k]
    BY <1>4, <2>1 DEF BootOrder
  <2>3. script[b[i].cpu] = <<>>
    BY <1>2, <2>2, ApsAre
  <2>4. ASSUME NEW j \in 1..last, j # i, b[j].op = "wake" PROVE b[j].cpu # b[i].cpu
    <3>1. PICK l \in 1..ApCount : j - (16 + ApCount) = 3 * l - 1 /\ b[j].cpu = Aps[l]
      BY <1>4, <2>4 DEF BootOrder
    <3>2. k # l
      BY <1>2, <2>2, <2>4, <3>1
    <3>3. \A x, y \in DOMAIN Aps : Aps[x] = Aps[y] => x = y
      BY ServicesAssumption DEF IsInjective
    <3>4. QED
      BY <2>2, <3>1, <3>2, <3>3, ApsAre
  <2>5. QED
    BY <2>3, <2>4
<1>13. OsRunsLast
  BY <1>1 DEF OsRunsLast
<1>14. BspPages
  <2>1. \A i \in 1..last : /\ b[i].op = "unmap" => ~b[i].physical
                           /\ b[i].op \notin Risks
                           /\ \A p \in Frames : Unmaps(b[i], p) => p \in LowPages \/ p = Vmcs(Bsp)
    BY <1>4, LowPagesAre DEF BootUnmaps, BootOrder
  <2>2. QED
    BY <1>1, <1>2, <1>7, <2>1 DEF BspPages
<1>15. ApPages
  BY <1>2 DEF ApPages, ApPagesOf
<1>16. AllCovered
  <2>1. CoveredOf(Bsp)
    <3>1. SUFFICES ASSUME NEW i \in 1..last, NEW p \in Frames, Needs(b[i], p)
                   PROVE  \/ pte[p] # Absent /\ \A j \in 1..(i - 1) : ~Unmaps(b[j], p)
                          \/ \E k \in 1..(i - 1) :
                                /\ Maps(b[k], p)
                                /\ \A j \in (k + 1)..(i - 1) : ~Unmaps(b[j], p)
      <4>1. \A k, p : StillToDo(Bsp, k, p)
        BY <1>1, <1>2 DEF StillToDo
      <4>2. QED
        BY <1>2, <1>7, <4>1 DEF CoveredOf, Covered
    <3>2. /\ \/ i \in {3, 7, 9} /\ p = Page0
             \/ i > 11 /\ i < 19 + 4 * ApCount /\ p \in {Screen, Lapic}
             \/ i > 11 /\ i < 16 + ApCount /\ p \in VmcsPages
             \/ i > 16 + ApCount /\ i < 19 + 4 * ApCount /\ \E d \in CPUs \ {Bsp} : p = Vmcs(d)
      BY <1>4, <3>1 DEF BootNeeds
    <3>3. \A j \in 1..(i - 1) : Unmaps(b[j], p) =>
            \/ j \in {4, 10, 11} /\ p \in {Page0, Page1}
            \/ j = 16 + ApCount /\ p = Vmcs(Bsp)
            \/ j = 19 + 4 * ApCount /\ p \in LowPages
      <4>1. 1..(i - 1) \subseteq 1..last
        BY <1>2
      <4>2. QED
        BY <1>4, <4>1 DEF BootUnmaps
    <3>4. CASE i \in {3, 7, 9} /\ p = Page0
      <4>1. p # Vmcs(Bsp)
        BY <3>4, PageUse, LowPagesAre
      <4>2. PICK k \in {2, 6, 8} : k = i - 1
        BY <3>4
      <4>3. /\ k \in 1..(i - 1) /\ Maps(b[k], p)
            /\ (k + 1)..(i - 1) = {}
        BY <1>5, <3>4, <4>2
      <4>4. QED
        BY <4>3
    <3>5. CASE i > 11 /\ i < 19 + 4 * ApCount /\ p = Screen
      <4>1. p \notin {Page0, Page1} /\ p # Vmcs(Bsp)
        BY <1>2, <3>5, PageUse, LowPagesAre
      <4>2. \A j \in 1..(i - 1) : j # 19 + 4 * ApCount
        BY <1>2, <3>5
      <4>3. QED
        BY <1>8, <3>3, <3>5, <4>1, <4>2
    <3>6. CASE i > 11 /\ i < 19 + 4 * ApCount /\ p = Lapic
      <4>1. Lapic \notin LowPages /\ Lapic \notin VmcsPages
        BY ServicesAssumption
      <4>2. p \notin {Page0, Page1} /\ p # Vmcs(Bsp) /\ p \notin LowPages
        BY <1>2, <3>6, <4>1, PageUse, LowPagesAre
      <4>3. \A j \in 1..(i - 1) : ~Unmaps(b[j], p)
        BY <3>3, <4>2
      <4>4. 1 \in 1..(i - 1) /\ (1 + 1)..(i - 1) \subseteq 1..(i - 1)
        BY <3>6
      <4>5. QED
        BY <1>5, <3>6, <4>3, <4>4
    <3>7. ASSUME p \in VmcsPages, i > 11,
                 \/ i < 16 + ApCount 
                 \/ p # Vmcs(Bsp)
          PROVE  \E k \in 1..(i - 1) : /\ Maps(b[k], p)
                                       /\ \A j \in (k + 1)..(i - 1) : ~Unmaps(b[j], p)
      <4>1. p \notin LowPages /\ p \notin {Page0, Page1}
        BY <3>7, LowPagesAre, ServicesAssumption
      <4>2. \A j \in 1..(i - 1) : j = 16 + ApCount => p # Vmcs(Bsp)
        BY <1>2, <3>7
      <4>3. \A j \in 1..(i - 1) : ~Unmaps(b[j], p)
        BY <3>3, <4>1, <4>2
      <4>4. 5 \in 1..(i - 1) /\ (5 + 1)..(i - 1) \subseteq 1..(i - 1)
        BY <3>7
      <4>5. QED
        BY <1>5, <3>7, <4>3, <4>4
    <3>8. ASSUME NEW d \in CPUs \ {Bsp}, p = Vmcs(d)
          PROVE  p \in VmcsPages /\ p # Vmcs(Bsp)
      BY <1>2, <3>8, PageUse
    <3>9. i > 16 + ApCount => i > 11
      BY <1>2
    <3>10. QED
      BY <3>2, <3>4, <3>5, <3>6, <3>7, <3>8, <3>9
  <2>2. ASSUME NEW c \in CPUs, c # Bsp PROVE CoveredOf(c)
    BY <1>2, <2>2 DEF CoveredOf
  <2>3. QED
    BY <2>1, <2>2 DEF AllCovered
<1>17. LowMemoryGoes
  <2>1. SUFFICES ASSUME NEW p \in LowPages \ {Screen} PROVE Goes(p)
    BY DEF LowMemoryGoes
  <2>2. 19 + 4 * ApCount \in 1..last /\ Unmaps(b[19 + 4 * ApCount], p)
    BY <1>2, <1>6
  <2>3. \A i : StillToDo(Bsp, i, p)
    BY <1>1, <1>2 DEF StillToDo
  <2>4. ASSUME NEW i \in 1..last, Maps(b[i], p)
        PROVE  19 + 4 * ApCount \in (i + 1)..last
    <3>1. i < 10
      BY <1>4, <2>1, <2>4 DEF BootMaps
    <3>2. QED
      BY <1>2, <3>1
  <2>5. \A i \in 1..last : Maps(b[i], p) => \E j \in (i + 1)..last : Unmaps(b[j], p)
    BY <2>2, <2>4
  <2>6. QED
    BY <1>2, <1>3, <1>7, <2>2, <2>3, <2>5 DEF Goes
<1>18. ScreenStays
  <2>1. last \in 1..last /\ (last + 1)..last = {}
    BY <1>2
  <2>2. StillToDo(Bsp, last, Screen)
    BY <1>1, <1>2 DEF StillToDo
  <2> HIDE DEF last
  <2>3. QED
    BY <1>2, <1>3, <1>6, <1>7, <2>1, <2>2 DEF ScreenStays
<1>19. IdentityUntilScreen
  <2>1. 18 + 4 * ApCount \in 1..last
    BY <1>2
  <2>2. ASSUME NEW i \in 1..((18 + 4 * ApCount) - 1) PROVE ~Unmaps(b[i], Screen)
    <3>1. i \in 1..last /\ i # 19 + 4 * ApCount
      BY <1>2
    <3>2. Screen \notin {Page0, Page1} /\ Screen # Vmcs(Bsp)
      BY <1>2, PageUse, LowPagesAre
    <3>3. QED
      BY <1>4, <3>1, <3>2 DEF BootUnmaps
  <2>3. QED
    BY <1>2, <1>6, <1>7, <1>8, <2>1, <2>2 DEF IdentityUntilScreen
<1>20. QED
  BY <1>9, <1>10, <1>11, <1>12, <1>13, <1>14, <1>15, <1>16, <1>17, <1>18, <1>19
     DEF ServicesInv, ScriptsInv

-------------------------------------------------------------------------------

\* A translation a processor keeps of a page that is gone is of the screen or of a VMCS
\* region, never of a page of the guest or of low memory (paging_tables.c:262).
THEOREM TranslationsAreHarmless == ServicesSpec => []StaleTranslationsAreHarmless
<1>1. ServicesInv /\ [ServicesNext]_servicesVars => ServicesInv'
  BY StepKeeps
<1>2. QED
  BY <1>1, InitIs, ServicesInvIs, PTL DEF ServicesSpec

\* While the BSP is in the guest before its operating system runs, the screen is all
\* of low memory that is mapped: INT 15h gives back what it maps (vmexit.c).
THEOREM BiosGivesBackLowMemory == ServicesSpec => []LowMemoryIsGivenBack
<1>1. ServicesInv /\ [ServicesNext]_servicesVars => ServicesInv'
  BY StepKeeps
<1>2. QED
  BY <1>1, InitIs, ServicesInvIs, PTL DEF ServicesSpec

\* A processor finds every page it has mapped and no lock ASSERT fails, but that an
\* application processor may miss the screen while Init64 has low memory unmapped
\* (init64.c:245 to 248), and that an index may lead past what is mapped (mzpe.c:44,
\* 104, 115, intro.c:125).
THEOREM PagesAreFoundMapped == ServicesSpec => MappedPagesAreFound
<1>1. ServicesInv /\ [ServicesNext]_servicesVars => ServicesInv'
  BY StepKeeps
<1>2. ServicesInv /\ [ServicesNext]_servicesVars =>
        \A c \in CPUs : fault'[c] # fault[c] =>
            \/ c # Bsp /\ fault'[c] = {Screen} /\ ScreenWindow
            \/ script[c] # <<>> /\ \E p \in Frames : /\ Head(script[c]) = AccessPast(p)
                                                    /\ fault'[c] = {p}
  BY StepKeeps DEF FaultsAreExpected
<1>3. QED
  BY <1>1, <1>2, InitIs, PTL DEF ServicesSpec, MappedPagesAreFound

=====================================================================================
