------------------------------ MODULE MCGuestSetup ------------------------------
(* What the guest is set up from: the memory map, the memory types and the VMX
   capabilities. The three share no state, and a behaviour is one of one of them. *)
EXTENDS MemoryMap, Mtrr, VmxControls, TLC

VARIABLE part

(* Three bytes of fixed registers, the first for two pages, and variable registers
   that may lie beside each other, above each other, or be off. *)
MCRegionSize == <<2, 1, 1>>
MCFixedBase == <<2, 3, 4>> @@ (0 :> 0)
Register(base, end, type) == [valid |-> TRUE, base |-> base, end |-> end, type |-> type]
Off == [Register(0, 1, MEMORY_TYPE_STRONG_UNCACHEABLE) EXCEPT !.valid = FALSE]
MCVariableContents ==
    {Off} \union {Register(r[1], r[2], t) :
                      r \in {<<0, 4>>, <<0, 8>>, <<4, 8>>, <<8, 10>>}, t \in MemoryTypes}
MCMapCalls == {[base |-> 0, end |-> 5], [base |-> 7, end |-> 13]}

(* The capability MSRs: what MiniHV cannot do without may be missing, and bits it does
   not want may be fixed to 1, alone or together. *)
MCWanted == [pin |-> {}, primary |-> {"secondary", "msr"}, secondary |-> {"ept", "ug", "rdtscp"},
             exit |-> {"host64"}, entry |-> {"efer"}, cr0 |-> {"NE"}, cr4 |-> {"VMXE"}]
MCUnprepared == [f \in Fields |-> IF f = "secondary" THEN {"vpid"} ELSE {}]
Msr(must, may) == [must |-> must, may |-> must \union may]
MCMsrContents ==
    {[must |-> [pin |-> p.must, primary |-> q.must, secondary |-> s.must, exit |-> {},
                entry |-> {}, cr0 |-> {"PE", "PG"} \union n, cr4 |-> {"VMXE"}],
      may |-> [pin |-> p.may, primary |-> q.may, secondary |-> s.may,
               exit |-> {"host64"} \union t, entry |-> {"efer"},
               cr0 |-> {"PE", "PG", "NE"}, cr4 |-> {"VMXE"}],
      options |-> o] :
        p \in {Msr({}, {}), Msr({}, {"timer"}), Msr({"timer"}, {})},
        q \in {Msr({}, {"secondary"}), Msr({}, {"msr"}), Msr({"secondary", "msr"}, {}),
               Msr({"tsc"}, {"secondary", "msr"}), Msr({"tsc", "rdtsc"}, {"secondary"})},
        s \in {Msr({}, {"ept", "ug"}), Msr({}, {"ept"}), Msr({"vpid"}, {"ept", "ug"}),
               Msr({"ept"}, {"ug", "rdtscp", "vpid"})},
        n \in {{}, {"NE"}}, t \in {{}, {"saveTimer"}}, o \in BOOLEAN}

NoType == [k \in 1..FixedEntries |-> MEMORY_TYPE_STRONG_UNCACHEABLE]
SomeMsr == CHOOSE m \in MsrContents : TRUE

MCInit ==
    /\ part \in {"map", "types", "controls"}
    /\ FixedRegistersSupport \in IF part = "types" THEN BOOLEAN ELSE {FALSE}
    /\ fixedType \in IF FixedRegistersSupport THEN [1..FixedEntries -> MemoryTypes] ELSE {NoType}
    /\ variable \in [1..VariableRegisters -> IF part = "types" THEN MCVariableContents ELSE {Off}]
    /\ DefaultMemoryType \in IF part = "types" THEN MemoryTypes ELSE {MEMORY_TYPE_WRITEBACK}
    /\ msr \in IF part = "controls" THEN MsrContents ELSE {SomeMsr}
    /\ Init /\ MtrrInit /\ ControlsInit

MCNext ==
    /\ \/ part = "map" /\ Next /\ UNCHANGED <<mtrrVars, controlsVars>>
       \/ part = "types" /\ MtrrNext /\ UNCHANGED <<vars, controlsVars>>
       \/ part = "controls" /\ ControlsNext /\ UNCHANGED <<vars, mtrrVars>>
    /\ UNCHANGED part

MCSpec == MCInit /\ [][MCNext]_<<vars, mtrrVars, controlsVars, part>>
===============================================================================
