------------------------------- MODULE VmxControls -------------------------------
(* The control fields and control registers a guest is launched with. The BSP reads
   from the capability MSRs which bits of each field may be 0 and which may be 1
   (vmx_capability.c, vmx_operations.c:304), once for all processors; every processor
   then adjusts what MiniHV wants to what it has read and writes it to its VMCS
   (vmcs.c). A DWORD is the set of its bits that are 1.

   The processors are alike, as the code takes for granted. must and may say what the
   MSRs hold: the lower half, bits that must be 1, and the upper one, bits that may
   be; options, that the EPT's memory type and the options of IA32_VMX_MISC are ones
   the code asserts. For fields with a "true" MSR they are those of the true one if the processor
   has it, which is the one the code reads then. *)

CONSTANTS Processors,
          Bits,             \* the bits of a DWORD
          MsrContents,      \* what the capability MSRs of a processor may say
          Wanted,           \* VM_CONTROL_*_CTLS, VM_GUEST_CR0, VM_GUEST_CR4
          Unprepared,       \* bits of a field that end in NOT_REACHED
          TscOffseting, RdtscExit, ActivateSecondary, EnableEpt, UnrestrictedGuest, PreemptTimer, SaveTimer,
          CR0_PE, CR0_PG

Fields == {"pin", "primary", "secondary", "exit", "entry", "cr0", "cr4"}

ASSUME ControlsAssumption ==
    /\ {TscOffseting, RdtscExit, ActivateSecondary, EnableEpt, UnrestrictedGuest,
        PreemptTimer, SaveTimer, CR0_PE, CR0_PG} \subseteq Bits
    /\ Wanted \in [Fields -> SUBSET Bits] /\ Unprepared \in [Fields -> SUBSET Bits]
    /\ ActivateSecondary \in Wanted["primary"]
    /\ {EnableEpt, UnrestrictedGuest} \subseteq Wanted["secondary"]
    /\ CR0_PE \notin Wanted["cr0"] /\ CR0_PG \notin Wanted["cr0"]
    /\ SaveTimer \notin Wanted["exit"]
    /\ \A m \in MsrContents :
           /\ m \in [must : [Fields -> SUBSET Bits], may : [Fields -> SUBSET Bits],
                     options : BOOLEAN]
           /\ \A f \in Fields : m.must[f] \subseteq m.may[f]
           /\ SaveTimer \notin m.must["exit"]

\* The order in which fields are read, and written, and what comes before each.
Done == "done"
Following == [pin |-> "primary", primary |-> "secondary", secondary |-> "exit",
              exit |-> "entry", entry |-> "cr0", cr0 |-> "cr4", cr4 |-> Done]
Before == [pin |-> {}, primary |-> {"pin"}, secondary |-> {"pin", "primary"},
           exit |-> {"pin", "primary", "secondary"},
           entry |-> {"pin", "primary", "secondary", "exit"},
           cr0 |-> {"pin", "primary", "secondary", "exit", "entry"},
           cr4 |-> {"pin", "primary", "secondary", "exit", "entry", "cr0"},
           done |-> Fields]

VARIABLES msr,            \* the capability MSRs
          capabilities,   \* VmxConfigurationData
          ChosenValue,    \* its ChosenValue of every field
          toRetrieve,     \* the field that is read next
          vmcs,           \* the fields of each processor's VMCS
          toWrite,        \* the field each processor writes next
          panic

controlsVars == <<msr, capabilities, ChosenValue, toRetrieve, vmcs, toWrite, panic>>

NoCapability == [zero |-> {}, one |-> {}, flexible |-> {}]

ControlsInit ==
    /\ msr \in MsrContents
    /\ capabilities = [f \in Fields |-> NoCapability]
    /\ ChosenValue = [f \in Fields |-> {}]
    /\ toRetrieve = "pin"
    /\ vmcs = [c \in Processors |-> [f \in Fields |-> {}]]
    /\ toWrite = [c \in Processors |-> "pin"]
    /\ panic = FALSE

-------------------------------------------------------------------------------
\* Mutant: CR0 is taken as the MSR has it.
NotRelaxed(f) == {}

\* With an unrestricted guest PE and PG may be 0, whatever CR0_FIXED0 says.
Relaxed(f) ==
    IF f = "cr0" /\ UnrestrictedGuest \in capabilities["secondary"].one
    THEN {CR0_PE, CR0_PG} ELSE {}

Capability(f) ==
    LET zero == (Bits \ msr.must[f]) \union Relaxed(f)
    IN [zero |-> zero, one |-> msr.may[f], flexible |-> zero \intersect msr.may[f]]

\* The ASSERTs between the fields, those of EPT and MISC after the secondary ones.
Suffices(f) ==
    /\ f = "primary" => ActivateSecondary \in msr.may[f]
    /\ f = "secondary" => {EnableEpt, UnrestrictedGuest} \subseteq msr.may[f] /\ msr.options

VmxRetrieveCapabilities ==
    /\ ~panic /\ toRetrieve # Done
    /\ capabilities' = [capabilities EXCEPT ![toRetrieve] = Capability(toRetrieve)]
    /\ panic' = ~Suffices(toRetrieve)
    /\ toRetrieve' = Following[toRetrieve]
    /\ UNCHANGED <<msr, ChosenValue, vmcs, toWrite>>

-------------------------------------------------------------------------------
Xor(S, T) == (S \ T) \union (T \ S)

\* _VmxCapabilityCheckControls: first the ones that are fixed, then the zeros.
CheckControls(f, wanted) ==
    LET cap == capabilities[f]
        ones == wanted \union ((Bits \ cap.flexible) \intersect cap.one)
    IN ones \intersect Xor(cap.flexible, Bits \ cap.zero)

\* The exit controls save the preemption timer if the pin-based ones start it.
Wish(f) ==
    Wanted[f] \union
        IF f = "exit" /\ PreemptTimer \in ChosenValue["pin"] THEN {SaveTimer} ELSE {}

\* A bit that is forced to 1 and that the code has no set-up for.
NotReached(f, value) ==
    \/ value \intersect Unprepared[f] # {}
    \/ f = "primary" /\ TscOffseting \in value /\ RdtscExit \notin value

\* VmxWriteControlsAfterCheckingCapabilities, for the next field.
WriteControls(c) ==
    /\ ~panic /\ toRetrieve = Done
    /\ toWrite[c] # Done
    /\ LET f == toWrite[c]
           value == CheckControls(f, Wish(f))
       IN  /\ vmcs' = [vmcs EXCEPT ![c] = [@ EXCEPT ![f] = value]]
           /\ ChosenValue' = [ChosenValue EXCEPT ![f] = value]
           /\ panic' = NotReached(f, value)
           /\ toWrite' = [toWrite EXCEPT ![c] = Following[f]]
    /\ UNCHANGED <<msr, capabilities, toRetrieve>>

ControlsNext == VmxRetrieveCapabilities \/ \E c \in Processors : WriteControls(c)

ControlsSpec == ControlsInit /\ [][ControlsNext]_controlsVars

-------------------------------------------------------------------------------
(* Properties *)

ControlsTypeOK ==
    /\ msr \in MsrContents
    /\ capabilities \in [Fields -> [zero : SUBSET Bits, one : SUBSET Bits, flexible : SUBSET Bits]]
    /\ ChosenValue \in [Fields -> SUBSET Bits]
    /\ toRetrieve \in Fields \union {Done}
    /\ vmcs \in [Processors -> [Fields -> SUBSET Bits]]
    /\ toWrite \in [Processors -> Fields \union {Done}]
    /\ panic \in BOOLEAN

Launches(c) == ~panic /\ toRetrieve = Done /\ toWrite[c] = Done

\* What the processor insists on at the VM entry; PE and PG only without an
\* unrestricted guest.
Required(c, f) ==
    msr.must[f] \ IF f = "cr0" /\ UnrestrictedGuest \in vmcs[c]["secondary"]
                  THEN {CR0_PE, CR0_PG} ELSE {}

\* Whatever the capability MSRs say, a processor that gets as far as the launch has
\* written fields the VM entry accepts: no bit outside of what the MSRs allow, though
\* CR0 was adjusted by what another field may be and the exit controls by what a
\* global value, which all processors write, says of the pin-based ones
\* (vmx_capability.c:124-131, vmcs.c:767).
EntryAccepts ==
    \A c \in Processors : Launches(c) =>
        /\ \A f \in Fields :
              Required(c, f) \subseteq vmcs[c][f] /\ vmcs[c][f] \subseteq msr.may[f]
        /\ SaveTimer \in vmcs[c]["exit"] => PreemptTimer \in vmcs[c]["pin"]

\* And it has what MiniHV cannot do without: the guest starts in real mode behind the
\* EPT, and nothing MiniHV wants and may have is lost.
GuestAsWanted ==
    \A c \in Processors : Launches(c) =>
        /\ ActivateSecondary \in vmcs[c]["primary"]
        /\ {EnableEpt, UnrestrictedGuest} \subseteq vmcs[c]["secondary"]
        /\ CR0_PE \notin vmcs[c]["cr0"] /\ CR0_PG \notin vmcs[c]["cr0"]
        /\ \A f \in Fields : Wanted[f] \intersect msr.may[f] \subseteq vmcs[c][f]

GuestCanStart == EntryAccepts /\ GuestAsWanted
===============================================================================
