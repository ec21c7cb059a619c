------------------------------ MODULE MCGuestServices ------------------------------
(* A BSP and one application processor; pages are named by tuples. *)
EXTENDS GuestServices

MCCpus == {0, 1}
MCAps == <<1>>
MCVmcs(c) == <<"vmcs", c>>
MCLapic == <<"lapic">>
MCPage0 == <<"low", 0>>
MCPage1 == <<"low", 1>>
MCScreen == <<"screen">>
MCOtherLow == {}
MCGuestTables == {<<"guest", 1>>}
MCGuestPages == {<<"guest", i>> : i \in 1..2}

\* First: everything in its place, the tables in one page each, the export found, the
\* caller wants the number of processes. Second: tables of two pages, a name whose page
\* is not there and an export that is not found, after an index past the names to a page
\* that may not be mapped. Third: a span of two pages, and indices past the functions
\* and past the buffer to a page of the hypervisor.
MCLayouts ==
    LET p == <<<<"guest", 1>>>>
        q == <<<<"guest", 2>>>>
        inP == Access(p[1])
        inQ == Access(q[1])
        pastP == AccessPast(q[1])
        toVmcs == AccessPast(MCVmcs(1))
    IN  { [table |-> p[1], buffer |-> q, context |-> <<p>>, image |-> p, headers |-> inP,
           exportDir |-> q, pages |-> 1, tables |-> <<p, q, p>>, symbol |-> q,
           names |-> <<[entry |-> inP, span |-> q, function |-> <<inQ, inP>>]>>,
           processes |-> <<[span |-> p, written |-> <<inQ>>], [span |-> q, written |-> <<>>]>>],
          [table |-> p[1], buffer |-> p, context |-> <<>>, image |-> p, headers |-> inP,
           exportDir |-> p, pages |-> 2, tables |-> <<p, p, p, p, p, p>>, symbol |-> p,
           names |-> <<[entry |-> inP, span |-> <<>>, function |-> <<>>],
                       [entry |-> pastP, span |-> p, function |-> <<>>]>>,
           processes |-> <<>>],
          [table |-> p[1], buffer |-> p, context |-> <<>>, image |-> p \o q, headers |-> inQ,
           exportDir |-> p, pages |-> 1, tables |-> <<p, p, p>>, symbol |-> p,
           names |-> <<[entry |-> inP, span |-> p, function |-> <<inP, toVmcs>>]>>,
           processes |-> <<[span |-> p, written |-> <<toVmcs>>]>>] }

MCFrames == {MCLapic} \union LowPages \union VmcsPages \union GuestPages

\* A table for low memory, which is there from the start, as that of MiniHV's own
\* pages, one for the device and one for the memory after MiniHV.
MCRegion(p) == CASE p \in LowPages -> "low"
                 [] p \in VmcsPages -> "miniHV"
                 [] p = MCLapic -> "device"
                 [] p \in GuestPages -> "guest"
MCBootTables == {"low", "miniHV"}

\* The first page is left out, _init32.yasm:249.
MCBootMapped == LowPages \ {Page0}
===============================================================================
