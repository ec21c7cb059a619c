------------------------------ MODULE MCSmpBoot ------------------------------
(* Instances of SmpBoot for TLC: a BSP and two APs.                        *)
EXTENDS SmpBoot

CONSTANTS bsp, ap1, ap2

MCCpus == {bsp, ap1, ap2}
MCPhysCpuList == << bsp, ap1, ap2 >>

=============================================================================
