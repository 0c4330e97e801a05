-------------------------- MODULE MCProxmoxInject --------------------------
(* TLC instance: two processes at requests and two workers that inject.    *)
(* Each family has its own bounds; only Proxmox injects.                   *)
EXTENDS ProxmoxInject, TLC

Symmetry == Permutations(Webs)
MCPushes == [s \in {"ubuntu", "proxmox", "esxi", "custom"} |->
                CASE s = "proxmox" -> 2 [] s = "custom" -> 4 [] OTHER -> 3]
MCRequests == [s \in {"ubuntu", "proxmox", "esxi", "custom"} |-> IF s = "proxmox" THEN 3 ELSE 5]
=============================================================================
