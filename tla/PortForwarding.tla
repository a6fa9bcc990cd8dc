---------------------------- MODULE PortForwarding ----------------------------
(***************************************************************************)
(* The port of a HiggsNode that the router in front of it forwards: class  *)
(* PortForwardingService (higgsnode/src/services) with one mapping, the    *)
(* only one that the node asks for, and UPnP.  The mapping is the          *)
(* router's: it outlives the process, until its hour is over.              *)
(*                                                                         *)
(* A mapping is refreshed thirty seconds before that.  Nobody waits for    *)
(* the answer to a removal.  Left out: NAT-PMP, which is the same with     *)
(* another library.                                                        *)
(***************************************************************************)
EXTENDS Naturals

VARIABLES
    holding,        \* activeMappings has the port
    refresh,        \* its refresh timer is set
    adding,         \* the request to map the port: "no", "sent", "done" by the router
    removing,       \* the request to remove the mapping has been sent
    mapped          \* the router forwards the port

ports == <<holding, refresh, adding, removing, mapped>>

PortsTypeOK ==
    /\ holding \in BOOLEAN /\ refresh \in BOOLEAN
    /\ adding \in {"no", "sent", "done"}
    /\ removing \in BOOLEAN /\ mapped \in BOOLEAN

PortsInit ==
    /\ holding = FALSE /\ refresh = FALSE
    /\ adding = "no" /\ removing = FALSE
    /\ mapped = FALSE

(* The memory of a process that ends; requests on their way are not.       *)
PortsForgotten ==
    /\ holding' = FALSE /\ refresh' = FALSE
    /\ UNCHANGED <<adding, removing, mapped>>

-----------------------------------------------------------------------------
(* initialize and addPortMapping: a router is found and asked, or none is. *)
Initialize ==
    /\ adding' \in {"no", "sent"}
    /\ UNCHANGED <<holding, refresh, removing, mapped>>

(* Mutant: a mapping that is there keeps its timer, which has fired. *)
AddedMutant ==
    /\ adding = "done"
    /\ adding' = "no"
    /\ holding' = TRUE
    /\ refresh' = ~ holding
    /\ UNCHANGED <<removing, mapped>>

(* The router has answered, and the next refresh is scheduled. *)
Added ==
    /\ adding = "done"
    /\ adding' = "no"
    /\ holding' = TRUE
    /\ refresh' = TRUE
    /\ UNCHANGED <<removing, mapped>>

(* The router refuses or does not answer.  A mapping is held on to, and    *)
(* not refreshed any more.                                                 *)
AddFails ==
    /\ adding # "no"
    /\ adding' = "no"
    /\ UNCHANGED <<holding, refresh, removing, mapped>>

RefreshFires ==
    /\ refresh
    /\ refresh' = FALSE
    /\ adding' = IF holding THEN "sent" ELSE adding
    /\ UNCHANGED <<holding, removing, mapped>>

(* cleanup, with removePortMapping. *)
RemovePort ==
    /\ removing' = (removing \/ holding)
    /\ holding' = FALSE /\ refresh' = FALSE
    /\ UNCHANGED <<adding, mapped>>

-----------------------------------------------------------------------------
(* The router. *)
RouterAdds ==
    /\ adding = "sent"
    /\ adding' = "done"
    /\ mapped' = TRUE
    /\ UNCHANGED <<holding, refresh, removing>>

RouterRemoves ==
    /\ removing
    /\ removing' = FALSE
    /\ mapped' = FALSE
    /\ UNCHANGED <<holding, refresh, adding>>

(* The hour is over.  A timer that is set fires before that; a request on  *)
(* its way is answered before that, unless it may be late.                 *)
Lapse(late) ==
    /\ mapped
    /\ ~ refresh /\ (adding # "no" => late)
    /\ mapped' = FALSE
    /\ UNCHANGED <<holding, refresh, adding, removing>>
=============================================================================
