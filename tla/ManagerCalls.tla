----------------------------- MODULE ManagerCalls -----------------------------
(***************************************************************************)
(* The Manager interface (pkg/manager/manager.go) on its own: its calls in *)
(* any order and with any arguments, as the interface allows them, and     *)
(* whether an address that was handed out stays reserved.  DeleteARecord   *)
(* does not give one back, though its comment says so; ReleaseIPAddress    *)
(* does.  The controller is only one of the callers.                       *)
(***************************************************************************)
EXTENDS IPAMStore

VARIABLE granted   \* addresses handed out and not given back: what callers know

callVars == <<status, aRecords, granted>>

CallInit == StoreInit /\ granted = {}

CallGetNextIPAddress(c) ==
  /\ CanAllocateNext(c) /\ TRUE \in StoreOutcome
  /\ \E ok \in StoreOutcome : GetNextIPAddress(c, ok)
  /\ granted' = granted \cup {NextAddress(c)}
  /\ UNCHANGED aRecords

\* A failed statement is reported, and nothing is handed out.
CallAllocateIPAddress(c, ip) ==
  /\ TRUE \in StoreOutcome
  /\ CanAllocate(c, ip)
  /\ AllocateIPAddress(c, ip)
  /\ granted' = granted \cup {ip}
  /\ UNCHANGED aRecords

CallReleaseIPAddress(ip) ==
  /\ \E ok \in StoreOutcome : ReleaseIPAddress(ip, ok)
  /\ granted' = granted \ {ip}
  /\ UNCHANGED aRecords

CallCreateARecord(h, ip) ==
  /\ \E ok \in StoreOutcome : CreateARecord(h, ip, ok)
  /\ UNCHANGED <<status, granted>>

CallDeleteARecord(h, ip) ==
  /\ \E ok \in StoreOutcome : DeleteARecord(h, ip, ok)
  /\ UNCHANGED <<status, granted>>

CallNext ==
  \/ \E c \in Cidr : CallGetNextIPAddress(c)
  \/ \E c \in Cidr, ip \in IP : CallAllocateIPAddress(c, ip)
  \/ \E ip \in IP : CallReleaseIPAddress(ip)
  \/ \E h \in Host, ip \in IP : CallCreateARecord(h, ip) \/ CallDeleteARecord(h, ip)

CallSpec == CallInit /\ [][CallNext]_callVars

-----------------------------------------------------------------------------

\* What was handed out stays reserved until it is given back: no row of the
\* address can be allocated again, by either of the two allocating calls.
Reserved == \A i \in Row : Pool[i].ipaddress \in granted => status[i] = ALLOCATED

=============================================================================
