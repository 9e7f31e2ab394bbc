------------------------------ MODULE MCLifecycle ------------------------------
(***************************************************************************)
(* An instance of Lifecycle for TLC: the right configuration, every way of *)
(* getting one thing wrong, and the sets of namespaces the client can be   *)
(* asked to watch (the orchestrator asks for kube-system alone).           *)
(***************************************************************************)
EXTENDS Lifecycle

CONSTANTS kubeSystem, other, all

MCGoroutine == {Main, ResourceWorker, ResponseWorker, Loop}
MCNamespace == {kubeSystem, other, all}

Right ==
  [flags |-> TRUE, level |-> "info", orch |-> TRUE, knownProvider |-> TRUE,
   range |-> "some", store |-> "works", inCluster |-> TRUE, clients |-> TRUE,
   namespaces |-> {kubeSystem}, apiAnswers |-> TRUE]

Wrong ==
  {[Right EXCEPT !.flags = FALSE], [Right EXCEPT !.orch = FALSE],
   [Right EXCEPT !.level = "verbose"], [Right EXCEPT !.level = ""],
   [Right EXCEPT !.inCluster = FALSE],
   [Right EXCEPT !.inCluster = FALSE, !.level = "critical"],
   [Right EXCEPT !.clients = FALSE],
   [Right EXCEPT !.store = "fails"], [Right EXCEPT !.store = "absent"],
   [Right EXCEPT !.apiAnswers = FALSE]}
  \cup {[Right EXCEPT !.knownProvider = k, !.range = r] :
          k \in BOOLEAN, r \in {"none", "quotes", "some"}}

MCConfig ==
  {Right} \cup Wrong
  \cup {[Right EXCEPT !.level = l] : l \in {"debug", "warning", "critical"}}
  \cup {[Right EXCEPT !.namespaces = N, !.level = "error"] :
          N \in {{all}, {kubeSystem, other}, {kubeSystem, all}, MCNamespace}}

=============================================================================
