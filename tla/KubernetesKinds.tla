--------------------------- MODULE KubernetesKinds ---------------------------
(***************************************************************************)
(* The resource kinds of the Kubernetes tools and where the API server     *)
(* serves them (src/integrations/kubernetes/actions.rs, client.rs).        *)
(***************************************************************************)
EXTENDS Sequences

\* ResourceKind::mapping: the API version, which names its discovery document, and
\* the resource.  The prefix ("api" for v1, "apis" for a group) follows from the
\* version.
Mapping ==
  [namespace |-> <<"v1", "namespaces">>,
   node |-> <<"v1", "nodes">>,
   deployment |-> <<"apps/v1", "deployments">>,
   stateful_set |-> <<"apps/v1", "statefulsets">>,
   daemon_set |-> <<"apps/v1", "daemonsets">>,
   replica_set |-> <<"apps/v1", "replicasets">>,
   job |-> <<"batch/v1", "jobs">>,
   cron_job |-> <<"batch/v1", "cronjobs">>,
   pod |-> <<"v1", "pods">>,
   event |-> <<"events.k8s.io/v1", "events">>,
   pod_metric |-> <<"metrics.k8s.io/v1beta1", "pods">>,
   node_metric |-> <<"metrics.k8s.io/v1beta1", "nodes">>,
   service |-> <<"v1", "services">>,
   endpoint_slice |-> <<"discovery.k8s.io/v1", "endpointslices">>,
   ingress |-> <<"networking.k8s.io/v1", "ingresses">>,
   gateway |-> <<"gateway.networking.k8s.io/v1", "gateways">>,
   gateway_class |-> <<"gateway.networking.k8s.io/v1", "gatewayclasses">>,
   http_route |-> <<"gateway.networking.k8s.io/v1", "httproutes">>,
   network_policy |-> <<"networking.k8s.io/v1", "networkpolicies">>,
   persistent_volume_claim |-> <<"v1", "persistentvolumeclaims">>,
   storage_class |-> <<"storage.k8s.io/v1", "storageclasses">>,
   horizontal_pod_autoscaler |-> <<"autoscaling/v2", "horizontalpodautoscalers">>,
   pod_disruption_budget |-> <<"policy/v1", "poddisruptionbudgets">>,
   certificate |-> <<"cert-manager.io/v1", "certificates">>,
   cluster_issuer |-> <<"cert-manager.io/v1", "clusterissuers">>,
   cnpg_cluster |-> <<"postgresql.cnpg.io/v1", "clusters">>,
   kafka |-> <<"kafka.strimzi.io/v1beta2", "kafkas">>,
   kafka_node_pool |-> <<"kafka.strimzi.io/v1beta2", "kafkanodepools">>,
   kafka_topic |-> <<"kafka.strimzi.io/v1beta2", "kafkatopics">>,
   ceph_cluster |-> <<"ceph.rook.io/v1", "cephclusters">>,
   ceph_filesystem |-> <<"ceph.rook.io/v1", "cephfilesystems">>,
   ceph_block_pool |-> <<"ceph.rook.io/v1", "cephblockpools">>,
   ceph_object_store |-> <<"ceph.rook.io/v1", "cephobjectstores">>,
   velero_backup |-> <<"velero.io/v1", "backups">>,
   velero_schedule |-> <<"velero.io/v1", "schedules">>,
   backup_storage_location |-> <<"velero.io/v1", "backupstoragelocations">>]

ResourceKinds == DOMAIN Mapping

\* The kinds of ClusterResourceKind; every other kind is a NamespacedResourceKind.
ClusterKinds == {"namespace", "node", "node_metric", "gateway_class", "storage_class",
                 "cluster_issuer"}

NamespacedKinds == ResourceKinds \ ClusterKinds

Namespaced(kind) == kind \in NamespacedKinds

ApiVersion(kind) == Mapping[kind][1]

ObjectPathOfResource(kind, namespace, name) ==
  <<Mapping[kind][2], namespace, name>>

\* object_path, as the sequence of its parts; the empty sequence is a refused request.
ObjectPath(kind, namespace, name) ==
  IF Namespaced(kind) /\ namespace = "" /\ name # "" THEN << >>
  ELSE <<ApiVersion(kind)>>
       \o (IF Namespaced(kind) /\ namespace # "" THEN <<"namespaces", namespace>> ELSE << >>)
       \o <<Mapping[kind][2]>>
       \o (IF name # "" THEN <<name>> ELSE << >>)
=============================================================================
