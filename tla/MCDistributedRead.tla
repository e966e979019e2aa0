-------------------------- MODULE MCDistributedRead --------------------------
(* Instances of DistributedRead for TLC. *)
EXTENDS DistributedReadInvariant, TLC

CONSTANTS f1, f2, f3, o1, o2

\* Two runs share an owner id: readExecutionOwnerIdFactory is the application's.
MCOwnerOf == f1 :> o1 @@ f2 :> o1 @@ f3 :> o2

MCPair == f1 :> o1 @@ f2 :> o2

\* The harder case for the lease: only its version tells the two runs apart.
MCShared == f1 :> o1 @@ f2 :> o1

=============================================================================
