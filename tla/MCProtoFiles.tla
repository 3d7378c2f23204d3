---------------------------- MODULE MCProtoFiles ----------------------------
(***************************************************************************)
(* Instances of ProtoFiles for TLC.                                        *)
(***************************************************************************)
EXTENDS ProtoFiles

\* A kubelet of all packages but two versions of the registration API, every
\* program of two packages, and plugins of one.
MCLinks ==
  [kubelet |->
     {Packages \ (RegistrationPackages \ {v}) : v \in RegistrationPackages}
     \cup {{k, h} : k, h \in Packages},
   plugin |-> {{k} : k \in Packages}]
=============================================================================
