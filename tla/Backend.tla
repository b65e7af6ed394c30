------------------------------- MODULE Backend -------------------------------
(***************************************************************************)
(* Four parts of the backend that share no state: the requests on one          *)
(* connection, the known hosts, the staging disk and the editor.  A behaviour  *)
(* is one of the part that is chosen at its start; the others stand still.     *)
(***************************************************************************)
EXTENDS RemoteRequests, KnownHosts, StagingDisk, RemoteEditor

VARIABLE part

\* A part that stands still has one initial state.
BackendInit ==
  /\ part \in {"remote", "hosts", "disk", "editor"}
  /\ RRInit /\ KHInit /\ SDInit /\ EDInit
  /\ part = "remote" \/ rrProto = "ftp"
  /\ part = "hosts" \/ (khFile = {} /\ khTail = "clean")
  /\ part = "disk" \/ ~sdS3

BackendNext ==
  /\ UNCHANGED part
  /\ \/ part = "remote" /\ RRNext /\ UNCHANGED <<khvars, sdvars, edvars>>
     \/ part = "hosts" /\ KHNext /\ UNCHANGED <<rrvars, sdvars, edvars>>
     \/ part = "disk" /\ SDNext /\ UNCHANGED <<rrvars, khvars, edvars>>
     \/ part = "editor" /\ EDNext /\ UNCHANGED <<rrvars, khvars, sdvars>>

BackendSpec == BackendInit /\ [][BackendNext]_<<part, rrvars, khvars, sdvars, edvars>>

\* The types of the parts, and what each counts.
BackendTypeOK == RRTypeOK /\ KHTypeOK /\ SDTypeOK /\ EDTypeOK
=============================================================================
