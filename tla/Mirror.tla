------------------------------- MODULE Mirror -------------------------------
(***************************************************************************)
(* What upsyncing promises, without controllers, caches or requests: a     *)
(* copy in the workspace of an object on the physical cluster.  The copy   *)
(* may be late, but it never goes back to content that is older than the   *)
(* one it had, and it is not removed as long as there is an object.        *)
(* Contents are numbered; 0 stands for no object.                          *)
(***************************************************************************)
EXTENDS Naturals

VARIABLES
    source,  \* the content of the object on the cluster
    latest,  \* the last version that the cluster has given out
    copy     \* the content of the object in the workspace

MirrorInit == source \in 0 .. latest /\ copy = 0

(* A new version, with new content or with the same.                       *)
SourceChanges ==
    /\ source # 0 /\ latest' = latest + 1
    /\ source' \in {source, latest'}
    /\ UNCHANGED copy

SourceGoes == source # 0 /\ source' = 0 /\ UNCHANGED <<latest, copy>>

(* The copy is made or brought forward.                                    *)
CopyFollows ==
    /\ copy' \in 1 .. latest /\ copy' >= copy
    /\ UNCHANGED <<source, latest>>

CopyGoes == source = 0 /\ copy' = 0 /\ UNCHANGED <<source, latest>>

MirrorNext == SourceChanges \/ SourceGoes \/ CopyFollows \/ CopyGoes

MirrorSpec == MirrorInit /\ [][MirrorNext]_<<source, latest, copy>>
=============================================================================
