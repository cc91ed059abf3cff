---------------------------- MODULE OutputStore ----------------------------
(***************************************************************************)
(* FileOutputStore (service/output.py): one directory per job under the    *)
(* root, published by an atomic rename of a staging directory, removed by  *)
(* delete_job, and cleaned of crash leftovers by reconcile when the        *)
(* service opens.  Bytes and the quota are not tracked here.               *)
(***************************************************************************)

CONSTANT
    JobIds   \* job ids in created_at order: both are minted before the insert

VARIABLE
    files    \* per job, what the root holds: nothing, a staging or a job directory

OutputDirs == {"none", "staged", "published"}

OutputInit == files = [j \in JobIds |-> "none"]

\* write_job up to the rename: both streams are written into a staging directory.
StageOutput(j) ==
    /\ files[j] = "none"
    /\ files' = [files EXCEPT ![j] = "staged"]

\* write_job's rename of the staging directory onto the job directory.
PublishOutput(j) ==
    /\ files[j] = "staged"
    /\ files' = [files EXCEPT ![j] = "published"]

\* delete_job, and write_job's removal of its staging directory after a failure.
RemoveOutput(j) == files' = [files EXCEPT ![j] = "none"]

\* reconcile: staging directories and unreferenced job directories are removed.
Reconcile(referenced) ==
    files' = [j \in JobIds |->
                 IF files[j] = "published" /\ j \in referenced THEN "published" ELSE "none"]

OutputNext ==
    \/ \E j \in JobIds : StageOutput(j) \/ PublishOutput(j) \/ RemoveOutput(j)
    \/ \E referenced \in SUBSET JobIds : Reconcile(referenced)

=============================================================================
