------------------------------- MODULE Records -------------------------------
(***************************************************************************)
(* What the daemon keeps of what was said: a record and, if the user wants *)
(* it, a recording beside it (nevos-store, over files), as transcribe and  *)
(* capture_task write them and the control page deletes and purges them.   *)
(*                                                                         *)
(* No lock is held over the store: each of these is a sequence of file     *)
(* operations on a thread of its own, any of which may fail, and the       *)
(* daemon may be stopped after any of them.  A directory is cleared in one *)
(* step here, though perhaps not to the end.  Notes and transcripts are    *)
(* kept alike: there is one kind.  One purge runs at once.                 *)
(***************************************************************************)


CONSTANTS Ids   \* records, each saved once

VARIABLES
  audio,     \* recordings in audio/
  record,    \* [Ids -> "none", or a record that "names" its recording, or is "bare"]
  saving,    \* [Ids -> "todo", "audio" once the recording is written, "done"]
  deleting,  \* [Ids -> "no", or what remains of delete_record: "audio", "record"]
  purge,     \* the purge that runs, its step, and the records it has yet to rewrite
  deleted,   \* history: records that delete_record has removed
  raced,     \* history: ids saved or deleted while a purge ran, or cut off by a stop
  failed     \* history: ids of which a file could not be written, read or removed

vars == <<audio, record, saving, deleting, purge, deleted, raced, failed>>

NoPurge == [at |-> "idle", left |-> {}]

Init ==
  /\ audio = {}
  /\ record = [i \in Ids |-> "none"]
  /\ saving = [i \in Ids |-> "todo"]
  /\ deleting = [i \in Ids |-> "no"]
  /\ purge = NoPurge
  /\ deleted = {}
  /\ raced = {}
  /\ failed = {}

Racing(i) == IF purge = NoPurge THEN raced ELSE raced \union {i}
Busy == {i \in Ids : saving[i] = "audio" \/ deleting[i] # "no"}

-----------------------------------------------------------------------------
(* Saving and deleting one record.                                         *)

\* save_audio, when keep_audio is set and it succeeds.
SaveAudio(i) ==
  /\ saving[i] = "todo"
  /\ saving' = [saving EXCEPT ![i] = "audio"]
  /\ audio' = audio \union {i}
  /\ raced' = Racing(i)
  /\ UNCHANGED <<record, deleting, purge, deleted, failed>>

\* save_record, naming the recording if there is one; that it failed is only logged.
SaveRecord(i) ==
  /\ saving[i] \in {"todo", "audio"}
  /\ saving' = [saving EXCEPT ![i] = "done"]
  /\ \/ /\ record' = [record EXCEPT ![i] = IF saving[i] = "audio" THEN "names" ELSE "bare"]
        /\ UNCHANGED failed
     \/ failed' = failed \union {i} /\ UNCHANGED record
  /\ raced' = Racing(i)
  /\ UNCHANGED <<audio, deleting, purge, deleted>>

\* delete_record reads the record, to see what recording it names; one that cannot be
\* read is taken to name none.
DeleteReads(i) ==
  /\ record[i] # "none" /\ deleting[i] = "no"
  /\ \/ /\ deleting' = [deleting EXCEPT ![i] = IF record[i] = "names" THEN "audio" ELSE "record"]
        /\ UNCHANGED failed
     \/ deleting' = [deleting EXCEPT ![i] = "record"] /\ failed' = failed \union {i}
  /\ raced' = Racing(i)
  /\ UNCHANGED <<audio, record, saving, purge, deleted>>

\* The audio goes first; whether it went is not looked at.
DeleteAudio(i) ==
  /\ deleting[i] = "audio"
  /\ deleting' = [deleting EXCEPT ![i] = "record"]
  /\ \/ audio' = audio \ {i} /\ UNCHANGED failed
     \/ failed' = failed \union {i} /\ UNCHANGED audio
  /\ UNCHANGED <<record, saving, purge, deleted, raced>>

DeleteRecord(i) ==
  /\ deleting[i] = "record"
  /\ deleting' = [deleting EXCEPT ![i] = "no"]
  /\ \/ record' = [record EXCEPT ![i] = "none"] /\ deleted' = deleted \union {i}
     \/ UNCHANGED <<record, deleted>>
  /\ UNCHANGED <<audio, saving, purge, raced, failed>>

-----------------------------------------------------------------------------
(* Purging; the first file that fails ends it.                             *)

Purging(how) == purge' = [at |-> how, left |-> {}] /\ raced' = raced \union Busy

\* clear_dir of the recordings, to the end or not.
ClearsAudio(how) ==
  /\ purge = NoPurge
  /\ \/ audio' = {} /\ Purging(how)
     \/ (\E some \in SUBSET audio : audio' = some) /\ UNCHANGED <<purge, raced>>
  /\ UNCHANGED <<record, saving, deleting, deleted, failed>>

\* purge_audio clears the recordings, then reads the records, passing over what it cannot
\* read...
PurgeAudio == ClearsAudio("read")

PurgeReads ==
  /\ purge.at = "read"
  /\ \E some \in SUBSET {i \in Ids : record[i] = "names"} :
       purge' = [at |-> "rewrite", left |-> some]
  /\ UNCHANGED <<audio, record, saving, deleting, deleted, raced, failed>>

\* ... and writes those that name one again, as it read them but bare.
PurgeRewrites(i) ==
  /\ purge.at = "rewrite" /\ i \in purge.left
  /\ purge' = [purge EXCEPT !.left = @ \ {i}]
  /\ record' = [record EXCEPT ![i] = "bare"]
  /\ UNCHANGED <<audio, saving, deleting, deleted, raced, failed>>

\* purge_all clears the recordings, then the records.
PurgeAll == ClearsAudio("records")

PurgeRecords ==
  /\ purge.at = "records"
  /\ purge' = [at |-> "rewrite", left |-> {}]
  /\ \E some \in SUBSET Ids : record' = [i \in Ids |-> IF i \in some THEN "none" ELSE record[i]]
  /\ UNCHANGED <<audio, saving, deleting, deleted, raced, failed>>

\* It is through, or could not list, read or write a file.
PurgeEnds ==
  /\ purge # NoPurge
  /\ purge' = NoPurge
  /\ UNCHANGED <<audio, record, saving, deleting, deleted, raced, failed>>

\* The daemon is stopped, and started again with the files as they are.
Restart ==
  /\ Busy # {} \/ purge # NoPurge
  /\ saving' = [i \in Ids |-> IF saving[i] = "audio" THEN "done" ELSE saving[i]]
  /\ deleting' = [i \in Ids |-> "no"]
  /\ purge' = NoPurge
  /\ raced' = raced \union {i \in Ids : saving[i] = "audio"}
  /\ UNCHANGED <<audio, record, deleted, failed>>

Next ==
  \/ \E i \in Ids : SaveAudio(i)
  \/ \E i \in Ids : SaveRecord(i)
  \/ \E i \in Ids : DeleteReads(i)
  \/ \E i \in Ids : DeleteAudio(i)
  \/ \E i \in Ids : DeleteRecord(i)
  \/ PurgeAudio
  \/ PurgeReads
  \/ \E i \in Ids : PurgeRewrites(i)
  \/ PurgeAll
  \/ PurgeRecords
  \/ PurgeEnds
  \/ Restart

-----------------------------------------------------------------------------

TypeOK ==
  /\ audio \subseteq Ids
  /\ record \in [Ids -> {"none", "names", "bare"}]
  /\ saving \in [Ids -> {"todo", "audio", "done"}]
  /\ deleting \in [Ids -> {"no", "audio", "record"}]
  /\ purge \in [at : {"idle", "read", "rewrite", "records"}, left : SUBSET Ids]
  /\ deleted \subseteq Ids /\ raced \subseteq Ids /\ failed \subseteq Ids

\* A recording is left where the user cannot see it, with no record that names it or is
\* about to, only in three ways: a file of it could not be written, read or removed, which
\* the code passes over; a stop cut its saving off; a purge overtook it.  Stopping in the
\* middle of deleting leaves none, nor does a purge that fails half way.
NoOrphanRecording ==
  \A i \in audio \ (raced \union failed) : record[i] = "names" \/ saving[i] = "audio"

\* What was deleted does not come back, but for a purge that wrote it again, and takes
\* its recording along, but for one that could not be removed.
DeletedStaysDeleted ==
  /\ \A i \in deleted \ raced : record[i] = "none"
  /\ \A i \in deleted \ (raced \union failed) : i \notin audio

RecordsAreKept == NoOrphanRecording /\ DeletedStaysDeleted
=============================================================================
