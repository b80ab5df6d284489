----------------------------- MODULE HealthState -----------------------------
(***************************************************************************)
(* HealthTracker (daemon/state.py) and the snapshot file it publishes.     *)
(* save_to_file writes to a temporary file named after the process and     *)
(* renames it; the main thread and the maintenance worker use the same     *)
(* name. An open file follows the rename, so a handle may be to the        *)
(* temporary file, to the published one, or to one that is gone. json.dump *)
(* fills a buffer that is written when the file is closed.                 *)
(***************************************************************************)
EXTENDS Integers

VARIABLES
  service,     \* HealthTracker._service_state
  status,      \* _subsystems[s].status
  published,   \* the snapshot file
  tmpFile,     \* the temporary file of the daemon's process
  saving       \* saving[t]: thread t's save_to_file: [pc, handle, snapshot]

trackerVars == <<service, status>>
fileVars == <<published, tmpFile, saving>>
healthVars == <<service, status, published, tmpFile, saving>>

ServiceState ==
  {"STARTING", "INITIALIZING", "RUNNING", "STOPPING", "STOPPED", "DEGRADED", "FAILED"}
HealthStatus == {"HEALTHY", "DEGRADED", "FAILED", "UNKNOWN"}
Subsystem == {"Telemetry", "Detection", "Threat Intel", "Database", "Firewall", "Response"}
Threads == {"main", "worker"}

(* What a file holds: a snapshot, of which the service state is kept here, *)
(* nothing yet, or parts of two snapshots.                                 *)
Torn == {"empty", "garbled"}
Content == ServiceState \union Torn \union {"none"}
Idle == [pc |-> "idle", handle |-> "gone", snapshot |-> "none"]
Saving == [pc: {"idle", "open", "write", "publish"}, handle: {"tmp", "published", "gone"},
           snapshot: ServiceState \union {"none"}]

HealthTypeOK ==
  /\ service \in ServiceState
  /\ status \in [Subsystem -> HealthStatus]
  /\ published \in Content /\ tmpFile \in Content
  /\ saving \in [Threads -> Saving]

UnknownStatus == [s \in Subsystem |-> "UNKNOWN"]

(* __init__. *)
NewTracker(state) == service' = state /\ status' = UnknownStatus
HealthInit ==
  /\ service = "STARTING" /\ status = UnknownStatus
  /\ published = "none" /\ tmpFile = "none" /\ saving = [t \in Threads |-> Idle]

SetServiceState(state) == service' = state
SetSubsystemHealth(s, st) == status' = [status EXCEPT ![s] = st]

(* record_subsystem_error: from the third error on, by a count that is     *)
(* never reset and is left open here.                                      *)
Degraded(st) == IF st = "HEALTHY" THEN "DEGRADED" ELSE st
RecordSubsystemError(s) == status' \in {status, [status EXCEPT ![s] = Degraded(@)]}

\* Mutant: any() for all().
OverallOfAny(state, st) ==
  LET statuses == {st[s] : s \in Subsystem}
  IN IF "FAILED" \in statuses THEN "FAILED" ELSE IF "DEGRADED" \in statuses THEN "DEGRADED"
     ELSE IF "HEALTHY" \in statuses THEN "HEALTHY" ELSE "UNKNOWN"
(* calculate_overall_health: the worst there is; HEALTHY if nothing is     *)
(* unknown.                                                                *)
Overall(state, st) ==
  LET statuses == {st[s] : s \in Subsystem}
  IN IF state = "FAILED" \/ "FAILED" \in statuses THEN "FAILED"
     ELSE IF state = "DEGRADED" \/ "DEGRADED" \in statuses THEN "DEGRADED"
     ELSE IF statuses = {"HEALTHY"} THEN "HEALTHY" ELSE "UNKNOWN"

-----------------------------------------------------------------------------
(* save_to_file by thread t. *)

Save(t, s) == saving' = [saving EXCEPT ![t] = s]

BeginSave(t) ==
  /\ saving[t].pc = "idle"
  /\ Save(t, [Idle EXCEPT !.pc = "open", !.snapshot = service])
  /\ UNCHANGED <<published, tmpFile>>

\* Mutant: the snapshot is written to its final place.
OpenPublished(t) ==
  /\ saving[t].pc = "open"
  /\ published' = "empty"
  /\ Save(t, [saving[t] EXCEPT !.pc = "write", !.handle = "published"])
  /\ UNCHANGED tmpFile
(* open(tmp_file, "w"). *)
OpenTmp(t) ==
  /\ saving[t].pc = "open"
  /\ tmpFile' = "empty"
  /\ Save(t, [saving[t] EXCEPT !.pc = "write", !.handle = "tmp"])
  /\ UNCHANGED published

(* Over what another handle has written, a shorter text leaves its end. *)
Written(content, snapshot) ==
  IF content = "empty" THEN {snapshot} ELSE {snapshot, "garbled"}

(* The file is closed. *)
WriteTmp(t) ==
  /\ saving[t].pc = "write"
  /\ Save(t, [saving[t] EXCEPT !.pc = "publish", !.handle = "gone"])
  /\ CASE saving[t].handle = "tmp" ->
            tmpFile' \in Written(tmpFile, saving[t].snapshot) /\ UNCHANGED published
       [] saving[t].handle = "published" ->
            published' \in Written(published, saving[t].snapshot) /\ UNCHANGED tmpFile
       [] saving[t].handle = "gone" -> UNCHANGED <<published, tmpFile>>

(* A handle to the file that moves from one name to another. *)
Moved(from, to) ==
  [t \in Threads |->
     CASE saving[t].handle = from -> [saving[t] EXCEPT !.handle = to]
       [] saving[t].handle = "published" /\ to = "published" -> [saving[t] EXCEPT !.handle = "gone"]
       [] OTHER -> saving[t]]

(* The disk is full: the temporary file is removed, whoever opened it. *)
SaveFails(t) ==
  /\ saving[t].pc = "write"
  /\ tmpFile' = "none"
  /\ saving' = [Moved("tmp", "gone") EXCEPT ![t] = Idle]
  /\ \/ UNCHANGED published
     \/ saving[t].handle = "published" /\ published' = "garbled"

(* tmp_file.replace(p); if the other thread was faster there is nothing to *)
(* rename, which is ignored.                                               *)
Publish(t) ==
  /\ saving[t].pc = "publish"
  /\ IF tmpFile = "none" THEN Save(t, Idle) /\ UNCHANGED <<published, tmpFile>>
     ELSE /\ published' = tmpFile /\ tmpFile' = "none"
          /\ saving' = [Moved("tmp", "published") EXCEPT ![t] = Idle]

SaveStep(t) == OpenTmp(t) \/ WriteTmp(t) \/ Publish(t)

-----------------------------------------------------------------------------
(* load_from_file, for the commands: a snapshot, or nothing. *)
Readable(content) == content \in ServiceState
=============================================================================
