----------------------------- MODULE Submissions -----------------------------
(***************************************************************************)
(* The interviews of server/main.py.  A visitor uploads recordings to      *)
(* /interview/submit; an administrator approves or rejects what is listed. *)
(* A submission is a directory below pending, approved or rejected with a  *)
(* metadata file; its claims are a file among those that TacitRetriever    *)
(* loads.                                                                  *)
(*                                                                         *)
(* interview_submit and voice_transcribe are coroutines: they run on the   *)
(* event loop, and only an await lets another one run.  The endpoints of   *)
(* the administrator run on a pool of threads, at any time.                *)
(***************************************************************************)
EXTENDS Integers, Sequences, FiniteSets, FiniteSetsExt

CONSTANTS Sids,       \* submission ids
          Ips, IpOf,  \* whose requests they are
          Qids,       \* question ids
          Uploads,    \* recordings of a request
          Limit,      \* MAX_SUBMISSIONS_PER_IP_DAY
          Admins,     \* threads of the administrator
          Reloaders,  \* those among them that may ask for a reload
          Voices,     \* requests to /voice/transcribe
          MaxCrashes

ASSUME SidsAssumption == IsFiniteSet(Sids) /\ "none" \notin Sids
ASSUME SubmissionsAssumption ==
  /\ IpOf \in [Sids -> Ips] /\ Uploads \in Nat \ {0} /\ Limit \in Nat \ {0}
  /\ Reloaders \subseteq Admins /\ MaxCrashes \in Nat

Statuses == {"pending", "approved", "rejected"}
Loose == "free"

VARIABLES
  up,       \* where each upload is: "new", "reading", "accepted" or "failed"
  unread,   \* recordings still to be read
  recs,     \* audio_records: the questions of the recordings that were stored
  log,      \* _SUBMISSION_LOG: how many of an address in the last day
  loop,     \* who is on the event loop: a voice request or Loose
  dir,      \* the directory a submission is in, or "none"
  meta,     \* the status in its metadata.json, or "none"
  claims,   \* the questions its claims file has claims of, if written
  written,  \* the submissions with a claims file
  adm,      \* what each administrator's thread is doing
  served,   \* the submissions in the records of app.state.tacit
  \* Ghosts: the most uploads of an address at a time
  \* since it had none in its log, submissions hit by a
  \* crash, a failing disk or two decisions at once, those whose approval has
  \* returned, whether a late reload was the last one, and a count.
  peak, torn, approvedOk, overlap, crashes

uploadVars == <<up, unread, recs, log, peak>>
decisionVars == <<dir, meta, claims, written>>
adminVars == <<adm, served, approvedOk, overlap>>
subVars == <<uploadVars, loop, decisionVars, adminVars, torn, crashes>>

NoJob == [pc |-> "idle", op |-> "none", sid |-> "none", got |-> {}, scan |-> {}, late |-> FALSE]

SubInit ==
  /\ up = [s \in Sids |-> "new"] /\ unread = [s \in Sids |-> Uploads]
  /\ recs = [s \in Sids |-> {}]
  /\ log = [i \in Ips |-> 0] /\ peak = [i \in Ips |-> 0]
  /\ loop = Loose
  /\ dir = [s \in Sids |-> "none"] /\ meta = [s \in Sids |-> "none"]
  /\ claims = [s \in Sids |-> {}] /\ written = {}
  /\ adm = [a \in Admins |-> NoJob] /\ served = {}
  /\ torn = {} /\ approvedOk = {} /\ overlap = FALSE /\ crashes = 0

-----------------------------------------------------------------------------
(* interview_submit.                                                       *)

Underway(ip) == {s \in Sids : IpOf[s] = ip /\ up[s] = "reading"}

\* _rate_check, the checks of the form, and the directories.
Arrive(s) ==
  /\ loop = Loose /\ up[s] = "new"
  /\ \/ /\ log[IpOf[s]] >= Limit
        /\ up' = [up EXCEPT ![s] = "failed"] /\ UNCHANGED <<dir, peak>>
     \/ /\ log[IpOf[s]] < Limit
        /\ up' = [up EXCEPT ![s] = "reading"] /\ dir' = [dir EXCEPT ![s] = "pending"]
        /\ peak' = [peak EXCEPT ![IpOf[s]] = Max({@, Cardinality(Underway(IpOf[s])) + 1})]
  /\ UNCHANGED <<unread, recs, log, loop, meta, claims, written, adminVars, torn, crashes>>

\* A bad question id or a recording that is too large: rmtree.
ReadBad(s) ==
  /\ loop = Loose /\ up[s] = "reading" /\ unread[s] > 0
  /\ up' = [up EXCEPT ![s] = "failed"] /\ unread' = [unread EXCEPT ![s] = 0]
  /\ recs' = [recs EXCEPT ![s] = {}] /\ dir' = [dir EXCEPT ![s] = "none"]
  /\ UNCHANGED <<log, peak, loop, meta, claims, written, adminVars, torn, crashes>>

\* A recording; an empty one is skipped, and a second one of a question takes
\* the place of the first.
ReadOne(s) ==
  /\ loop = Loose /\ up[s] = "reading" /\ unread[s] > 0
  /\ unread' = [unread EXCEPT ![s] = @ - 1]
  /\ \E stored \in {{}} \cup {{q} : q \in Qids} : recs' = [recs EXCEPT ![s] = @ \cup stored]
  /\ UNCHANGED <<up, log, peak, loop, decisionVars, adminVars, torn, crashes>>

\* metadata.json, then _rate_record.
Accept(s) ==
  /\ loop = Loose /\ up[s] = "reading" /\ unread[s] = 0 /\ recs[s] # {}
  /\ up' = [up EXCEPT ![s] = "accepted"] /\ meta' = [meta EXCEPT ![s] = "pending"]
  /\ log' = [log EXCEPT ![IpOf[s]] = @ + 1]
  /\ UNCHANGED <<unread, recs, peak, loop, dir, claims, written, adminVars, torn, crashes>>

\* "all audio files were empty", or a disk that is full: the directory is
\* removed, unless it is the metadata that cannot be written.
RefuseEmpty(s) ==
  /\ loop = Loose /\ up[s] = "reading" /\ unread[s] = 0 /\ recs[s] = {}
  /\ up' = [up EXCEPT ![s] = "failed"] /\ dir' = [dir EXCEPT ![s] = "none"]
  /\ UNCHANGED <<unread, recs, log, peak, loop, meta, claims, written, adminVars, torn, crashes>>

MetadataFails(s) ==
  /\ loop = Loose /\ up[s] = "reading" /\ unread[s] = 0 /\ recs[s] # {}
  /\ up' = [up EXCEPT ![s] = "failed"] /\ torn' = torn \cup {s}
  /\ UNCHANGED <<unread, recs, log, peak, loop, decisionVars, adminVars, crashes>>

\* The oldest entry of an address is a day old.
Expire(ip) ==
  /\ log[ip] > 0 /\ log' = [log EXCEPT ![ip] = @ - 1]
  /\ peak' = IF log[ip] = 1 /\ Underway(ip) = {} THEN [peak EXCEPT ![ip] = 0] ELSE peak
  /\ UNCHANGED <<up, unread, recs, loop, decisionVars, adminVars, torn, crashes>>

-----------------------------------------------------------------------------
(* voice_transcribe: from the recording to the answer without an await.    *)

\* It matters to uploads under way only.
VoiceBegins(v) ==
  /\ loop = Loose /\ loop' = v /\ \E s \in Sids : up[s] = "reading"
  /\ UNCHANGED <<uploadVars, decisionVars, adminVars, torn, crashes>>

\* The worker, the script or Vertex has answered, is not there (503), has
\* failed (502), or has taken VOICE_TIMEOUT_SECONDS (504).
VoiceEnds(v) ==
  /\ loop = v /\ loop' = Loose
  /\ UNCHANGED <<uploadVars, decisionVars, adminVars, torn, crashes>>

-----------------------------------------------------------------------------
(* The administrator.                                                      *)

Shown == {s \in Sids : meta[s] # "none" /\ dir[s] # "none"}

Job(a, pc) == adm' = [adm EXCEPT ![a].pc = pc]
Done(a) == adm' = [adm EXCEPT ![a] = NoJob]

Deciding(s) == {a \in Admins : adm[a].sid = s}

\* _find_submission_dir and the check of both decisions: 409 for the others.
Decide(a, s, op) ==
  /\ adm[a] = NoJob /\ s \in Shown /\ dir[s] = "pending"
  /\ adm' = [adm EXCEPT ![a] = [NoJob EXCEPT !.op = op, !.sid = s,
               !.pc = IF op = "approve" THEN "transcribe" ELSE "move"]]
  /\ torn' = IF Deciding(s) = {} THEN torn ELSE torn \cup {s}
  /\ UNCHANGED <<uploadVars, loop, decisionVars, served, approvedOk, overlap, crashes>>

\* Minutes, a recording after the other; one that fails has no text, and
\* transcripts.json cannot be written to a directory that has moved.
Transcribe(a) ==
  LET s == adm[a].sid
  IN  /\ adm[a].pc = "transcribe"
      /\ IF dir[s] = "pending"
         THEN \E got \in SUBSET recs[s] : adm' = [adm EXCEPT ![a].pc = "claims", ![a].got = got]
         ELSE Done(a)
      /\ UNCHANGED <<uploadVars, loop, decisionVars, served, approvedOk, overlap,
                     torn, crashes>>

WriteClaims(a) ==
  LET s == adm[a].sid
  IN  /\ adm[a].pc = "claims"
      /\ claims' = [claims EXCEPT ![s] = adm[a].got] /\ written' = written \cup {s}
      /\ Job(a, "move")
      /\ UNCHANGED <<uploadVars, loop, dir, meta, served, approvedOk, overlap, torn, crashes>>

\* Mutant: the directory is moved from wherever it is by now.
MoveAgain(a) ==
  LET s == adm[a].sid
      status == IF adm[a].op = "approve" THEN "approved" ELSE "rejected"
  IN  /\ adm[a].pc = "move"
      /\ Job(a, "meta") /\ dir' = [dir EXCEPT ![s] = status]
      /\ UNCHANGED <<uploadVars, loop, meta, claims, written, served, approvedOk,
                     overlap, torn, crashes>>

\* sub_dir.rename(new_dir): fails if the other decision was faster.
Move(a) ==
  LET s == adm[a].sid
      status == IF adm[a].op = "approve" THEN "approved" ELSE "rejected"
  IN  /\ adm[a].pc = "move"
      /\ IF dir[s] = "pending"
         THEN Job(a, "meta") /\ dir' = [dir EXCEPT ![s] = status]
         ELSE Done(a) /\ UNCHANGED dir
      /\ UNCHANGED <<uploadVars, loop, meta, claims, written, served, approvedOk,
                     overlap, torn, crashes>>

\* metadata.json with the new status.
Restatus(a) ==
  LET s == adm[a].sid
  IN  /\ adm[a].pc = "meta"
      /\ meta' = [meta EXCEPT ![s] = dir[s]]
      /\ IF adm[a].op = "approve" THEN Job(a, "scan") ELSE Done(a)
      /\ UNCHANGED <<uploadVars, loop, dir, claims, written, served, approvedOk,
                     overlap, torn, crashes>>

\* /admin/tacit/reload.
Reload(a) ==
  /\ a \in Reloaders
  /\ adm[a] = NoJob /\ adm' = [adm EXCEPT ![a] = [NoJob EXCEPT !.op = "reload", !.pc = "scan"]]
  /\ UNCHANGED <<uploadVars, loop, decisionVars, served, approvedOk, overlap, torn, crashes>>

Claimed == {s \in written : claims[s] # {}}

\* reload_tacit_retriever reads the files and then assigns the retriever.
Scan(a) ==
  /\ adm[a].pc = "scan"
  /\ adm' = [adm EXCEPT ![a].pc = "publish", ![a].scan = Claimed]
  /\ UNCHANGED <<uploadVars, loop, decisionVars, served, approvedOk, overlap, torn, crashes>>

\* Whoever has read the files before is late now.
Published(a) ==
  adm' = [b \in Admins |-> CASE b = a -> NoJob
                             [] b # a /\ adm[b].pc = "publish" -> [adm[b] EXCEPT !.late = TRUE]
                             [] OTHER -> adm[b]]

\* Mutant: the new retriever is not assigned.
PublishStale(a) ==
  /\ adm[a].pc = "publish" /\ Published(a)
  /\ approvedOk' = IF adm[a].op = "approve" THEN approvedOk \cup {adm[a].sid} ELSE approvedOk
  /\ overlap' = adm[a].late
  /\ UNCHANGED <<uploadVars, loop, decisionVars, served, torn, crashes>>

Publish(a) ==
  /\ adm[a].pc = "publish"
  /\ served' = adm[a].scan /\ Published(a)
  /\ approvedOk' = IF adm[a].op = "approve" THEN approvedOk \cup {adm[a].sid} ELSE approvedOk
  /\ overlap' = adm[a].late
  /\ UNCHANGED <<uploadVars, loop, decisionVars, torn, crashes>>

\* The process dies and starts again: what was in memory is gone, and the
\* claims are loaded.
Restart ==
  /\ crashes < MaxCrashes /\ crashes' = crashes + 1
  /\ up' = [s \in Sids |-> IF up[s] = "reading" THEN "failed" ELSE up[s]]
  /\ unread' = [s \in Sids |-> IF up[s] = "reading" THEN 0 ELSE unread[s]]
  /\ recs' = [s \in Sids |-> IF up[s] = "reading" THEN {} ELSE recs[s]]
  /\ torn' = torn \cup {s \in Sids : up[s] = "reading" \/ Deciding(s) # {}}
  /\ log' = [i \in Ips |-> 0] /\ peak' = [i \in Ips |-> 0]
  /\ loop' = Loose
  /\ adm' = [a \in Admins |-> NoJob] /\ overlap' = FALSE
  /\ served' = Claimed
  /\ UNCHANGED <<decisionVars, approvedOk>>

Upload(s) == Arrive(s) \/ ReadOne(s) \/ ReadBad(s) \/ Accept(s) \/ RefuseEmpty(s) \/ MetadataFails(s)
Speak(v) == VoiceBegins(v) \/ VoiceEnds(v)
Proceed(a) == Transcribe(a) \/ WriteClaims(a) \/ Move(a) \/ Restatus(a) \/ Scan(a) \/ Publish(a)

SubNext ==
  \/ \E s \in Sids : Upload(s)
  \/ \E i \in Ips : Expire(i)
  \/ \E v \in Voices : Speak(v)
  \/ \E a \in Admins : \/ \E s \in Sids : Decide(a, s, "approve") \/ Decide(a, s, "reject")
                       \/ Reload(a) \/ Proceed(a)
  \/ Restart

\* The event loop serves whoever waits, and every model has a timeout.
SubFairness == /\ \A s \in Sids : SF_subVars(Upload(s))
               /\ \A v \in Voices : WF_subVars(VoiceEnds(v))
SubSpec == SubInit /\ [][SubNext]_subVars /\ SubFairness

-----------------------------------------------------------------------------
(* Properties.                                                             *)

\* Types of uploads, directories and threads.
SubTypeOK ==
  /\ up \in [Sids -> {"new", "reading", "accepted", "failed"}]
  /\ unread \in [Sids -> 0 .. Uploads] /\ recs \in [Sids -> SUBSET Qids]
  /\ log \in [Ips -> 0 .. Cardinality(Sids)]
  /\ loop \in Voices \cup {Loose}
  /\ dir \in [Sids -> Statuses \cup {"none"}] /\ meta \in [Sids -> Statuses \cup {"none"}]
  /\ written \subseteq Sids /\ served \subseteq Sids
  /\ \A a \in Admins : /\ adm[a].pc \in {"idle", "transcribe", "claims", "move", "meta",
                                         "scan", "publish"}
                       /\ adm[a].scan \subseteq Sids

\* What can be said of MAX_SUBMISSIONS_PER_IP_DAY when the count is checked
\* before the uploads and raised after them: an address gets as many too many
\* as it uploads at a time.
LimitPlusOverlap ==
  \A i \in Ips : log[i] <= Limit - 1 + Max({1, peak[i]})

\* A citizen is told an interview's claims only if it was approved, or is
\* being, unless a second decision or a crash came in between.
ServedIsApproved ==
  \A s \in served \ torn :
    dir[s] = "approved" \/ \E a \in Admins : adm[a].sid = s /\ adm[a].op = "approve"

\* An approval that has returned is served, unless a reload that began
\* before has overwritten it.
ApprovedIsServed ==
  ~overlap => \A s \in approvedOk \ torn : claims[s] # {} => s \in served

\* The status in the metadata is that of the directory when nobody is at
\* work on it.
MetadataAgrees ==
  \A s \in Sids \ torn : Deciding(s) = {} /\ meta[s] # "none" => meta[s] = dir[s]

\* No directory is left that no list shows, unless the disk or the process
\* failed.
NoOrphans ==
  \A s \in Sids \ torn : dir[s] # "none" /\ meta[s] = "none" => up[s] = "reading"

\* What is true of interviews at any time: the limit of an address, what is
\* served against what was decided, and the list against the directories.
InterviewsAreKept ==
  /\ SubTypeOK /\ LimitPlusOverlap /\ ServedIsApproved /\ ApprovedIsServed
  /\ MetadataAgrees /\ NoOrphans

\* A decision is final, whoever decides at the same time.
DecisionIsFinal ==
  [][\A s \in Sids : dir[s] \in {"approved", "rejected"} => dir'[s] = dir[s]]_subVars

\* The uploads end, although transcriptions take the event loop for as long as
\* they last.
UploadsEnd ==
  (\E s \in Sids : up[s] = "reading") ~> (\A s \in Sids : up[s] # "reading")
=============================================================================
