---------------------------- MODULE ServerProofs ----------------------------
(***************************************************************************)
(* Proofs about three parts of the server: Submissions, for any uploads,   *)
(* addresses, administrators, limits and crashes; SearchIndex, for any     *)
(* corpus, questions, crawler and builders; and Outreach, for any drafts,  *)
(* senders and deaths and whatever pages there are to search.              *)
(***************************************************************************)
EXTENDS GenerationProofs, Submissions, Outreach, SearchIndex

(***************************************************************************)
(* Interviews.                                                             *)
(***************************************************************************)
Stages == {"idle", "transcribe", "claims", "move", "meta", "scan", "publish"}

Jobs == [pc : Stages, op : {"none", "approve", "reject", "reload"},
         sid : Sids \cup {"none"}, got : SUBSET Qids, scan : SUBSET Sids, late : BOOLEAN]

(* What a thread does fits its request.                                    *)
JobIsSound(j) ==
  /\ j.pc = "idle" => j = NoJob
  /\ j.pc \in {"transcribe", "claims"} => j.op = "approve"
  /\ j.pc \in {"move", "meta"} => j.op \in {"approve", "reject"}
  /\ j.pc \in {"scan", "publish"} => j.op \in {"approve", "reload"}
  /\ j.sid \in Sids <=> j.op \in {"approve", "reject"}

TypesOK ==
  /\ SubTypeOK
  /\ claims \in [Sids -> SUBSET Qids] /\ peak \in [Ips -> Nat]
  /\ adm \in [Admins -> Jobs] /\ \A a \in Admins : JobIsSound(adm[a])
  /\ overlap \in BOOLEAN /\ approvedOk \subseteq Sids

(* The limit.  An upload under way has passed the check when the log was   *)
(* below the limit, together with those that were under way then.          *)
Accepted(ip) == {s \in Sids : IpOf[s] = ip /\ up[s] = "accepted"}

WithinLimit ==
  \A i \in Ips :
    /\ log[i] <= Cardinality(Accepted(i))
    /\ log[i] + Cardinality(Underway(i)) <= Limit - 1 + Max({1, peak[i]})

(* Only what was accepted is listed, decided on and has claims.            *)
OnlyAccepted ==
  \A s \in Sids :
    /\ meta[s] # "none" <=> up[s] = "accepted"
    /\ up[s] # "accepted" => Deciding(s) = {} /\ s \notin written
    /\ up[s] = "new" => dir[s] = "none"
    /\ up[s] = "reading" => dir[s] = "pending"
    /\ up[s] = "failed" /\ s \notin torn => dir[s] = "none"
    /\ up[s] = "accepted" => dir[s] # "none"
    /\ claims[s] # {} => s \in written

(* Unless it is torn, a submission has one decider at a time, who finds it *)
(* where he left it, and a list that tells the truth when he is done.      *)
FoundBy(a, s) ==
  /\ \A b \in Admins : adm[b].sid = s => b = a
  /\ adm[a].pc \in {"transcribe", "claims", "move"} => dir[s] = "pending"
  /\ adm[a].pc \in {"meta", "scan", "publish"} =>
       dir[s] = IF adm[a].op = "approve" THEN "approved" ELSE "rejected"
  /\ adm[a].pc \in {"scan", "publish"} => meta[s] = dir[s]

Concluded(s) ==
  /\ \A a \in Deciding(s) : FoundBy(a, s)
  /\ Deciding(s) = {} /\ up[s] = "accepted" => meta[s] = dir[s]
  /\ s \in approvedOk => dir[s] = "approved"

Decisions == \A s \in Sids \ torn : Concluded(s)

(* Claims are of interviews that are approved or are being.                *)
Approved(s) == dir[s] = "approved" \/ \E a \in Admins : adm[a].sid = s /\ adm[a].op = "approve"

HasClaims(s) == s \in written \/ s \in served \/ \E a \in Admins : s \in adm[a].scan

ClaimsApproved == \A s \in Sids \ torn : HasClaims(s) => Approved(s)

(* Who has read the claims files and is not late has read whatever was     *)
(* approved before, and his own.                                           *)
ScansAreFresh ==
  \A a \in Admins : adm[a].pc = "publish" =>
    \A s \in Sids \ torn :
      /\ s = adm[a].sid \/ (s \in approvedOk /\ ~adm[a].late)
      /\ claims[s] # {}
      => s \in adm[a].scan

SubInv == /\ TypesOK /\ WithinLimit /\ OnlyAccepted /\ Decisions
          /\ ClaimsApproved /\ ScansAreFresh /\ ApprovedIsServed
-----------------------------------------------------------------------------
LEMMA MaxOfTwo ==
  ASSUME NEW m \in Nat, NEW n \in Nat
  PROVE  /\ Max({m, n}) \in Nat /\ Max({m, n}) >= m /\ Max({m, n}) >= n
         /\ Max({m, n}) = m \/ Max({m, n}) = n
<1>1. \E x \in {m, n} : \A y \in {m, n} : x >= y
  <2>1. CASE m >= n
    BY <2>1
  <2>2. CASE n >= m
    BY <2>2
  <2> QED
    BY <2>1, <2>2
<1>2. Max({m, n}) \in {m, n} /\ \A y \in {m, n} : Max({m, n}) >= y
  BY <1>1 DEF Max
<1> QED
  BY <1>2

LEMMA Finite ==
  ASSUME NEW S \in SUBSET Sids
  PROVE  IsFiniteSet(S) /\ Cardinality(S) \in Nat /\ Cardinality(S) <= Cardinality(Sids)
BY SidsAssumption, FS_Subset, FS_CardinalityType

(* A thread that decides is about a submission.                            *)
LEMMA Decides ==
  ASSUME TypesOK, NEW a \in Admins,
         \/ adm[a].pc \in {"transcribe", "claims", "move", "meta"}
         \/ adm[a].pc \in {"scan", "publish"} /\ adm[a].op = "approve"
  PROVE  adm[a].sid \in Sids
BY DEF TypesOK, JobIsSound

(* Types of what a step writes, but for the log.                           *)
LEMMA AdminTypes ==
  ASSUME TypesOK, SubNext
  PROVE  /\ adm' \in [Admins -> Jobs] /\ \A a \in Admins : JobIsSound(adm'[a])
         /\ overlap' \in BOOLEAN /\ approvedOk' \subseteq Sids /\ served' \subseteq Sids
<1> DEFINE AdminOK == /\ adm \in [Admins -> Jobs] /\ \A a \in Admins : JobIsSound(adm[a])
                      /\ overlap \in BOOLEAN /\ approvedOk \subseteq Sids
                      /\ served \subseteq Sids
<1> SUFFICES AdminOK'
  OBVIOUS
<1>0. /\ AdminOK /\ SubTypeOK /\ NoJob \in Jobs /\ JobIsSound(NoJob)
      /\ \A s \in Sids : recs[s] \in SUBSET Qids
  BY SidsAssumption DEF TypesOK, SubTypeOK, NoJob, Jobs, Stages, JobIsSound
<1> USE SidsAssumption, <1>0
<1>1. CASE UNCHANGED adminVars
  BY <1>1 DEF adminVars
<1>a. ASSUME NEW a \in Admins, NEW j \in Jobs, JobIsSound(j),
             adm' = [adm EXCEPT ![a] = j], UNCHANGED <<overlap, approvedOk, served>>
      PROVE AdminOK'
  BY <1>a
<1>2. ASSUME NEW a \in Admins, NEW s \in Sids, NEW op \in {"approve", "reject"},
             Decide(a, s, op)
      PROVE AdminOK'
  <2> DEFINE j == [NoJob EXCEPT !.op = op, !.sid = s,
                     !.pc = IF op = "approve" THEN "transcribe" ELSE "move"]
  <2>1. j \in Jobs /\ JobIsSound(j)
    BY DEF NoJob, Jobs, Stages, JobIsSound
  <2> QED
    BY <1>2, <1>a, <2>1 DEF Decide
<1>3. ASSUME NEW a \in Admins, Reload(a) PROVE AdminOK'
  BY <1>3, ZenonT(60) DEF Reload, NoJob, Jobs, Stages, JobIsSound
<1>4. ASSUME NEW a \in Admins, Transcribe(a) PROVE AdminOK'
  <2>1. adm[a].sid \in Sids
    BY <1>4 DEF Transcribe, JobIsSound
  <2>2. CASE Done(a)
    BY <1>4, <2>2 DEF Transcribe, Done
  <2>3. CASE ~Done(a)
    <3>1. PICK heard \in SUBSET recs[adm[a].sid] :
            adm' = [adm EXCEPT ![a].pc = "claims", ![a].got = heard]
      BY <1>4, <2>3 DEF Transcribe
    <3>2. heard \in SUBSET Qids
      BY <2>1, <3>1
    <3> DEFINE j == [adm[a] EXCEPT !.pc = "claims", !.got = heard]
    <3>3. j \in Jobs /\ JobIsSound(j)
      BY <1>4, <3>2 DEF Transcribe, Jobs, Stages, JobIsSound
    <3> QED
      BY <1>4, <1>a, <3>1, <3>3 DEF Transcribe
  <2> QED
    BY <2>2, <2>3
<1>5. ASSUME NEW a \in Admins, WriteClaims(a) PROVE AdminOK'
  BY <1>5 DEF WriteClaims, Job, Jobs, Stages, JobIsSound
<1>6. ASSUME NEW a \in Admins, Move(a) PROVE AdminOK'
  BY <1>6 DEF Move, Job, Done, Jobs, Stages, JobIsSound
<1>7. ASSUME NEW a \in Admins, Restatus(a) PROVE AdminOK'
  BY <1>7 DEF Restatus, Job, Done, Jobs, Stages, JobIsSound
<1>8. ASSUME NEW a \in Admins, Scan(a) PROVE AdminOK'
  <2> DEFINE j == [adm[a] EXCEPT !.pc = "publish", !.scan = Claimed]
  <2>1. Claimed \in SUBSET Sids
    BY DEF Claimed, SubTypeOK
  <2>2. j \in Jobs /\ JobIsSound(j)
    BY <1>8, <2>1 DEF Scan, Jobs, Stages, JobIsSound
  <2> QED
    BY <1>8, <1>a, <2>2 DEF Scan
<1>9. ASSUME NEW a \in Admins, Publish(a) PROVE AdminOK'
  <2>1. ASSUME NEW b \in Admins PROVE adm'[b] \in Jobs /\ JobIsSound(adm'[b])
    <3>1. \/ adm'[b] = NoJob \/ adm'[b] = adm[b]
          \/ adm[b].pc = "publish" /\ adm'[b] = [adm[b] EXCEPT !.late = TRUE]
      BY <1>9 DEF Publish, Published
    <3> QED
      BY <3>1, ZenonT(60) DEF Jobs, JobIsSound
  <2>2. adm' \in [Admins -> Jobs]
    BY <1>9, <2>1 DEF Publish, Published
  <2>3. adm[a].late \in BOOLEAN /\ adm[a].scan \in SUBSET Sids
        /\ (adm[a].op = "approve" => adm[a].sid \in Sids)
    BY DEF Jobs, JobIsSound
  <2> QED
    BY <1>9, <2>1, <2>2, <2>3 DEF Publish
<1>10. CASE Restart
  BY <1>10 DEF Restart, Claimed, SubTypeOK
<1>11. ASSUME NEW s \in Sids, Upload(s) PROVE AdminOK'
  BY <1>1, <1>11 DEF Upload, Arrive, ReadOne, ReadBad, Accept, RefuseEmpty, MetadataFails
<1>12. CASE (\E i \in Ips : Expire(i)) \/ (\E v \in Voices : Speak(v))
  BY <1>1, <1>12 DEF Expire, Speak, VoiceBegins, VoiceEnds
<1> HIDE DEF AdminOK
<1> QED
  BY <1>2, <1>3, <1>4, <1>5, <1>6, <1>7, <1>8, <1>9, <1>10, <1>11, <1>12
     DEF SubNext, Proceed

LEMMA TypesStep ==
  ASSUME TypesOK, SubNext, log' \in [Ips -> 0 .. Cardinality(Sids)]
  PROVE  TypesOK'
<1>1. /\ adm' \in [Admins -> Jobs] /\ \A a \in Admins : JobIsSound(adm'[a])
      /\ overlap' \in BOOLEAN /\ approvedOk' \subseteq Sids /\ served' \subseteq Sids
  BY AdminTypes
<1>2. \A i \in Ips : Cardinality(Underway(i)) + 1 \in Nat
  BY Finite DEF Underway
<1> DEFINE UploadOK ==
             /\ up \in [Sids -> {"new", "reading", "accepted", "failed"}]
             /\ unread \in [Sids -> 0 .. Uploads] /\ recs \in [Sids -> SUBSET Qids]
             /\ loop \in Voices \cup {Loose} /\ peak \in [Ips -> Nat]
           FilesOK ==
             /\ dir \in [Sids -> Statuses \cup {"none"}]
             /\ meta \in [Sids -> Statuses \cup {"none"}]
             /\ written \subseteq Sids /\ claims \in [Sids -> SUBSET Qids]
<1>3. /\ UploadOK /\ FilesOK /\ Uploads \in Nat \ {0} /\ IpOf \in [Sids -> Ips]
      /\ adm \in [Admins -> Jobs]
  BY SubmissionsAssumption DEF TypesOK, SubTypeOK
<1>4. UploadOK'
  <2>1. ASSUME UNCHANGED <<up, unread, recs, peak, loop>> PROVE UploadOK'
    BY <1>3, <2>1
  <2>2. ASSUME NEW s \in Sids, Arrive(s) PROVE UploadOK'
    <3>1. Max({peak[IpOf[s]], Cardinality(Underway(IpOf[s])) + 1}) \in Nat
      BY <1>2, <1>3, MaxOfTwo
    <3> QED
      BY <1>3, <2>2, <3>1 DEF Arrive
  <2>3. ASSUME NEW s \in Sids, ReadOne(s) PROVE UploadOK'
    <3>1. PICK more \in {{}} \cup {{q} : q \in Qids} : recs' = [recs EXCEPT ![s] = @ \cup more]
      BY <2>3 DEF ReadOne
    <3>2. recs' \in [Sids -> SUBSET Qids]
      BY <1>3, <3>1
    <3>3. unread' \in [Sids -> 0 .. Uploads]
      BY <1>3, <2>3 DEF ReadOne
    <3> QED
      BY <1>3, <2>3, <3>2, <3>3 DEF ReadOne
  <2>4. ASSUME NEW s \in Sids,
               ReadBad(s) \/ Accept(s) \/ RefuseEmpty(s) \/ MetadataFails(s)
        PROVE UploadOK'
    BY <1>3, <2>4 DEF ReadBad, Accept, RefuseEmpty, MetadataFails
  <2>5. ASSUME NEW i \in Ips, Expire(i) PROVE UploadOK'
    BY <1>3, <2>5 DEF Expire
  <2>6. ASSUME NEW v \in Voices, Speak(v) PROVE UploadOK'
    BY <1>3, <2>6 DEF Speak, VoiceBegins, VoiceEnds, uploadVars
  <2>7. ASSUME NEW a \in Admins, NEW s \in Sids,
               Decide(a, s, "approve") \/ Decide(a, s, "reject")
        PROVE UploadOK'
    BY <2>1, <2>7 DEF Decide, uploadVars
  <2>8. ASSUME NEW a \in Admins, Reload(a) \/ Proceed(a) PROVE UploadOK'
    BY <2>1, <2>8 DEF Reload, Proceed, Transcribe, WriteClaims, Move, Restatus, Scan, Publish,
                      uploadVars
  <2>9. CASE Restart
    BY <1>3, <2>9 DEF Restart
  <2> HIDE DEF UploadOK
  <2> QED
    BY <2>2, <2>3, <2>4, <2>5, <2>6, <2>7, <2>8, <2>9 DEF SubNext, Upload
<1>5. FilesOK'
  <2>1. ASSUME UNCHANGED decisionVars PROVE FilesOK'
    BY <1>3, <2>1 DEF decisionVars
  <2>2. ASSUME NEW s \in Sids, Upload(s) PROVE FilesOK'
    BY <1>3, <2>1, <2>2 DEF Upload, Arrive, ReadOne, ReadBad, Accept, RefuseEmpty,
                            MetadataFails, Statuses
  <2>3. ASSUME NEW a \in Admins, WriteClaims(a) PROVE FilesOK'
    <3>1. adm[a].sid \in Sids /\ adm[a].got \in SUBSET Qids
      BY <1>3, <2>3, Decides DEF WriteClaims, Jobs
    <3> QED
      BY <1>3, <2>3, <3>1 DEF WriteClaims
  <2>4. ASSUME NEW a \in Admins, Move(a) \/ Restatus(a) PROVE FilesOK'
    <3>1. adm[a].sid \in Sids
      BY <2>4, Decides DEF Move, Restatus
    <3> QED
      BY <1>3, <2>4, <3>1 DEF Move, Restatus, Statuses
  <2> HIDE DEF FilesOK
  <2> QED
    BY <2>1, <2>2, <2>3, <2>4
       DEF SubNext, Proceed, Speak, Expire, VoiceBegins, VoiceEnds, Decide, Reload,
           Transcribe, Scan, Publish, Restart
<1> QED
  BY <1>1, <1>4, <1>5 DEF TypesOK, SubTypeOK, Jobs, Stages
-----------------------------------------------------------------------------
(* WithinLimit: Arrive finds the log below the limit and counts itself in  *)
(* the peak, Accept moves one upload from those under way to the log.      *)
LEMMA LimitStep ==
  ASSUME TypesOK, WithinLimit, SubNext
  PROVE  WithinLimit' /\ log' \in [Ips -> 0 .. Cardinality(Sids)]
<1> DEFINE Sum(i) == log[i] + Cardinality(Underway(i))
           Bound(i) == Limit - 1 + Max({1, peak[i]})
<1>1. /\ Limit \in Nat \ {0} /\ IpOf \in [Sids -> Ips]
      /\ log \in [Ips -> Nat] /\ peak \in [Ips -> Nat]
      /\ up \in [Sids -> {"new", "reading", "accepted", "failed"}]
  BY SubmissionsAssumption, Finite DEF TypesOK, SubTypeOK
<1>2. \A i \in Ips : /\ Underway(i) \subseteq Sids /\ Accepted(i) \subseteq Sids
                     /\ IsFiniteSet(Underway(i)) /\ Cardinality(Underway(i)) \in Nat
                     /\ IsFiniteSet(Accepted(i)) /\ Cardinality(Accepted(i)) \in Nat
  BY Finite DEF Underway, Accepted
<1>3. \A i \in Ips : Max({1, peak[i]}) \in Nat /\ Max({1, peak[i]}) >= 1
  BY <1>1, MaxOfTwo
<1>4. \A i \in Ips : log[i] <= Cardinality(Accepted(i)) /\ Sum(i) <= Bound(i)
  BY DEF WithinLimit
\* It is enough that the log is in step with the uploads.
<1>5. SUFFICES ASSUME NEW i \in Ips
               PROVE  /\ log'[i] \in Nat /\ log'[i] <= Cardinality(Accepted(i))'
                      /\ log'[i] + Cardinality(Underway(i))' <= Limit - 1 + Max({1, peak'[i]})
  <2>1. log' \in [Ips -> Nat]
    <3>1. \A j \in Ips : log'[j] \in Nat
      BY <1>5
    <3>2. DOMAIN log' = Ips /\ log' = [j \in Ips |-> log'[j]]
      BY <1>1 DEF SubNext, Upload, Arrive, ReadOne, ReadBad, Accept, RefuseEmpty,
             MetadataFails, Expire, Speak, VoiceBegins, VoiceEnds, Decide, Reload, Proceed,
             Transcribe, WriteClaims, Move, Restatus, Scan, Publish, Restart, uploadVars
    <3> QED
      BY <3>1, <3>2
  <2>2. \A j \in Ips : Cardinality(Accepted(j))' <= Cardinality(Sids)
    BY Finite DEF Accepted
  <2>3. \A j \in Ips : log'[j] <= Cardinality(Sids)
    <3>1. ASSUME NEW j \in Ips PROVE log'[j] <= Cardinality(Sids)
      <4>1. log'[j] <= Cardinality(Accepted(j))' /\ Cardinality(Accepted(j))' \in Nat
        BY <1>5, Finite DEF Accepted
      <4>2. log'[j] \in Nat /\ Cardinality(Sids) \in Nat
        BY <2>1, Finite
      <4> QED
        BY <2>2, <4>1, <4>2
    <3> QED
      BY <3>1
  <2>4. Cardinality(Sids) \in Nat
    BY Finite
  <2>5. log' \in [Ips -> 0 .. Cardinality(Sids)]
    BY <2>1, <2>3, <2>4
  <2> QED
    BY <1>5, <2>5 DEF WithinLimit
<1> DEFINE InStep == /\ log'[i] \in Nat /\ log'[i] <= Cardinality(Accepted(i))'
                     /\ log'[i] + Cardinality(Underway(i))' <= Limit - 1 + Max({1, peak'[i]})
<1>6. ASSUME UNCHANGED <<log, peak>>, Cardinality(Accepted(i))' = Cardinality(Accepted(i)),
             Cardinality(Underway(i))' <= Cardinality(Underway(i)),
             Cardinality(Underway(i))' \in Nat
      PROVE  InStep
  BY <1>1, <1>2, <1>3, <1>4, <1>6
<1>7. ASSUME UNCHANGED <<up, log, peak>>
      PROVE  InStep
  <2>1. Accepted(i)' = Accepted(i) /\ Underway(i)' = Underway(i)
    BY <1>7 DEF Accepted, Underway
  <2> QED
    BY <1>2, <1>6, <1>7, <2>1
<1>8. ASSUME NEW s \in Sids, Arrive(s), up'[s] = "failed"
      PROVE  InStep
  <2>1. /\ UNCHANGED <<log, peak>> /\ Accepted(i)' = Accepted(i)
        /\ Underway(i)' = Underway(i)
    BY <1>1, <1>8 DEF Arrive, Accepted, Underway
  <2> QED
    BY <1>2, <1>6, <2>1
<1>9. ASSUME NEW s \in Sids, Arrive(s), up'[s] # "failed"
      PROVE  InStep
  <2>1. /\ log' = log /\ log[IpOf[s]] < Limit /\ up[s] = "new"
        /\ up' = [up EXCEPT ![s] = "reading"]
        /\ peak' = [peak EXCEPT ![IpOf[s]] = Max({@, Cardinality(Underway(IpOf[s])) + 1})]
    BY <1>1, <1>9 DEF Arrive
  <2>2. Accepted(i)' = Accepted(i)
    BY <1>1, <2>1 DEF Accepted
  <2>3. CASE i # IpOf[s]
    <3>1. Underway(i)' = Underway(i) /\ peak'[i] = peak[i]
      BY <1>1, <2>1, <2>3 DEF Underway
    <3> QED
      BY <1>1, <1>2, <1>3, <1>4, <2>1, <2>2, <3>1
  <2>4. CASE i = IpOf[s]
    <3>1. Underway(i)' = Underway(i) \cup {s} /\ s \notin Underway(i)
      BY <1>1, <2>1, <2>4 DEF Underway
    <3>2. Cardinality(Underway(i))' = Cardinality(Underway(i)) + 1
      BY <1>2, <3>1, FS_AddElement
    <3>3. peak'[i] \in Nat /\ peak'[i] >= Cardinality(Underway(i)) + 1
      BY <1>1, <1>2, <2>1, <2>4, MaxOfTwo
    <3>4. Max({1, peak'[i]}) \in Nat /\ Max({1, peak'[i]}) >= peak'[i]
      BY <3>3, MaxOfTwo
    <3>5. /\ log'[i] = log[i] /\ log[i] \in Nat /\ log[i] < Limit /\ Limit \in Nat
          /\ Cardinality(Underway(i)) \in Nat
      BY <1>1, <1>2, <2>1, <2>4
    <3>6. log[i] + Cardinality(Underway(i))' <= Limit - 1 + Max({1, peak'[i]})
      BY <3>2, <3>3, <3>4, <3>5
    <3>7. log'[i] <= Cardinality(Accepted(i))'
      BY <1>4, <2>1, <2>2
    <3> QED
      BY <3>5, <3>6, <3>7
  <2> QED
    BY <2>3, <2>4
<1>10. ASSUME NEW s \in Sids, ReadBad(s) \/ RefuseEmpty(s) \/ MetadataFails(s)
       PROVE  InStep
  <2>1. /\ UNCHANGED <<log, peak>> /\ up[s] = "reading"
        /\ up' = [up EXCEPT ![s] = "failed"]
    BY <1>10 DEF ReadBad, RefuseEmpty, MetadataFails
  <2>2. Accepted(i)' = Accepted(i) /\ Underway(i)' \subseteq Underway(i)
    BY <1>1, <2>1 DEF Accepted, Underway
  <2>3. /\ Cardinality(Underway(i))' <= Cardinality(Underway(i))
        /\ Cardinality(Underway(i))' \in Nat
    BY <1>2, <2>2, FS_Subset, FS_CardinalityType
  <2> QED
    BY <1>6, <2>1, <2>2, <2>3
<1>11. ASSUME NEW s \in Sids, Accept(s)
       PROVE  InStep
  <2>1. /\ peak' = peak /\ up[s] = "reading" /\ up' = [up EXCEPT ![s] = "accepted"]
        /\ log' = [log EXCEPT ![IpOf[s]] = @ + 1]
    BY <1>11 DEF Accept
  <2>2. CASE i # IpOf[s]
    <3>1. Underway(i)' = Underway(i) /\ Accepted(i)' = Accepted(i) /\ log'[i] = log[i]
      BY <1>1, <2>1, <2>2 DEF Underway, Accepted
    <3> QED
      BY <1>1, <1>4, <2>1, <3>1
  <2>3. CASE i = IpOf[s]
    <3>1. /\ Underway(i)' = Underway(i) \ {s} /\ s \in Underway(i)
          /\ Accepted(i)' = Accepted(i) \cup {s} /\ s \notin Accepted(i)
          /\ log'[i] = log[i] + 1
      BY <1>1, <2>1, <2>3 DEF Underway, Accepted
    <3>2. Cardinality(Underway(i))' = Cardinality(Underway(i)) - 1
      BY <1>2, <3>1, FS_RemoveElement
    <3>3. Cardinality(Accepted(i))' = Cardinality(Accepted(i)) + 1
      BY <1>2, <3>1, FS_AddElement
    <3> QED
      BY <1>1, <1>2, <1>3, <1>4, <2>1, <3>1, <3>2, <3>3
  <2> QED
    BY <2>2, <2>3
<1>12. ASSUME NEW j \in Ips, Expire(j)
       PROVE  InStep
  <2>1. Underway(i)' = Underway(i) /\ Accepted(i)' = Accepted(i)
    BY <1>12 DEF Expire, Underway, Accepted
  <2>2. CASE peak' = peak
    <3>1. log'[i] \in Nat /\ log'[i] <= log[i]
      BY <1>1, <1>12 DEF Expire
    <3> QED
      BY <1>1, <1>2, <1>3, <1>4, <2>1, <2>2, <3>1
  <2>3. CASE peak' # peak
    <3>1. /\ log[j] = 1 /\ Underway(j) = {} /\ peak' = [peak EXCEPT ![j] = 0]
          /\ log' = [log EXCEPT ![j] = @ - 1]
      BY <1>12, <2>3 DEF Expire
    <3>2. CASE i # j
      BY <1>1, <1>2, <1>3, <1>4, <2>1, <3>1, <3>2
    <3>3. CASE i = j
      <4>1. log'[i] = 0 /\ peak'[i] = 0 /\ Cardinality(Underway(i)) = 0
        BY <1>1, <3>1, <3>3, FS_EmptySet
      <4>2. Max({1, peak'[i]}) \in Nat /\ Max({1, peak'[i]}) >= 1
        BY <4>1, MaxOfTwo
      <4> QED
        BY <1>1, <1>2, <2>1, <4>1, <4>2
    <3> QED
      BY <3>2, <3>3
  <2> QED
    BY <2>2, <2>3
<1>13. ASSUME Restart
       PROVE  InStep
  <2>1. Underway(i)' = {} /\ Accepted(i)' = Accepted(i) /\ log'[i] = 0 /\ peak'[i] = 0
    BY <1>1, <1>13 DEF Restart, Underway, Accepted
  <2>2. Max({1, peak'[i]}) \in Nat /\ Max({1, peak'[i]}) >= 1
    BY <2>1, MaxOfTwo
  <2>3. Cardinality(Underway(i))' = 0
    BY <2>1, FS_EmptySet
  <2> QED
    BY <1>1, <1>2, <2>1, <2>2, <2>3
<1>14. ASSUME NEW s \in Sids, ReadOne(s) PROVE UNCHANGED <<up, log, peak>>
  BY <1>14 DEF ReadOne
<1>15. ASSUME NEW v \in Voices, Speak(v) PROVE UNCHANGED <<up, log, peak>>
  BY <1>15 DEF Speak, VoiceBegins, VoiceEnds, uploadVars
<1>16. ASSUME NEW a \in Admins, \/ \E s \in Sids : Decide(a, s, "approve") \/ Decide(a, s, "reject")
                                \/ Reload(a) \/ Proceed(a)
       PROVE UNCHANGED <<up, log, peak>>
  BY <1>16 DEF Decide, Reload, Proceed, Transcribe, WriteClaims, Move, Restatus, Scan,
               Publish, uploadVars
<1> QED
  BY <1>7, <1>8, <1>9, <1>10, <1>11, <1>12, <1>13, <1>14, <1>15, <1>16 DEF SubNext, Upload
-----------------------------------------------------------------------------
(* What a thread is about only changes when it takes up a submission that  *)
(* is listed as pending, or is done.                                       *)
LEMMA SidStep ==
  ASSUME TypesOK, SubNext, NEW b \in Admins
  PROVE  \/ adm'[b].sid = adm[b].sid
         \/ adm'[b].sid = "none"
         \/ adm'[b].sid \in Shown /\ dir[adm'[b].sid] = "pending"
<1>1. adm \in [Admins -> Jobs]
  BY DEF TypesOK
<1>2. CASE UNCHANGED adm
  BY <1>2
<1>3. ASSUME NEW a \in Admins, NEW s \in Sids, NEW op \in {"approve", "reject"},
             Decide(a, s, op)
      PROVE adm'[b].sid = adm[b].sid \/ (adm'[b].sid \in Shown /\ dir[adm'[b].sid] = "pending")
  BY <1>1, <1>3 DEF Decide, NoJob
<1>4. ASSUME NEW a \in Admins, Reload(a) \/ Proceed(a)
      PROVE adm'[b].sid = adm[b].sid \/ adm'[b].sid = "none"
  <2>1. CASE Publish(a)
    BY <1>1, <2>1 DEF Publish, Published, NoJob, Jobs
  <2>2. CASE Transcribe(a)
    <3>1. \/ Done(a)
          \/ \E heard : adm' = [adm EXCEPT ![a].pc = "claims", ![a].got = heard]
      BY <2>2 DEF Transcribe
    <3> QED
      BY <1>1, <3>1 DEF Done, NoJob, Jobs
  <2>3. CASE Reload(a)
    BY <1>1, <2>3 DEF Reload, NoJob
  <2>5. CASE Scan(a)
    BY <1>1, <2>5 DEF Scan
  <2>4. CASE WriteClaims(a) \/ Move(a) \/ Restatus(a)
    <3>1. Done(a) \/ \E to : Job(a, to)
      BY <2>4 DEF WriteClaims, Move, Restatus
    <3> QED
      BY <1>1, <3>1 DEF Done, Job, NoJob, Jobs
  <2> QED
    BY <1>4, <2>1, <2>2, <2>3, <2>4, <2>5 DEF Proceed
<1>5. CASE Restart
  BY <1>5 DEF Restart, NoJob
<1> QED
  BY <1>2, <1>3, <1>4, <1>5
     DEF SubNext, Upload, Arrive, ReadOne, ReadBad, Accept, RefuseEmpty, MetadataFails,
         Expire, Speak, VoiceBegins, VoiceEnds, adminVars

(* OnlyAccepted: metadata.json is written last, and nothing is done with a *)
(* submission that has none.                                               *)
LEMMA OnlyAcceptedStep ==
  ASSUME TypesOK, OnlyAccepted, SubNext
  PROVE  OnlyAccepted'
<1>0. /\ up \in [Sids -> {"new", "reading", "accepted", "failed"}]
      /\ dir \in [Sids -> Statuses \cup {"none"}] /\ meta \in [Sids -> Statuses \cup {"none"}]
      /\ claims \in [Sids -> SUBSET Qids] /\ "none" \notin Sids /\ adm \in [Admins -> Jobs]
  BY SidsAssumption DEF TypesOK, SubTypeOK
<1> SUFFICES ASSUME NEW x \in Sids
             PROVE  /\ meta'[x] # "none" <=> up'[x] = "accepted"
                    /\ up'[x] # "accepted" => Deciding(x)' = {} /\ x \notin written'
                    /\ up'[x] = "new" => dir'[x] = "none"
                    /\ up'[x] = "reading" => dir'[x] = "pending"
                    /\ up'[x] = "failed" /\ x \notin torn' => dir'[x] = "none"
                    /\ up'[x] = "accepted" => dir'[x] # "none"
                    /\ claims'[x] # {} => x \in written'
  BY DEF OnlyAccepted
<1> DEFINE Ok == /\ meta[x] # "none" <=> up[x] = "accepted"
                 /\ up[x] # "accepted" => Deciding(x) = {} /\ x \notin written
                 /\ up[x] = "new" => dir[x] = "none"
                 /\ up[x] = "reading" => dir[x] = "pending"
                 /\ up[x] = "failed" /\ x \notin torn => dir[x] = "none"
                 /\ up[x] = "accepted" => dir[x] # "none"
                 /\ claims[x] # {} => x \in written
<1>1. Ok
  BY DEF OnlyAccepted
<1>2. up[x] # "accepted" => Deciding(x)' = {}
  <2>1. up[x] # "accepted" => meta[x] = "none" /\ \A b \in Admins : adm[b].sid # x
    BY <1>1 DEF Deciding
  <2> QED
    BY <1>0, <2>1, SidStep DEF Deciding, Shown
<1>3. ASSUME NEW s \in Sids, Upload(s) PROVE Ok'
  <2>1. UNCHANGED <<claims, written>> /\ torn \subseteq torn'
    BY <1>3 DEF Upload, Arrive, ReadOne, ReadBad, Accept, RefuseEmpty, MetadataFails,
                decisionVars
  <2>2. x # s => UNCHANGED <<up[x], dir[x], meta[x]>>
    BY <1>0, <1>3 DEF Upload, Arrive, ReadOne, ReadBad, Accept, RefuseEmpty, MetadataFails,
                      decisionVars
  <2>3. CASE x # s
    BY <1>1, <1>2, <2>1, <2>2, <2>3
  <2>4. CASE x = s
    <3>1. CASE Arrive(s)
      BY <1>0, <1>1, <1>2, <2>1, <2>4, <3>1 DEF Arrive
    <3>2. CASE ReadOne(s)
      BY <1>0, <1>1, <1>2, <2>1, <2>4, <3>2 DEF ReadOne, decisionVars
    <3>3. CASE ReadBad(s) \/ RefuseEmpty(s)
      BY <1>0, <1>1, <1>2, <2>1, <2>4, <3>3 DEF ReadBad, RefuseEmpty
    <3>4. CASE Accept(s)
      BY <1>0, <1>1, <2>1, <2>4, <3>4 DEF Accept
    <3>5. CASE MetadataFails(s)
      BY <1>0, <1>1, <1>2, <2>1, <2>4, <3>5 DEF MetadataFails, decisionVars
    <3> QED
      BY <1>3, <3>1, <3>2, <3>3, <3>4, <3>5 DEF Upload
  <2> QED
    BY <2>3, <2>4
<1>4. ASSUME UNCHANGED <<up, decisionVars>>, torn \subseteq torn' PROVE Ok'
  BY <1>1, <1>2, <1>4 DEF decisionVars
<1>5. ASSUME (\E i \in Ips : Expire(i)) \/ \E v \in Voices : Speak(v) PROVE Ok'
  BY <1>4, <1>5 DEF Expire, Speak, VoiceBegins, VoiceEnds, uploadVars
<1>6. ASSUME NEW a \in Admins, Reload(a) \/ Transcribe(a) \/ Scan(a) \/ Publish(a)
      PROVE Ok'
  BY <1>4, <1>6 DEF Reload, Transcribe, Scan, Publish, uploadVars
<1>d. ASSUME NEW a \in Admins, NEW s \in Sids, NEW op \in {"approve", "reject"},
             Decide(a, s, op)
      PROVE Ok'
  BY <1>4, <1>d DEF Decide, uploadVars
<1>7. ASSUME NEW a \in Admins, WriteClaims(a) \/ Move(a) \/ Restatus(a) PROVE Ok'
  <2>1. adm[a].sid \in Sids /\ up[adm[a].sid] = "accepted" /\ dir[adm[a].sid] # "none"
    <3>1. adm[a].sid \in Sids
      BY <1>7, Decides DEF WriteClaims, Move, Restatus
    <3> QED
      BY <3>1 DEF OnlyAccepted, Deciding
  <2>2. UNCHANGED <<up, torn>>
    BY <1>7 DEF WriteClaims, Move, Restatus, uploadVars
  <2>3. CASE WriteClaims(a)
    BY <1>0, <1>1, <1>2, <2>1, <2>2, <2>3 DEF WriteClaims
  <2>4. CASE Move(a)
    BY <1>0, <1>1, <1>2, <2>1, <2>2, <2>4 DEF Move
  <2>5. CASE Restatus(a)
    BY <1>0, <1>1, <1>2, <2>1, <2>2, <2>5 DEF Restatus
  <2> QED
    BY <1>7, <2>3, <2>4, <2>5
<1>8. ASSUME Restart PROVE Ok'
  BY <1>0, <1>1, <1>2, <1>8 DEF Restart, decisionVars
<1> HIDE DEF Ok
<1>9. Ok'
  <2>1. CASE \E s \in Sids : Upload(s)
    BY <1>3, <2>1
  <2>2. ASSUME NEW a \in Admins, NEW s \in Sids,
               Decide(a, s, "approve") \/ Decide(a, s, "reject")
        PROVE Ok'
    BY <1>d, <2>2
  <2>3. ASSUME NEW a \in Admins, Reload(a) \/ Proceed(a) PROVE Ok'
    BY <1>6, <1>7, <2>3 DEF Proceed
  <2> QED
    BY <1>5, <1>8, <2>1, <2>2, <2>3 DEF SubNext
<1> QED
  BY <1>9 DEF Ok
-----------------------------------------------------------------------------
(* A crash or a second decision is never forgotten.                        *)
LEMMA TornGrows ==
  ASSUME SubNext PROVE torn \subseteq torn'
BY DEF SubNext, Upload, Arrive, ReadOne, ReadBad, Accept, RefuseEmpty, MetadataFails, Expire,
       Speak, VoiceBegins, VoiceEnds, Decide, Reload, Proceed, Transcribe, WriteClaims, Move,
       Restatus, Scan, Publish, Restart

(* Decisions: the rename succeeds for the only decider there is, and who   *)
(* comes second tears the submission.                                      *)
LEMMA DecisionsStep ==
  ASSUME TypesOK, OnlyAccepted, Decisions, SubNext
  PROVE  Decisions'
<1>0. /\ up \in [Sids -> {"new", "reading", "accepted", "failed"}]
      /\ dir \in [Sids -> Statuses \cup {"none"}] /\ meta \in [Sids -> Statuses \cup {"none"}]
      /\ "none" \notin Sids /\ adm \in [Admins -> Jobs]
      /\ \A a \in Admins : adm[a].pc = "idle" => adm[a].sid = "none"
  BY SidsAssumption DEF TypesOK, SubTypeOK, JobIsSound, NoJob
<1> SUFFICES ASSUME NEW x \in Sids, x \notin torn'
             PROVE  Concluded(x)'
  BY DEF Decisions
<1>1. x \notin torn /\ Concluded(x)
  BY TornGrows DEF Decisions
<1>2. up[x] # "accepted" => Deciding(x) = {} /\ dir[x] # "approved"
  BY <1>0, <1>1 DEF OnlyAccepted
<1>3. ASSUME UNCHANGED <<up, dir, meta, approvedOk, adm>> PROVE Concluded(x)'
  BY <1>1, <1>3 DEF Concluded, FoundBy, Deciding
<1>4. ASSUME NEW s \in Sids, Upload(s) PROVE Concluded(x)'
  <2>1. UNCHANGED <<adm, approvedOk>>
    BY <1>4 DEF Upload, Arrive, ReadOne, ReadBad, Accept, RefuseEmpty, MetadataFails, adminVars
  <2>2. up[s] # "accepted"
    BY <1>4 DEF Upload, Arrive, ReadOne, ReadBad, Accept, RefuseEmpty, MetadataFails
  <2>3. CASE x # s
    <3>1. UNCHANGED <<up[x], dir[x], meta[x]>>
      BY <1>0, <1>4, <2>3 DEF Upload, Arrive, ReadOne, ReadBad, Accept, RefuseEmpty,
                              MetadataFails, decisionVars
    <3> QED
      BY <1>1, <2>1, <3>1 DEF Concluded, FoundBy, Deciding
  <2>4. CASE x = s
    <3>1. Deciding(x)' = {} /\ x \notin approvedOk'
      BY <1>1, <1>2, <2>1, <2>2, <2>4 DEF Concluded, Deciding
    <3>2. up'[x] = "accepted" => meta'[x] = dir'[x]
      BY <1>0, <1>4, <2>4 DEF Upload, Arrive, ReadOne, ReadBad, Accept, RefuseEmpty,
                              MetadataFails, decisionVars, OnlyAccepted
    <3> QED
      BY <3>1, <3>2 DEF Concluded
  <2> QED
    BY <2>3, <2>4
<1>5. ASSUME (\E i \in Ips : Expire(i)) \/ \E v \in Voices : Speak(v) PROVE Concluded(x)'
  BY <1>3, <1>5 DEF Expire, Speak, VoiceBegins, VoiceEnds, uploadVars, decisionVars, adminVars
<1>6. ASSUME NEW a \in Admins, NEW s \in Sids, NEW op \in {"approve", "reject"},
             Decide(a, s, op)
      PROVE Concluded(x)'
  <2> DEFINE j == [NoJob EXCEPT !.op = op, !.sid = s,
                     !.pc = IF op = "approve" THEN "transcribe" ELSE "move"]
  <2>1. /\ UNCHANGED <<up, dir, meta, approvedOk>> /\ adm' = [adm EXCEPT ![a] = j]
        /\ adm[a].sid = "none" /\ dir[s] = "pending"
        /\ s \notin torn' => Deciding(s) = {}
    <3>1. adm[a] = NoJob
      BY <1>6 DEF Decide
    <3>2. adm[a].sid = "none"
      BY <3>1 DEF NoJob
    <3> QED
      BY <1>6, <3>2 DEF Decide, decisionVars, uploadVars
  <2>2. j.sid = s /\ j.pc \in {"transcribe", "move"}
    BY DEF NoJob
  <2>3. \A b \in Admins : b # a => adm'[b] = adm[b]
    BY <1>0, <2>1
  <2>4. adm'[a] = j
    BY <1>0, <2>1
  <2> HIDE DEF j
  <2>5. CASE x # s
    <3>1. Deciding(x)' = Deciding(x)
      BY <1>0, <2>1, <2>2, <2>3, <2>4, <2>5 DEF Deciding
    <3>2. a \notin Deciding(x) /\ adm'[a].sid # x
      BY <1>0, <2>1, <2>2, <2>4, <2>5 DEF Deciding
    <3> QED
      BY <1>1, <2>1, <2>3, <3>1, <3>2 DEF Concluded, FoundBy, Deciding
  <2>6. CASE x = s
    <3>1. Deciding(x) = {}
      BY <2>1, <2>6
    <3>2. Deciding(x)' = {a}
      BY <2>2, <2>3, <2>4, <2>6, <3>1 DEF Deciding
    <3>3. FoundBy(a, x)'
      BY <2>1, <2>2, <2>3, <2>4, <2>6, <3>1 DEF FoundBy, Deciding
    <3> QED
      BY <1>1, <2>1, <3>2, <3>3 DEF Concluded
  <2> QED
    BY <2>5, <2>6
\* A thread that is about another submission.
<1>7. ASSUME NEW a \in Admins, adm[a].sid # x, adm'[a].sid # x,
             \A b \in Admins : b # a => /\ adm'[b].sid = adm[b].sid /\ adm'[b].pc = adm[b].pc
                                       /\ adm'[b].op = adm[b].op,
             UNCHANGED <<up, dir[x], meta[x]>>, x \in approvedOk' <=> x \in approvedOk
      PROVE Concluded(x)'
  <2>1. Deciding(x)' = Deciding(x) /\ a \notin Deciding(x)
    BY <1>7 DEF Deciding
  <2>2. \A b \in Deciding(x) : FoundBy(b, x)'
    BY <1>1, <1>7, <2>1 DEF Concluded, FoundBy, Deciding
  <2> QED
    BY <1>1, <1>7, <2>1, <2>2 DEF Concluded
\* The thread that is about this one and goes on with it.
<1>8. ASSUME NEW a \in Admins, NEW j, adm' = [adm EXCEPT ![a] = j], adm[a].sid = x, j.sid = x,
             /\ j.pc \in {"transcribe", "claims", "move"} => dir'[x] = "pending"
             /\ j.pc \in {"meta", "scan", "publish"} =>
                  dir'[x] = IF j.op = "approve" THEN "approved" ELSE "rejected"
             /\ j.pc \in {"scan", "publish"} => meta'[x] = dir'[x],
             x \in approvedOk' => dir'[x] = "approved"
      PROVE Concluded(x)'
  <2>1. /\ adm'[a] = j /\ \A b \in Admins : b # a => adm'[b] = adm[b]
    BY <1>0, <1>8
  <2>2. \A b \in Admins : adm[b].sid = x => b = a
    BY <1>1, <1>8 DEF Concluded, FoundBy, Deciding
  <2>3. Deciding(x)' = {a}
    BY <1>8, <2>1, <2>2 DEF Deciding
  <2>4. FoundBy(a, x)'
    BY <1>8, <2>1, <2>2 DEF FoundBy
  <2> QED
    BY <1>8, <2>3, <2>4 DEF Concluded
\* The thread that is about this one and is done.
<1>9. ASSUME NEW a \in Admins, adm[a].sid = x, adm'[a].sid = "none",
             \A b \in Admins : b # a => adm'[b].sid = adm[b].sid,
             meta'[x] = dir'[x], x \in approvedOk' => dir'[x] = "approved"
      PROVE Concluded(x)'
  <2>1. \A b \in Admins : adm[b].sid = x => b = a
    BY <1>1, <1>9 DEF Concluded, FoundBy, Deciding
  <2>2. Deciding(x)' = {}
    BY <1>0, <1>9, <2>1 DEF Deciding
  <2> QED
    BY <1>9, <2>2 DEF Concluded
<1>10. ASSUME NEW a \in Admins, adm[a].sid = x PROVE FoundBy(a, x)
  BY <1>1, <1>10 DEF Concluded, Deciding
<1>11. ASSUME NEW a \in Admins, Reload(a) PROVE Concluded(x)'
  BY <1>0, <1>7, <1>11 DEF Reload, NoJob, uploadVars, decisionVars
<1>12. ASSUME NEW a \in Admins, Transcribe(a) PROVE Concluded(x)'
  <2>1. CASE dir[adm[a].sid] = "pending"
    <3>1. PICK heard \in SUBSET recs[adm[a].sid] :
            adm' = [adm EXCEPT ![a].pc = "claims", ![a].got = heard]
      BY <1>12, <2>1 DEF Transcribe
    <3> DEFINE j == [adm[a] EXCEPT !.pc = "claims", !.got = heard]
    <3>2. /\ adm' = [adm EXCEPT ![a] = j] /\ j.sid = adm[a].sid /\ j.pc = "claims"
          /\ UNCHANGED <<up, dir, meta, approvedOk>>
      BY <1>0, <1>12, <3>1 DEF Transcribe, uploadVars, decisionVars, Jobs
    <3> HIDE DEF j
    <3>3. CASE adm[a].sid = x
      BY <1>1, <1>8, <2>1, <3>2, <3>3 DEF Concluded
    <3>4. CASE adm[a].sid # x
      BY <1>0, <1>7, <3>2, <3>4
    <3> QED
      BY <3>3, <3>4
  <2>2. CASE dir[adm[a].sid] # "pending"
    <3>1. adm[a].sid # x
      BY <1>10, <1>12, <2>2 DEF Transcribe, FoundBy
    <3>2. Done(a) /\ UNCHANGED <<up, dir, meta, approvedOk>>
      BY <1>12, <2>2 DEF Transcribe, uploadVars, decisionVars
    <3> QED
      BY <1>0, <1>7, <3>1, <3>2 DEF Done, NoJob
  <2> QED
    BY <2>1, <2>2
<1>13. ASSUME NEW a \in Admins, WriteClaims(a) \/ Scan(a) PROVE Concluded(x)'
  <2>1. PICK j : /\ adm' = [adm EXCEPT ![a] = j] /\ j.sid = adm[a].sid /\ j.op = adm[a].op
                 /\ \/ adm[a].pc = "claims" /\ j.pc = "move"
                    \/ adm[a].pc = "scan" /\ j.pc = "publish"
    <3>1. CASE WriteClaims(a)
      <4> DEFINE j == [adm[a] EXCEPT !.pc = "move"]
      <4>1. adm' = [adm EXCEPT ![a] = j] /\ j.sid = adm[a].sid /\ j.op = adm[a].op /\ j.pc = "move"
        BY <1>0, <3>1 DEF WriteClaims, Job, Jobs
      <4> QED
        BY <3>1, <4>1 DEF WriteClaims
    <3>2. CASE Scan(a)
      <4> DEFINE j == [adm[a] EXCEPT !.pc = "publish", !.scan = Claimed]
      <4>1. /\ adm' = [adm EXCEPT ![a] = j] /\ j.sid = adm[a].sid /\ j.op = adm[a].op
            /\ j.pc = "publish"
        BY <1>0, <3>2 DEF Scan, Jobs
      <4> QED
        BY <3>2, <4>1 DEF Scan
    <3> QED
      BY <1>13, <3>1, <3>2
  <2>2. UNCHANGED <<up, dir, meta, approvedOk>>
    BY <1>13 DEF WriteClaims, Scan, uploadVars, decisionVars
  <2>3. CASE adm[a].sid = x
    <3>1. FoundBy(a, x) /\ (x \in approvedOk => dir[x] = "approved")
      BY <1>1, <1>10, <2>3 DEF Concluded
    <3>2. /\ j.pc = "move" => dir'[x] = "pending"
          /\ j.pc = "publish" => /\ dir'[x] = IF j.op = "approve" THEN "approved" ELSE "rejected"
                                 /\ meta'[x] = dir'[x]
      BY <2>1, <2>2, <2>3, <3>1 DEF FoundBy
    <3>3. j.pc \in {"move", "publish"} /\ j.sid = x
      BY <2>1, <2>3
    <3> QED
      BY <1>8, <2>1, <2>2, <2>3, <3>1, <3>2, <3>3
  <2>4. CASE adm[a].sid # x
    BY <1>0, <1>7, <2>1, <2>2, <2>4
  <2> QED
    BY <2>3, <2>4
<1>14. ASSUME NEW a \in Admins, Move(a) PROVE Concluded(x)'
  <2>1. adm[a].pc = "move" /\ adm[a].sid \in Sids /\ UNCHANGED <<up, meta, approvedOk>>
    BY <1>14, Decides DEF Move, uploadVars
  <2>2. CASE dir[adm[a].sid] = "pending"
    <3> DEFINE j == [adm[a] EXCEPT !.pc = "meta"]
    <3>1. /\ adm' = [adm EXCEPT ![a] = j] /\ j.sid = adm[a].sid /\ j.op = adm[a].op
          /\ j.pc = "meta"
          /\ dir' = [dir EXCEPT ![adm[a].sid] = IF adm[a].op = "approve" THEN "approved"
                                                ELSE "rejected"]
      BY <1>0, <1>14, <2>2 DEF Move, Job, Jobs
    <3> HIDE DEF j
    <3>2. CASE adm[a].sid = x
      <4>1. x \notin approvedOk'
        BY <1>1, <2>1, <2>2, <3>2 DEF Concluded
      <4>2. dir'[x] = IF j.op = "approve" THEN "approved" ELSE "rejected"
        BY <1>0, <2>1, <3>1, <3>2
      <4> QED
        BY <1>8, <3>1, <3>2, <4>1, <4>2
    <3>3. CASE adm[a].sid # x
      <4>1. dir'[x] = dir[x]
        BY <1>0, <2>1, <3>1, <3>3
      <4> QED
        BY <1>0, <1>7, <2>1, <3>1, <3>3, <4>1
    <3> QED
      BY <3>2, <3>3
  <2>3. CASE dir[adm[a].sid] # "pending"
    <3>1. adm[a].sid # x
      BY <1>10, <2>1, <2>3 DEF FoundBy
    <3>2. Done(a) /\ UNCHANGED dir
      BY <1>14, <2>3 DEF Move
    <3> QED
      BY <1>0, <1>7, <2>1, <3>1, <3>2 DEF Done, NoJob
  <2> QED
    BY <2>2, <2>3
<1>15. ASSUME NEW a \in Admins, Restatus(a) PROVE Concluded(x)'
  <2>1. /\ adm[a].pc = "meta" /\ adm[a].sid \in Sids /\ UNCHANGED <<up, dir, approvedOk>>
        /\ meta' = [meta EXCEPT ![adm[a].sid] = dir[adm[a].sid]]
    BY <1>15, Decides DEF Restatus, uploadVars
  <2>2. CASE adm[a].op = "approve"
    <3> DEFINE j == [adm[a] EXCEPT !.pc = "scan"]
    <3>1. /\ adm' = [adm EXCEPT ![a] = j] /\ j.sid = adm[a].sid /\ j.op = adm[a].op
          /\ j.pc = "scan"
      BY <1>0, <1>15, <2>2 DEF Restatus, Job, Jobs
    <3> HIDE DEF j
    <3>2. CASE adm[a].sid = x
      <4>1. FoundBy(a, x) /\ (x \in approvedOk' => dir'[x] = "approved")
        BY <1>1, <1>10, <2>1, <3>2 DEF Concluded
      <4>2. /\ dir'[x] = IF j.op = "approve" THEN "approved" ELSE "rejected"
            /\ meta'[x] = dir'[x]
        BY <1>0, <2>1, <3>1, <3>2, <4>1 DEF FoundBy
      <4> QED
        BY <1>8, <3>1, <3>2, <4>1, <4>2
    <3>3. CASE adm[a].sid # x
      BY <1>0, <1>7, <2>1, <3>1, <3>3
    <3> QED
      BY <3>2, <3>3
  <2>3. CASE adm[a].op # "approve"
    <3>1. /\ adm'[a].sid = "none" /\ \A b \in Admins : b # a => adm'[b] = adm[b]
      BY <1>0, <1>15, <2>3 DEF Restatus, Done, NoJob
    <3>2. CASE adm[a].sid = x
      BY <1>0, <1>1, <1>9, <2>1, <3>1, <3>2 DEF Concluded
    <3>3. CASE adm[a].sid # x
      BY <1>0, <1>7, <2>1, <3>1, <3>3
    <3> QED
      BY <3>2, <3>3
  <2> QED
    BY <2>2, <2>3
<1>16. ASSUME NEW a \in Admins, Publish(a) PROVE Concluded(x)'
  <2>1. /\ adm'[a] = NoJob
        /\ \A b \in Admins : b # a => /\ adm'[b].sid = adm[b].sid /\ adm'[b].pc = adm[b].pc
                                      /\ adm'[b].op = adm[b].op
    BY <1>0, <1>16 DEF Publish, Published, Jobs
  <2>2. /\ adm[a].pc = "publish" /\ UNCHANGED <<up, dir, meta>>
        /\ approvedOk' = IF adm[a].op = "approve" THEN approvedOk \cup {adm[a].sid}
                         ELSE approvedOk
    BY <1>16 DEF Publish, uploadVars, decisionVars
  <2>3. CASE adm[a].sid = x
    <3>1. meta'[x] = dir'[x] /\ (x \in approvedOk' => dir'[x] = "approved")
      BY <1>1, <1>10, <2>2, <2>3 DEF FoundBy, Concluded
    <3> QED
      BY <1>9, <2>1, <2>3, <3>1 DEF NoJob
  <2>4. CASE adm[a].sid # x
    <3>1. adm'[a].sid # x
      BY <1>0, <2>1 DEF NoJob
    <3>2. x \in approvedOk' <=> x \in approvedOk
      BY <2>2, <2>4
    <3> QED
      BY <1>7, <2>1, <2>2, <2>4, <3>1, <3>2
  <2> QED
    BY <2>3, <2>4
<1>17. ASSUME Restart PROVE Concluded(x)'
  <2>1. /\ Deciding(x) = {} /\ up'[x] = up[x] /\ UNCHANGED <<dir, meta, approvedOk>>
        /\ \A b \in Admins : adm'[b].sid = "none"
    BY <1>17 DEF Restart, decisionVars, NoJob
  <2>2. Deciding(x)' = {}
    BY <1>0, <2>1 DEF Deciding
  <2> QED
    BY <1>1, <2>1, <2>2 DEF Concluded
<1>18. ASSUME NEW a \in Admins, Proceed(a) PROVE Concluded(x)'
  BY <1>12, <1>13, <1>14, <1>15, <1>16, <1>18 DEF Proceed
<1> HIDE DEF Concluded
<1> QED
  BY <1>4, <1>5, <1>6, <1>11, <1>17, <1>18 DEF SubNext
-----------------------------------------------------------------------------
(* An approval, once made or under way, is not undone: only a crash takes  *)
(* it from the thread that is at it, and that tears the submission.        *)
LEMMA ApprovedStays ==
  ASSUME TypesOK, OnlyAccepted, Decisions, SubNext,
         NEW x \in Sids, x \notin torn', Approved(x)
  PROVE  Approved(x)'
<1>0. /\ dir \in [Sids -> Statuses \cup {"none"}] /\ "none" \notin Sids
      /\ adm \in [Admins -> Jobs]
  BY SidsAssumption DEF TypesOK, SubTypeOK
<1>1. x \notin torn /\ Concluded(x)
  BY TornGrows DEF Decisions
<1>2. ASSUME dir[x] = "approved" PROVE dir'[x] = "approved"
  <2>1. up[x] = "accepted" \/ up[x] \notin {"new", "reading"}
    BY <1>1, <1>2 DEF OnlyAccepted
  <2>2. ASSUME NEW s \in Sids, Upload(s) PROVE dir'[x] = "approved"
    BY <1>0, <1>2, <2>1, <2>2 DEF Upload, Arrive, ReadOne, ReadBad, Accept, RefuseEmpty,
                                  MetadataFails, decisionVars
  <2>3. ASSUME NEW a \in Admins, Move(a) PROVE dir'[x] = "approved"
    BY <1>0, <1>2, <2>3 DEF Move
  <2>4. UNCHANGED dir \/ (\E s \in Sids : Upload(s)) \/ \E a \in Admins : Move(a)
    BY DEF SubNext, Proceed, Expire, Speak, VoiceBegins, VoiceEnds, Decide, Reload, Transcribe,
           WriteClaims, Restatus, Scan, Publish, Restart, decisionVars
  <2> QED
    BY <1>2, <2>2, <2>3, <2>4
<1>3. ASSUME NEW b \in Admins, adm[b].sid = x, adm[b].op = "approve" PROVE Approved(x)'
  <2>0. FoundBy(b, x)
    BY <1>1, <1>3 DEF Concluded, Deciding
  <2>1. ASSUME adm'[b].sid = adm[b].sid, adm'[b].op = adm[b].op PROVE Approved(x)'
    BY <1>3, <2>1 DEF Approved
  <2>2. CASE UNCHANGED adm
    BY <2>1, <2>2
  <2>3. ASSUME NEW a \in Admins, a # b, NEW j, adm' = [adm EXCEPT ![a] = j] PROVE Approved(x)'
    BY <1>0, <2>1, <2>3
  <2>4. ASSUME NEW a \in Admins, NEW s \in Sids, NEW op \in {"approve", "reject"}, Decide(a, s, op)
        PROVE Approved(x)'
    <3>1. a # b
      BY <1>0, <1>3, <2>4 DEF Decide, NoJob
    <3> QED
      BY <2>3, <2>4, <3>1 DEF Decide
  <2>5. ASSUME NEW a \in Admins, Reload(a) PROVE Approved(x)'
    <3>1. a # b
      BY <1>0, <1>3, <2>5 DEF Reload, NoJob
    <3> QED
      BY <2>3, <2>5, <3>1 DEF Reload
  <2>6. ASSUME NEW a \in Admins, Transcribe(a) PROVE Approved(x)'
    <3>1. CASE a = b
      <4>1. \E heard : adm' = [adm EXCEPT ![a].pc = "claims", ![a].got = heard]
        BY <1>3, <2>0, <2>6, <3>1 DEF Transcribe, FoundBy
      <4> QED
        BY <1>0, <2>1, <3>1, <4>1 DEF Jobs
    <3>2. CASE a # b
      <4>1. Done(a) \/ \E heard : adm' = [adm EXCEPT ![a].pc = "claims", ![a].got = heard]
        BY <2>6 DEF Transcribe
      <4> QED
        BY <1>0, <2>1, <3>2, <4>1 DEF Done
    <3> QED
      BY <3>1, <3>2
  <2>7. ASSUME NEW a \in Admins, WriteClaims(a) \/ Move(a) \/ Restatus(a) PROVE Approved(x)'
    <3>1. CASE a = b
      <4>1. \E to : Job(a, to)
        BY <1>3, <2>0, <2>7, <3>1 DEF WriteClaims, Move, Restatus, FoundBy
      <4> QED
        BY <1>0, <2>1, <3>1, <4>1 DEF Job, Jobs
    <3>2. CASE a # b
      <4>1. Done(a) \/ \E to : Job(a, to)
        BY <2>7 DEF WriteClaims, Move, Restatus
      <4> QED
        BY <1>0, <2>1, <3>2, <4>1 DEF Done, Job
    <3> QED
      BY <3>1, <3>2
  <2>8. ASSUME NEW a \in Admins, Scan(a) PROVE Approved(x)'
    BY <1>0, <2>1, <2>8 DEF Scan, Jobs
  <2>9. ASSUME NEW a \in Admins, Publish(a) PROVE Approved(x)'
    <3>1. CASE a = b
      <4>1. dir[x] = "approved"
        BY <1>3, <2>0, <2>9, <3>1 DEF Publish, FoundBy
      <4> QED
        BY <1>2, <4>1 DEF Approved
    <3>2. CASE a # b
      BY <1>0, <2>1, <2>9, <3>2 DEF Publish, Published, Jobs
    <3> QED
      BY <3>1, <3>2
  <2>10. ~ Restart
    BY <1>3 DEF Restart, Deciding
  <2>11. UNCHANGED adm \/ ~ ((\E s \in Sids : Upload(s)) \/ (\E i \in Ips : Expire(i))
                             \/ \E v \in Voices : Speak(v))
    BY DEF Upload, Arrive, ReadOne, ReadBad, Accept, RefuseEmpty, MetadataFails, Expire, Speak,
           VoiceBegins, VoiceEnds, adminVars
  <2> QED
    BY <2>2, <2>4, <2>5, <2>6, <2>7, <2>8, <2>9, <2>10, <2>11 DEF SubNext, Proceed
<1> QED
  BY <1>2, <1>3 DEF Approved

(* Claims are written, and from there read and served, for nothing but     *)
(* what somebody is approving.                                             *)
LEMMA ClaimsStep ==
  ASSUME TypesOK, OnlyAccepted, Decisions, ClaimsApproved, SubNext
  PROVE  ClaimsApproved'
<1>0. /\ adm \in [Admins -> Jobs] /\ "none" \notin Sids /\ NoJob.scan = {}
      /\ \A a \in Admins : JobIsSound(adm[a])
  BY SidsAssumption DEF TypesOK, NoJob
<1> SUFFICES ASSUME NEW x \in Sids, x \notin torn', HasClaims(x)', ~ HasClaims(x)
             PROVE  Approved(x)'
  BY TornGrows, ApprovedStays DEF ClaimsApproved
<1>1. /\ x \notin written /\ x \notin served /\ x \notin Claimed
      /\ \A a \in Admins : x \notin adm[a].scan
  BY DEF HasClaims, Claimed
<1>2. ASSUME NEW a \in Admins, WriteClaims(a) PROVE Approved(x)'
  <2>1. /\ adm[a].op = "approve" /\ served' = served /\ written' = written \cup {adm[a].sid}
        /\ adm'[a].op = "approve" /\ adm'[a].sid = adm[a].sid
        /\ \A b \in Admins : adm'[b].scan = adm[b].scan
    BY <1>0, <1>2 DEF WriteClaims, Job, JobIsSound, Jobs
  <2>2. adm[a].sid = x
    BY <1>1, <2>1 DEF HasClaims
  <2> QED
    BY <2>1, <2>2 DEF Approved
<1>3. ASSUME NEW a \in Admins, Scan(a) PROVE ~ HasClaims(x)'
  BY <1>0, <1>1, <1>3 DEF HasClaims, Scan, Jobs, decisionVars
<1>4. ASSUME NEW a \in Admins, Publish(a) PROVE ~ HasClaims(x)'
  BY <1>0, <1>1, <1>4 DEF HasClaims, Publish, Published, Jobs, decisionVars
<1>5. CASE Restart
  BY <1>0, <1>1, <1>5 DEF HasClaims, Restart, decisionVars
<1>6. ASSUME NEW a \in Admins, NEW j, j.scan = {}, adm' = [adm EXCEPT ![a] = j],
             UNCHANGED <<written, served>>
      PROVE ~ HasClaims(x)'
  BY <1>0, <1>1, <1>6 DEF HasClaims
<1>7. ASSUME NEW a \in Admins, NEW s \in Sids, NEW op \in {"approve", "reject"}, Decide(a, s, op)
      PROVE ~ HasClaims(x)'
  <2> DEFINE j == [NoJob EXCEPT !.op = op, !.sid = s,
                     !.pc = IF op = "approve" THEN "transcribe" ELSE "move"]
  <2>1. j.scan = {}
    BY DEF NoJob
  <2>2. UNCHANGED <<written, served>> /\ adm' = [adm EXCEPT ![a] = j]
    BY <1>7 DEF Decide, decisionVars
  <2> HIDE DEF j
  <2> QED
    BY <1>6, <2>1, <2>2
<1>8. ASSUME NEW a \in Admins, Reload(a) PROVE ~ HasClaims(x)'
  <2> DEFINE j == [NoJob EXCEPT !.op = "reload", !.pc = "scan"]
  <2>1. j.scan = {}
    BY DEF NoJob
  <2>2. UNCHANGED <<written, served>> /\ adm' = [adm EXCEPT ![a] = j]
    BY <1>8 DEF Reload, decisionVars
  <2> HIDE DEF j
  <2> QED
    BY <1>6, <2>1, <2>2
<1>9. ASSUME NEW a \in Admins, Transcribe(a) PROVE ~ HasClaims(x)'
  <2>1. UNCHANGED <<written, served>>
    BY <1>9 DEF Transcribe, decisionVars
  <2>2. Done(a) \/ \E heard : adm' = [adm EXCEPT ![a].pc = "claims", ![a].got = heard]
    BY <1>9 DEF Transcribe
  <2>3. CASE Done(a)
    BY <1>0, <1>1, <2>1, <2>3 DEF HasClaims, Done
  <2>4. ASSUME NEW heard, adm' = [adm EXCEPT ![a].pc = "claims", ![a].got = heard]
        PROVE ~ HasClaims(x)'
    BY <1>0, <1>1, <2>1, <2>4 DEF HasClaims, Jobs
  <2> QED
    BY <2>2, <2>3, <2>4
<1>10. ASSUME NEW a \in Admins, Move(a) \/ Restatus(a) PROVE ~ HasClaims(x)'
  <2>1. UNCHANGED <<written, served>> /\ (Done(a) \/ \E to : Job(a, to))
    BY <1>10 DEF Move, Restatus
  <2> QED
    BY <1>0, <1>1, <2>1 DEF HasClaims, Done, Job, Jobs
<1>11. \/ UNCHANGED <<written, served, adm>>
       \/ ~ ((\E s \in Sids : Upload(s)) \/ (\E i \in Ips : Expire(i))
             \/ \E v \in Voices : Speak(v))
  BY DEF Upload, Arrive, ReadOne, ReadBad, Accept, RefuseEmpty, MetadataFails, Expire, Speak,
         VoiceBegins, VoiceEnds, adminVars, decisionVars
<1>12. ~ UNCHANGED <<written, served, adm>>
  BY <1>1 DEF HasClaims
<1> HIDE DEF HasClaims
<1> QED
  BY <1>2, <1>3, <1>4, <1>5, <1>7, <1>8, <1>9, <1>10, <1>11, <1>12 DEF SubNext, Proceed
-----------------------------------------------------------------------------
Fresh(b, x) ==
  adm[b].pc = "publish" /\ (x = adm[b].sid \/ (x \in approvedOk /\ ~adm[b].late)) /\ claims[x] # {}
  => x \in adm[b].scan

IsServed(x) == ~overlap /\ x \in approvedOk /\ claims[x] # {} => x \in served

(* What is assigned last is what was read last, so it has every approval   *)
(* that has returned; claims are written before the directory moves.       *)
LEMMA ServedStep ==
  ASSUME TypesOK, OnlyAccepted, Decisions, ScansAreFresh, ApprovedIsServed, SubNext
  PROVE  ScansAreFresh' /\ ApprovedIsServed'
<1>0. /\ adm \in [Admins -> Jobs] /\ claims \in [Sids -> SUBSET Qids]
      /\ \A a \in Admins : JobIsSound(adm[a])
  BY DEF TypesOK
<1> SUFFICES ASSUME NEW x \in Sids, x \notin torn'
             PROVE  (\A b \in Admins : Fresh(b, x)') /\ IsServed(x)'
  <2>1. approvedOk' \subseteq Sids
    BY AdminTypes
  <2>2. ASSUME \A x \in Sids \ torn' : (\A b \in Admins : Fresh(b, x)') /\ IsServed(x)'
        PROVE ScansAreFresh' /\ ApprovedIsServed'
    BY <2>1, <2>2 DEF ScansAreFresh, ApprovedIsServed, Fresh, IsServed
  <2> QED
    BY <2>2
<1>1. /\ x \notin torn /\ Concluded(x) /\ IsServed(x) /\ \A b \in Admins : Fresh(b, x)
  BY TornGrows DEF Decisions, ScansAreFresh, ApprovedIsServed, Fresh, IsServed
<1>2. claims[x] # {} => x \in Claimed
  BY DEF OnlyAccepted, Claimed
<1> DEFINE Kept == (\A b \in Admins : Fresh(b, x)') /\ IsServed(x)'
<1>3. ASSUME UNCHANGED <<approvedOk, overlap, served>>, claims'[x] = claims[x],
             \A b \in Admins : adm'[b] = adm[b] \/ adm'[b].pc # "publish"
      PROVE  Kept
  BY <1>1, <1>3 DEF Fresh, IsServed
<1>4. ASSUME NEW a \in Admins, Publish(a) PROVE Kept
  <2>1. /\ adm[a].pc = "publish" /\ served' = adm[a].scan /\ overlap' = adm[a].late
        /\ claims' = claims
        /\ approvedOk' = IF adm[a].op = "approve" THEN approvedOk \cup {adm[a].sid}
                         ELSE approvedOk
    BY <1>4 DEF Publish, decisionVars
  <2>2. IsServed(x)'
    BY <1>1, <2>1 DEF Fresh, IsServed
  <2>3. ASSUME NEW b \in Admins PROVE Fresh(b, x)'
    <3>1. \/ adm'[b] = NoJob
          \/ adm[b].pc # "publish" /\ adm'[b] = adm[b]
          \/ adm[b].pc = "publish" /\ adm'[b] = [adm[b] EXCEPT !.late = TRUE]
      BY <1>4 DEF Publish, Published
    <3>2. CASE adm'[b] = NoJob \/ (adm[b].pc # "publish" /\ adm'[b] = adm[b])
      BY <3>2 DEF Fresh, NoJob
    <3>3. CASE adm[b].pc = "publish" /\ adm'[b] = [adm[b] EXCEPT !.late = TRUE]
      <4>1. adm'[b].late = TRUE /\ adm'[b].sid = adm[b].sid /\ adm'[b].scan = adm[b].scan
        BY <1>0, <3>3 DEF Jobs
      <4> QED
        BY <1>1, <2>1, <3>3, <4>1 DEF Fresh
    <3> QED
      BY <3>1, <3>2, <3>3
  <2> QED
    BY <2>2, <2>3
<1>5. ASSUME NEW a \in Admins, Scan(a) PROVE Kept
  <2>1. /\ UNCHANGED <<approvedOk, overlap, served, claims>>
        /\ \A b \in Admins : b # a => adm'[b] = adm[b]
        /\ adm'[a].scan = Claimed
    BY <1>0, <1>5 DEF Scan, decisionVars, Jobs
  <2> QED
    BY <1>1, <1>2, <2>1 DEF Fresh, IsServed
\* Whoever writes claims finds the submission pending: nobody has published it.
<1>6. ASSUME NEW a \in Admins, WriteClaims(a) PROVE Kept
  <2>1. /\ adm[a].pc = "claims" /\ UNCHANGED <<approvedOk, overlap, served>>
        /\ claims' = [claims EXCEPT ![adm[a].sid] = adm[a].got]
        /\ adm' = [adm EXCEPT ![a].pc = "move"]
    BY <1>6 DEF WriteClaims, Job
  <2>2. \A b \in Admins : adm'[b] = adm[b] \/ adm'[b].pc # "publish"
    BY <1>0, <2>1 DEF Jobs
  <2>3. CASE adm[a].sid # x
    BY <1>0, <1>3, <2>1, <2>2, <2>3
  <2>4. CASE adm[a].sid = x
    <3>1. FoundBy(a, x)
      BY <1>1, <2>4 DEF Concluded, Deciding
    <3>2. x \notin approvedOk
      BY <1>1, <2>1, <3>1 DEF FoundBy, Concluded
    <3>3. \A b \in Admins : adm[b].sid = x => adm[b].pc # "publish"
      BY <2>1, <3>1 DEF FoundBy
    <3> QED
      BY <2>1, <2>2, <3>2, <3>3 DEF Fresh, IsServed
  <2> QED
    BY <2>3, <2>4
<1>7. ASSUME Restart PROVE Kept
  BY <1>2, <1>7 DEF Restart, Fresh, IsServed, decisionVars, NoJob
<1>8. ASSUME UNCHANGED <<approvedOk, overlap, served, claims>>, NEW a \in Admins, NEW j,
             j.pc # "publish", adm' = [adm EXCEPT ![a] = j]
      PROVE  Kept
  <2>1. \A b \in Admins : adm'[b] = adm[b] \/ adm'[b].pc # "publish"
    BY <1>0, <1>8
  <2> QED
    BY <1>3, <1>8, <2>1
<1>9. ASSUME NEW a \in Admins, NEW s \in Sids, NEW op \in {"approve", "reject"}, Decide(a, s, op)
      PROVE Kept
  <2> DEFINE j == [NoJob EXCEPT !.op = op, !.sid = s,
                     !.pc = IF op = "approve" THEN "transcribe" ELSE "move"]
  <2>1. j.pc # "publish"
    BY DEF NoJob
  <2>2. /\ UNCHANGED <<approvedOk, overlap, served, claims>>
        /\ adm' = [adm EXCEPT ![a] = j]
    BY <1>9 DEF Decide, decisionVars
  <2> HIDE DEF j
  <2> QED
    BY <1>8, <2>1, <2>2
<1>10. ASSUME NEW a \in Admins, Reload(a) PROVE Kept
  <2> DEFINE j == [NoJob EXCEPT !.op = "reload", !.pc = "scan"]
  <2>1. j.pc # "publish"
    BY DEF NoJob
  <2>2. /\ UNCHANGED <<approvedOk, overlap, served, claims>>
        /\ adm' = [adm EXCEPT ![a] = j]
    BY <1>10 DEF Reload, decisionVars
  <2> HIDE DEF j
  <2> QED
    BY <1>8, <2>1, <2>2
<1>11. ASSUME NEW a \in Admins, Transcribe(a) \/ Move(a) \/ Restatus(a) PROVE Kept
  <2>1. UNCHANGED <<approvedOk, overlap, served, claims>>
    BY <1>11 DEF Transcribe, Move, Restatus, decisionVars
  <2>2. \/ Done(a) \/ \E to \in {"meta", "scan"} : Job(a, to)
        \/ \E heard : adm' = [adm EXCEPT ![a].pc = "claims", ![a].got = heard]
    BY <1>11 DEF Transcribe, Move, Restatus
  <2>3. \A b \in Admins : adm'[b] = adm[b] \/ adm'[b].pc # "publish"
    BY <1>0, <2>2 DEF Done, Job, NoJob, Jobs
  <2> QED
    BY <1>3, <2>1, <2>3
<1>12. ASSUME \/ \E s \in Sids : Upload(s)
              \/ (\E i \in Ips : Expire(i)) \/ \E v \in Voices : Speak(v)
       PROVE Kept
  <2>1. UNCHANGED <<adm, approvedOk, overlap, served, claims>>
    BY <1>12 DEF Upload, Arrive, ReadOne, ReadBad, Accept, RefuseEmpty, MetadataFails, Expire,
                 Speak, VoiceBegins, VoiceEnds, adminVars, decisionVars
  <2> QED
    BY <1>3, <2>1
<1> HIDE DEF Kept
<1>13. Kept
  BY <1>4, <1>5, <1>6, <1>7, <1>9, <1>10, <1>11, <1>12 DEF SubNext, Proceed
<1> QED
  BY <1>13 DEF Kept
-----------------------------------------------------------------------------
(* The invariant.                                                          *)
THEOREM SubInvariant == SubSpec => []SubInv
<1>1. ASSUME SubInit PROVE SubInv
  <2> USE <1>1 DEF SubInit
  <2>1. TypesOK
    <3>1. NoJob \in Jobs /\ JobIsSound(NoJob)
      BY SidsAssumption DEF NoJob, Jobs, Stages, JobIsSound
    <3>2. adm \in [Admins -> Jobs] /\ \A a \in Admins : JobIsSound(adm[a])
      BY <3>1
    <3>3. \A a \in Admins : adm[a].pc \in Stages /\ adm[a].scan \subseteq Sids
      BY <3>2 DEF Jobs
    <3>4. Cardinality(Sids) \in Nat /\ Uploads \in Nat
      BY Finite, SubmissionsAssumption
    <3>5. SubTypeOK
      BY <3>3, <3>4 DEF SubTypeOK, Stages, Statuses
    <3> QED
      BY <3>2, <3>5 DEF TypesOK
  <2>2. WithinLimit
    <3>1. ASSUME NEW i \in Ips PROVE Underway(i) = {} /\ Cardinality(Accepted(i)) \in Nat
      BY Finite DEF Underway, Accepted
    <3>2. Max({1, 0}) \in Nat /\ Max({1, 0}) >= 1
      BY MaxOfTwo
    <3>3. Cardinality({}) = 0
      BY FS_EmptySet
    <3>4. Limit \in Nat \ {0}
      BY SubmissionsAssumption
    <3> QED
      BY <3>1, <3>2, <3>3, <3>4 DEF WithinLimit
  <2>3. OnlyAccepted /\ Decisions
    BY SidsAssumption DEF OnlyAccepted, Decisions, Concluded, Deciding, NoJob
  <2>4. ClaimsApproved
    BY DEF ClaimsApproved, HasClaims, NoJob
  <2>5. ScansAreFresh /\ ApprovedIsServed
    BY DEF ScansAreFresh, ApprovedIsServed, NoJob
  <2> QED
    BY <2>1, <2>2, <2>3, <2>4, <2>5 DEF SubInv
<1>2. ASSUME SubInv, [SubNext]_subVars PROVE SubInv'
  <2>1. CASE SubNext
    BY <1>2, <2>1, LimitStep, TypesStep, OnlyAcceptedStep, DecisionsStep, ClaimsStep, ServedStep
       DEF SubInv
  <2>2. CASE UNCHANGED subVars
    <3>1. UNCHANGED <<up, unread, recs, log, peak, loop, dir, meta, claims, written, adm,
                      served, approvedOk, overlap, torn, crashes>>
      BY <2>2 DEF subVars, uploadVars, decisionVars, adminVars
    <3>2. TypesOK' /\ OnlyAccepted'
      BY <1>2, <3>1 DEF SubInv, TypesOK, SubTypeOK, OnlyAccepted, Deciding
    <3>3. \A i \in Ips : Accepted(i)' = Accepted(i) /\ Underway(i)' = Underway(i)
      BY <3>1 DEF Accepted, Underway
    <3>4. WithinLimit'
      BY <1>2, <3>1, <3>3 DEF SubInv, WithinLimit
    <3>5. Decisions' /\ ClaimsApproved'
      BY <1>2, <3>1 DEF SubInv, Decisions, Concluded, FoundBy, Deciding, ClaimsApproved,
                        HasClaims, Approved
    <3>6. ScansAreFresh' /\ ApprovedIsServed'
      BY <1>2, <3>1 DEF SubInv, ScansAreFresh, ApprovedIsServed
    <3> QED
      BY <3>2, <3>4, <3>5, <3>6 DEF SubInv
  <2> QED
    BY <1>2, <2>1, <2>2
<1> QED
  BY <1>1, <1>2, PTL DEF SubSpec

(* InterviewsAreKept: the limit of an address, what is served and what was *)
(* decided, the lists and the directories of interview_submit,             *)
(* approve_submission and reject_submission.                               *)
THEOREM InterviewsKept == SubSpec => []InterviewsAreKept
<1>1. ASSUME SubInv PROVE InterviewsAreKept
  <2> USE <1>1 DEF SubInv
  <2>1. SubTypeOK
    BY DEF TypesOK
  <2>2. LimitPlusOverlap
    <3> SUFFICES ASSUME NEW i \in Ips PROVE log[i] <= Limit - 1 + Max({1, peak[i]})
      BY DEF LimitPlusOverlap
    <3>1. /\ log[i] \in Nat /\ peak[i] \in Nat /\ Limit \in Nat
          /\ Cardinality(Underway(i)) \in Nat
      BY Finite, SubmissionsAssumption DEF TypesOK, SubTypeOK, Underway
    <3>2. Max({1, peak[i]}) \in Nat
      BY <3>1, MaxOfTwo
    <3>3. log[i] + Cardinality(Underway(i)) <= Limit - 1 + Max({1, peak[i]})
      BY DEF WithinLimit
    <3> QED
      BY <3>1, <3>2, <3>3
  <2>3. ServedIsApproved
    BY <2>1 DEF ServedIsApproved, ClaimsApproved, HasClaims, Approved, SubTypeOK
  <2>4. MetadataAgrees
    BY DEF MetadataAgrees, Decisions, Concluded, OnlyAccepted
  <2>5. NoOrphans
    BY <2>1 DEF NoOrphans, OnlyAccepted, SubTypeOK
  <2> QED
    BY <2>1, <2>2, <2>3, <2>4, <2>5 DEF InterviewsAreKept
<1> QED
  BY <1>1, SubInvariant, PTL

(* DecisionIsFinal: sub_dir.rename moves a directory once, and an upload   *)
(* removes only the directory it has made.                                 *)
THEOREM DecisionsAreFinal == SubSpec => DecisionIsFinal
<1>1. ASSUME SubInv, [SubNext]_subVars, NEW s \in Sids, dir[s] \in {"approved", "rejected"}
      PROVE  dir'[s] = dir[s]
  <2>1. dir \in [Sids -> Statuses \cup {"none"}] /\ up[s] \notin {"new", "reading"}
    BY <1>1 DEF SubInv, TypesOK, SubTypeOK, OnlyAccepted
  <2>2. \/ UNCHANGED dir \/ (\E x \in Sids : Upload(x)) \/ \E a \in Admins : Move(a)
    BY <1>1 DEF SubNext, Proceed, Expire, Speak, VoiceBegins, VoiceEnds, Decide, Reload,
                Transcribe, WriteClaims, Restatus, Scan, Publish, Restart, decisionVars, subVars
  <2>3. ASSUME NEW x \in Sids, Upload(x) PROVE dir'[s] = dir[s]
    BY <2>1, <2>3 DEF Upload, Arrive, ReadOne, ReadBad, Accept, RefuseEmpty, MetadataFails,
                      decisionVars
  <2>4. ASSUME NEW a \in Admins, Move(a) PROVE dir'[s] = dir[s]
    BY <1>1, <2>1, <2>4 DEF Move
  <2> QED
    BY <2>2, <2>3, <2>4
<1>2. SubInv /\ [SubNext]_subVars =>
        [\A s \in Sids : dir[s] \in {"approved", "rejected"} => dir'[s] = dir[s]]_subVars
  BY <1>1
<1> QED
  BY <1>2, SubInvariant, PTL DEF SubSpec, DecisionIsFinal
-----------------------------------------------------------------------------
(***************************************************************************)
(* Records, their files and the threads that send them.                    *)
(***************************************************************************)
Steps == [pc : {"idle", "call", "save", "write", "unlink"}, id : OutreachIds \cup {"none"},
          from : {"none", "pending", "failed"}, to : {"none", "sent", "failed"}]

StepIsSound(s) ==
  /\ s.pc = "idle" <=> s.id = "none"
  /\ s.pc = "idle" => s = Resting
  /\ s.pc # "idle" => s.from # "none"
  /\ s.pc \in {"save", "write", "unlink"} <=> s.to # "none"
  /\ s.pc = "unlink" => s.from # s.to

OutreachTypes ==
  /\ file \in [OutreachIds -> [StatusDirs -> {"none", "ok", "cut"}]]
  /\ sender \in [Senders -> Steps] /\ \A t \in Senders : StepIsSound(sender[t])
  /\ delivered \in [OutreachIds -> Nat]
  /\ shared \in [OutreachIds -> BOOLEAN] /\ doubt \in [OutreachIds -> BOOLEAN]
  /\ draft = [id \in OutreachIds |-> draft[id]]

(* A message is delivered by a thread that was given a send.               *)
Calling(id) == {t \in Senders : sender[t].pc = "call" /\ sender[t].id = id}
SendsCount ==
  /\ sends \in 0 .. MaxSends
  /\ \A id \in OutreachIds : delivered[id] + Cardinality(Calling(id)) <= sends

(* A record that is not sent twice at once and not in doubt: one thread at *)
(* most has it, and holds a file that can be read while it does.           *)
OwnsRecord(t, id) ==
  /\ \A u \in Senders : sender[u].id = id => u = t
  /\ (sender[t].pc = "write" /\ sender[t].to = sender[t].from) \/ file[id][sender[t].from] = "ok"
  /\ sender[t].from = "failed" => file[id].pending = "none"
  /\ sender[t].pc = "call" \/ sender[t].to = "failed" => delivered[id] = 0
  /\ sender[t].to = "sent" => delivered[id] = 1
  /\ sender[t].to = "sent" /\ sender[t].pc = "unlink" => file[id].sent = "ok"

OneOwner(id) ==
  /\ \A t \in Senders : sender[t].id = id => OwnsRecord(t, id)
  /\ (\A t \in Senders : sender[t].id # id) =>
       \/ delivered[id] = 0
       \/ delivered[id] = 1 /\ file[id].sent = "ok" /\ file[id].pending = "none"

(* However many have it: a file that is cut is being written, or there is  *)
(* another one, and nobody removes the last.                               *)
Writing(id, d) == \E t \in Senders : sender[t].id = id /\ sender[t].pc = "write" /\ sender[t].to = d
FilesKept(id) ==
  /\ file[id].pending # "cut"
  /\ file[id].sent = "cut" => Writing(id, "sent")
  /\ file[id].failed = "cut" =>
       Writing(id, "failed") \/ file[id].pending = "ok" \/ file[id].sent # "none"
  /\ \A t \in Senders : sender[t].id = id =>
       /\ sender[t].pc = "write" => file[id][sender[t].to] # "none" \/ file[id].sent # "none"
       /\ sender[t].pc = "unlink" /\ sender[t].to = "sent" => file[id].sent # "none"
       /\ sender[t].pc = "unlink" /\ sender[t].to = "failed" =>
            file[id].failed = "ok" \/ Writing(id, "failed") \/ file[id].sent # "none"
  /\ draft[id] # NoDraft => \E d \in StatusDirs : file[id][d] # "none"

(* Nothing is sent before it is made, nor without a contact, and a draft   *)
(* stays what it was.                                                      *)
Made(id) ==
  /\ draft[id] # NoDraft => draft[id] = Drafted[id]
  /\ (\E t \in Senders : sender[t].id = id) \/ delivered[id] # 0 =>
       draft[id] # NoDraft /\ draft[id].contact # NoContact

RecordInv(id) ==
  /\ Made(id)
  /\ ~shared[id] /\ ~doubt[id] => OneOwner(id)
  /\ ~doubt[id] => FilesKept(id)

OutreachInv ==
  /\ OutreachTypes /\ SendsCount
  /\ \A id \in OutreachIds : RecordInv(id)
-----------------------------------------------------------------------------
LEMMA OutreachBegins == OutreachInit => OutreachInv
<1> SUFFICES ASSUME OutreachInit PROVE OutreachInv
  OBVIOUS
<1> USE DEF OutreachInit
<1>1. OutreachTypes
  BY DEF OutreachTypes, Steps, StepIsSound, Resting, StatusDirs
<1>2. SendsCount
  <2>1. \A id \in OutreachIds : Calling(id) = {} /\ delivered[id] = 0
    BY DEF Calling, Resting
  <2>2. Cardinality({}) = 0 /\ sends = 0 /\ sends \in 0 .. MaxSends
    BY FS_EmptySet, OutreachAssumption
  <2>3. \A id \in OutreachIds : delivered[id] + Cardinality(Calling(id)) <= sends
    BY <2>1, <2>2, SMTT(30)
  <2> QED
    BY <2>2, <2>3 DEF SendsCount
<1>3. ASSUME NEW id \in OutreachIds PROVE RecordInv(id)
  <2>1. \A t \in Senders : sender[t].id # id
    BY IdsAssumption DEF Resting
  <2>2. /\ draft[id] = NoDraft /\ delivered[id] = 0
        /\ file[id].pending = "none" /\ file[id].sent = "none" /\ file[id].failed = "none"
    BY DEF StatusDirs
  <2> QED
    BY <2>1, <2>2 DEF RecordInv, Made, OneOwner, FilesKept
<1> QED
  BY <1>1, <1>2, <1>3 DEF OutreachInv

(* A step that is about another record leaves what is known of this one.   *)
LEMMA OtherRecord ==
  ASSUME NEW id \in OutreachIds, RecordInv(id),
         file'[id] = file[id], delivered'[id] = delivered[id], draft'[id] = draft[id],
         shared[id] => shared'[id], doubt[id] => doubt'[id],
         \A t \in Senders : sender[t].id = id \/ sender'[t].id = id => sender'[t] = sender[t]
  PROVE  RecordInv(id)'
<1>1. \A t \in Senders : /\ sender'[t].id = id <=> sender[t].id = id
                         /\ sender[t].id = id => sender'[t] = sender[t]
  OBVIOUS
<1>2. Made(id)'
  BY <1>1 DEF RecordInv, Made, Drafted
<1>3. ASSUME OneOwner(id) PROVE OneOwner(id)'
  BY <1>1, <1>3 DEF OneOwner, OwnsRecord
<1>4. \A d : Writing(id, d)' <=> Writing(id, d)
  BY <1>1 DEF Writing
<1>5. ASSUME FilesKept(id) PROVE FilesKept(id)'
  BY <1>1, <1>4, <1>5 DEF FilesKept
<1> QED
  BY <1>2, <1>3, <1>5 DEF RecordInv

(* What a step of the thread t does to t, and what it leaves.              *)
Moves(t, stage, from, to) ==
  /\ sender'[t].pc = stage /\ sender'[t].from = from /\ sender'[t].to = to
  /\ sender'[t].id = sender[t].id
  /\ \A u \in Senders : u # t => sender'[u] = sender[u]
Rests(t) ==
  /\ sender'[t].pc = "idle" /\ sender'[t].id = "none"
  /\ \A u \in Senders : u # t => sender'[u] = sender[u]

LEMMA SendTypes ==
  ASSUME NEW t \in Senders, OutreachTypes, Send(t)
  PROVE  /\ OutreachTypes'
         /\ sender[t].id \in OutreachIds /\ sender[t].from \in {"pending", "failed"}
         /\ sender[t].pc \in {"save", "write", "unlink"} => sender[t].to \in {"sent", "failed"}
<1>1. sender[t] \in Steps /\ StepIsSound(sender[t])
  BY DEF OutreachTypes
<1>2. sender[t].pc \in {"call", "save", "write", "unlink"}
  BY DEF Send, Deliver, Refuse, Unanswered, SaveBegins, SaveEnds, Unlink
<1>3. /\ sender[t].id \in OutreachIds /\ sender[t].from \in {"pending", "failed"}
      /\ sender[t].pc \in {"save", "write", "unlink"} => sender[t].to \in {"sent", "failed"}
  BY <1>1, <1>2 DEF Steps, StepIsSound
<1>4. ASSUME NEW s, s \in Steps, StepIsSound(s), sender' = [sender EXCEPT ![t] = s]
      PROVE  sender' \in [Senders -> Steps] /\ \A u \in Senders : StepIsSound(sender'[u])
  BY <1>4 DEF OutreachTypes
<1>5. Resting \in Steps /\ StepIsSound(Resting)
  BY DEF Resting, Steps, StepIsSound
<1>6. ASSUME NEW to \in {"sent", "failed"}, sender[t].pc = "call",
             sender' = [sender EXCEPT ![t].pc = "save", ![t].to = to]
      PROVE  sender' \in [Senders -> Steps] /\ \A u \in Senders : StepIsSound(sender'[u])
  <2> DEFINE s == [sender[t] EXCEPT !.pc = "save", !.to = to]
  <2>1. s \in Steps /\ StepIsSound(s)
    BY <1>1, <1>6, IdsAssumption DEF Steps, StepIsSound
  <2>2. sender' = [sender EXCEPT ![t] = s]
    BY <1>6 DEF OutreachTypes
  <2> QED
    BY <1>4, <2>1, <2>2
<1>7. sender' \in [Senders -> Steps] /\ \A u \in Senders : StepIsSound(sender'[u])
  <2>1. CASE Deliver(t) \/ Refuse(t)
    BY <1>6, <2>1 DEF Deliver, Refuse
  <2>2. CASE Unanswered(t)
    BY <1>4, <1>5, <1>6, <2>2 DEF Unanswered
  <2>3. CASE SaveBegins(t)
    <3> DEFINE s == [sender[t] EXCEPT !.pc = "write"]
    <3>1. s \in Steps /\ StepIsSound(s)
      BY <1>1, <2>3 DEF Steps, StepIsSound, SaveBegins
    <3>2. sender' = [sender EXCEPT ![t] = s]
      BY <2>3 DEF SaveBegins, OutreachTypes
    <3> QED
      BY <1>4, <3>1, <3>2
  <2>4. CASE SaveEnds(t)
    <3> DEFINE s == [sender[t] EXCEPT !.pc = "unlink"]
    <3>1. sender[t].from # sender[t].to => s \in Steps /\ StepIsSound(s)
      BY <1>1, <2>4 DEF Steps, StepIsSound, SaveEnds
    <3>2. sender' = [sender EXCEPT ![t] = IF sender[t].from = sender[t].to THEN Resting ELSE s]
      BY <2>4 DEF SaveEnds
    <3> QED
      BY <1>4, <1>5, <3>1, <3>2
  <2>5. CASE Unlink(t)
    BY <1>4, <1>5, <2>5 DEF Unlink
  <2> QED
    BY <2>1, <2>2, <2>3, <2>4, <2>5 DEF Send
<1>8. file' \in [OutreachIds -> [StatusDirs -> {"none", "ok", "cut"}]]
  <2>1. ASSUME NEW d \in StatusDirs, NEW v \in {"none", "ok", "cut"},
               file' = [file EXCEPT ![sender[t].id][d] = v]
        PROVE  file' \in [OutreachIds -> [StatusDirs -> {"none", "ok", "cut"}]]
    BY <1>3, <2>1 DEF OutreachTypes
  <2>2. sender[t].from \in StatusDirs /\ (sender[t].pc \in {"save", "write"} => sender[t].to \in StatusDirs)
    BY <1>3 DEF StatusDirs
  <2>3. CASE SaveBegins(t) \/ SaveEnds(t) \/ Unlink(t)
    BY <2>1, <2>2, <2>3 DEF SaveBegins, SaveEnds, Unlink
  <2>4. CASE Deliver(t) \/ Refuse(t) \/ Unanswered(t)
    BY <2>4 DEF Deliver, Refuse, Unanswered, OutreachTypes
  <2> QED
    BY <2>3, <2>4 DEF Send
<1>9. delivered' \in [OutreachIds -> Nat]
  BY DEF OutreachTypes, Send, Deliver, Refuse, Unanswered, SaveBegins, SaveEnds, Unlink
<1>10. doubt' \in [OutreachIds -> BOOLEAN] /\ UNCHANGED <<shared, draft>>
  BY DEF OutreachTypes, Send, Deliver, Refuse, Unanswered, SaveBegins, SaveEnds, Unlink
<1> QED
  BY <1>3, <1>7, <1>8, <1>9, <1>10 DEF OutreachTypes

LEMMA SendKeeps ==
  ASSUME NEW t \in Senders, OutreachTypes, Send(t), \A id \in OutreachIds : RecordInv(id)
  PROVE  \A id \in OutreachIds : RecordInv(id)'
<1>0. /\ OutreachTypes'
      /\ sender[t].id \in OutreachIds /\ sender[t].from \in {"pending", "failed"}
      /\ sender[t].pc \in {"save", "write", "unlink"} => sender[t].to \in {"sent", "failed"}
  BY SendTypes
<1> PICK own \in OutreachIds, from \in {"pending", "failed"} : sender[t].id = own /\ sender[t].from = from
  BY <1>0
<1>1. /\ OutreachTypes' /\ sender[t].id = own /\ sender[t].from = from
      /\ sender[t].pc \in {"save", "write", "unlink"} => sender[t].to \in {"sent", "failed"}
  BY <1>0
<1>2. UNCHANGED <<draft, shared>>
  BY DEF Send, Deliver, Refuse, Unanswered, SaveBegins, SaveEnds, Unlink
<1>3. \A u \in Senders : u # t => sender'[u] = sender[u]
  <2>1. \E s : sender' = [sender EXCEPT ![t] = s]
    <3>1. CASE Deliver(t) \/ Refuse(t)
      BY <3>1 DEF OutreachTypes, Deliver, Refuse
    <3>2. CASE Unanswered(t)
      BY <3>2 DEF OutreachTypes, Unanswered
    <3>3. CASE SaveBegins(t)
      BY <3>3 DEF OutreachTypes, SaveBegins
    <3>4. CASE SaveEnds(t) \/ Unlink(t)
      BY <3>4 DEF OutreachTypes, SaveEnds, Unlink
    <3> QED
      BY <3>1, <3>2, <3>3, <3>4 DEF Send
  <2> QED
    BY <2>1 DEF OutreachTypes
<1>4. own # "none" /\ (sender'[t].id = own \/ Rests(t))
  <2>1. sender'[t].id = own \/ sender'[t] = Resting
    <3>1. CASE Deliver(t) \/ Refuse(t)
      BY <3>1 DEF OutreachTypes, Steps, Deliver, Refuse
    <3>2. CASE Unanswered(t)
      BY <3>2 DEF OutreachTypes, Steps, Unanswered
    <3>3. CASE SaveBegins(t)
      BY <3>3 DEF OutreachTypes, Steps, SaveBegins
    <3>4. CASE SaveEnds(t) \/ Unlink(t)
      BY <3>4 DEF OutreachTypes, Steps, SaveEnds, Unlink
    <3> QED
      BY <3>1, <3>2, <3>3, <3>4 DEF Send
  <2> QED
    BY <1>1, <1>3, <2>1, IdsAssumption DEF Rests, Resting
<1>5. ASSUME NEW id \in OutreachIds, id # own PROVE RecordInv(id)'
  <2>1. file'[id] = file[id] /\ delivered'[id] = delivered[id]
    BY <1>1, <1>5 DEF OutreachTypes, Send, Deliver, Refuse, Unanswered, SaveBegins, SaveEnds, Unlink
  <2>2. doubt[id] => doubt'[id]
    BY <1>1, <1>5 DEF OutreachTypes, Send, Deliver, Refuse, Unanswered, SaveBegins, SaveEnds, Unlink
  <2>3. \A u \in Senders : sender[u].id = id \/ sender'[u].id = id => sender'[u] = sender[u]
    BY <1>3, <1>4, <1>5, IdsAssumption DEF Rests
  <2> QED
    BY <1>2, <2>1, <2>2, <2>3, OtherRecord
<1>6. /\ sender[t] \in Steps /\ StepIsSound(sender[t])
      /\ Made(own) /\ (~shared[own] /\ ~doubt[own] => OneOwner(own))
      /\ (~doubt[own] => FilesKept(own))
  BY <1>1 DEF OutreachTypes, RecordInv
<1>7. draft[own] # NoDraft /\ draft[own].contact # NoContact /\ Made(own)'
  <2>1. draft[own] # NoDraft /\ draft[own].contact # NoContact
    BY <1>6 DEF Made
  <2> QED
    BY <1>2, <1>6, <2>1 DEF Made, Drafted
<1>8. /\ \A d \in StatusDirs : file[own][d] \in {"none", "ok", "cut"}
      /\ delivered[own] \in Nat /\ file[own] = [d \in StatusDirs |-> file[own][d]]
  BY <1>1 DEF OutreachTypes
<1>9. CASE Deliver(t)
  <2>1. /\ sender[t].pc = "call" /\ file' = file /\ doubt' = doubt
        /\ delivered'[own] = delivered[own] + 1
    BY <1>1, <1>9 DEF Deliver, OutreachTypes
  <2>2. Moves(t, "save", from, "sent")
    BY <1>3, <1>4, <1>9 DEF Deliver, OutreachTypes, Steps, Moves
  <2>3. ASSUME OneOwner(own) PROVE OneOwner(own)'
    BY <1>3, <2>1, <2>2, <2>3 DEF OneOwner, OwnsRecord, Moves
  <2>4. ASSUME FilesKept(own) PROVE FilesKept(own)'
    BY <1>2, <2>1, <2>2, <2>4 DEF FilesKept, Writing, Moves
  <2>5. RecordInv(own)'
    BY <1>2, <1>6, <1>7, <2>1, <2>3, <2>4 DEF RecordInv
  <2> QED
    BY <1>5, <2>5
<1>10. CASE Refuse(t)
  <2>1. sender[t].pc = "call" /\ UNCHANGED <<file, doubt, delivered>>
    BY <1>10 DEF Refuse
  <2>2. Moves(t, "save", from, "failed")
    BY <1>3, <1>4, <1>10 DEF Refuse, OutreachTypes, Steps, Moves
  <2>3. ASSUME OneOwner(own) PROVE OneOwner(own)'
    BY <1>3, <2>1, <2>2, <2>3 DEF OneOwner, OwnsRecord, Moves
  <2>4. ASSUME FilesKept(own) PROVE FilesKept(own)'
    BY <1>2, <2>1, <2>2, <2>4 DEF FilesKept, Writing, Moves
  <2>5. RecordInv(own)'
    BY <1>2, <1>6, <1>7, <2>1, <2>3, <2>4 DEF RecordInv
  <2> QED
    BY <1>5, <2>5
<1>11. CASE Unanswered(t)
  <2>1. /\ sender[t].pc = "call" /\ file' = file
        /\ doubt'[own] \/ delivered'[own] = delivered[own]
        /\ doubt[own] => doubt'[own]
    <3> PICK n \in {0, 1} : /\ delivered' = [delivered EXCEPT ![own] = @ + n]
                            /\ doubt' = [doubt EXCEPT ![own] = @ \/ n = 1]
      BY <1>1, <1>11 DEF Unanswered
    <3>1. delivered'[own] = delivered[own] + n
      BY DEF OutreachTypes
    <3>2. doubt'[own] <=> doubt[own] \/ n = 1
      BY DEF OutreachTypes
    <3>3. sender[t].pc = "call" /\ file' = file
      BY <1>11 DEF Unanswered
    <3>4. n = 0 \/ n = 1
      OBVIOUS
    <3>5. n = 0 => delivered'[own] = delivered[own]
      BY <1>8, <3>1
    <3> QED
      BY <3>2, <3>3, <3>4, <3>5, Zenon
  <2>2. Rests(t) \/ Moves(t, "save", from, "failed")
    BY <1>3, <1>4, <1>11 DEF Unanswered, OutreachTypes, Steps, Moves, Rests, Resting
  <2>3. ASSUME OneOwner(own), delivered'[own] = delivered[own] PROVE OneOwner(own)'
    <3>1. CASE Rests(t)
      BY <1>3, <1>4, <2>1, <2>3, <3>1 DEF OneOwner, OwnsRecord, Rests
    <3>2. CASE Moves(t, "save", from, "failed")
      BY <1>3, <2>1, <2>3, <3>2 DEF OneOwner, OwnsRecord, Moves
    <3> QED
      BY <2>2, <3>1, <3>2
  <2>4. ASSUME FilesKept(own) PROVE FilesKept(own)'
    <3>1. CASE Rests(t)
      BY <1>2, <1>4, <2>1, <2>4, <3>1 DEF FilesKept, Writing, Rests
    <3>2. CASE Moves(t, "save", from, "failed")
      BY <1>2, <2>1, <2>4, <3>2 DEF FilesKept, Writing, Moves
    <3> QED
      BY <2>2, <3>1, <3>2
  <2>5. RecordInv(own)'
    BY <1>2, <1>6, <1>7, <2>1, <2>3, <2>4 DEF RecordInv
  <2> QED
    BY <1>5, <2>5
<1>12. CASE SaveBegins(t)
  <2>1. sender[t].pc = "save" /\ UNCHANGED <<delivered, doubt>>
    BY <1>12 DEF SaveBegins
  <2> PICK to \in {"sent", "failed"} : sender[t].to = to
    BY <1>1, <2>1
  <2>2. file'[own] = [file[own] EXCEPT ![to] = "cut"]
    BY <1>1, <1>12 DEF SaveBegins, OutreachTypes
  <2>3. /\ file'[own][to] = "cut" /\ to \in StatusDirs
        /\ \A d \in StatusDirs : d # to => file'[own][d] = file[own][d]
    BY <1>8, <2>2 DEF StatusDirs
  <2>4. Moves(t, "write", from, to)
    BY <1>3, <1>4, <1>12 DEF SaveBegins, OutreachTypes, Steps, Moves
  <2>5. ASSUME OneOwner(own) PROVE OneOwner(own)'
    BY <1>1, <1>3, <2>1, <2>3, <2>4, <2>5 DEF OneOwner, OwnsRecord, Moves, StatusDirs
  <2>6. ASSUME FilesKept(own) PROVE FilesKept(own)'
    <3>1. \A d : Writing(own, d) => Writing(own, d)'
      BY <1>1, <2>1, <2>4 DEF Writing, Moves
    <3>2. Writing(own, to)'
      BY <1>1, <2>4 DEF Writing, Moves
    <3>3. /\ file'[own].pending = file[own].pending
          /\ to = "sent" => file'[own].sent = "cut" /\ file'[own].failed = file[own].failed
          /\ to = "failed" => file'[own].failed = "cut" /\ file'[own].sent = file[own].sent
      BY <2>3 DEF StatusDirs
    <3>4. /\ file'[own].pending # "cut"
          /\ file'[own].sent = "cut" => Writing(own, "sent")'
          /\ file'[own].failed = "cut" => \/ Writing(own, "failed")' \/ file'[own].pending = "ok"
                                          \/ file'[own].sent # "none"
      BY <2>6, <3>1, <3>2, <3>3 DEF FilesKept
    <3>5. ASSUME NEW u \in Senders, u # t, sender'[u].id = own
          PROVE  /\ sender'[u].pc = "write" => file'[own][sender'[u].to] # "none" \/ file'[own].sent # "none"
                 /\ sender'[u].pc = "unlink" /\ sender'[u].to = "sent" => file'[own].sent # "none"
                 /\ sender'[u].pc = "unlink" /\ sender'[u].to = "failed" =>
                      file'[own].failed = "ok" \/ Writing(own, "failed")' \/ file'[own].sent # "none"
      <4>1. sender'[u] = sender[u] /\ sender[u].id = own /\ sender[u].to \in {"none", "sent", "failed"}
        BY <2>4, <3>5 DEF Moves, OutreachTypes, Steps
      <4>2. sender[u].pc = "write" => sender[u].to \in {"sent", "failed"}
        BY <4>1 DEF OutreachTypes, StepIsSound
      <4>3. /\ sender[u].pc = "write" => file[own][sender[u].to] # "none" \/ file[own].sent # "none"
            /\ sender[u].pc = "unlink" /\ sender[u].to = "sent" => file[own].sent # "none"
            /\ sender[u].pc = "unlink" /\ sender[u].to = "failed" =>
                 file[own].failed = "ok" \/ Writing(own, "failed") \/ file[own].sent # "none"
        BY <2>6, <4>1 DEF FilesKept
      <4> QED
        BY <3>1, <3>2, <3>3, <4>1, <4>2, <4>3
    <3>6. \E d \in StatusDirs : file'[own][d] # "none"
      BY <2>3
    <3>7. sender'[t].pc = "write" /\ file'[own][sender'[t].to] # "none"
      BY <2>3, <2>4 DEF Moves
    <3> QED
      BY <3>4, <3>5, <3>6, <3>7 DEF FilesKept
  <2>7. RecordInv(own)'
    BY <1>2, <1>6, <1>7, <2>1, <2>5, <2>6 DEF RecordInv
  <2> QED
    BY <1>5, <2>7
<1>13. CASE SaveEnds(t)
  <2>1. sender[t].pc = "write" /\ UNCHANGED <<delivered, doubt>>
    BY <1>13 DEF SaveEnds
  <2> PICK to \in {"sent", "failed"} : sender[t].to = to
    BY <1>1, <2>1
  <2>2. file'[own] = [file[own] EXCEPT ![to] = "ok"]
    BY <1>1, <1>13 DEF SaveEnds, OutreachTypes
  <2>3. /\ file'[own][to] = "ok" /\ to \in StatusDirs
        /\ \A d \in StatusDirs : d # to => file'[own][d] = file[own][d]
    BY <1>8, <2>2 DEF StatusDirs
  <2>4. (from = to /\ Rests(t)) \/ (from # to /\ Moves(t, "unlink", from, to))
    <3>1. sender' = [sender EXCEPT ![t] = IF sender[t].from = sender[t].to THEN Resting
                                          ELSE [sender[t] EXCEPT !.pc = "unlink"]]
      BY <1>13 DEF SaveEnds
    <3>2. CASE from = to
      BY <1>1, <1>3, <3>1, <3>2 DEF OutreachTypes, Resting, Rests
    <3>3. CASE from # to
      BY <1>1, <1>3, <1>6, <3>1, <3>3 DEF OutreachTypes, Steps, Moves
    <3> QED
      BY <3>2, <3>3
  <2>5. ASSUME OneOwner(own) PROVE OneOwner(own)'
    <3>1. CASE from = to /\ Rests(t)
      BY <1>1, <1>3, <1>4, <2>1, <2>3, <2>5, <3>1 DEF OneOwner, OwnsRecord, Rests, StatusDirs
    <3>2. CASE from # to /\ Moves(t, "unlink", from, to)
      BY <1>1, <1>3, <2>1, <2>3, <2>5, <3>2 DEF OneOwner, OwnsRecord, Moves, StatusDirs
    <3> QED
      BY <2>4, <3>1, <3>2
  <2>6. ASSUME FilesKept(own) PROVE FilesKept(own)'
    <3>1. \A d : Writing(own, d) => d = to \/ Writing(own, d)'
      BY <1>1, <1>3, <2>1 DEF Writing
    <3>2. /\ file'[own].pending = file[own].pending
          /\ to = "sent" => file'[own].sent = "ok" /\ file'[own].failed = file[own].failed
          /\ to = "failed" => file'[own].failed = "ok" /\ file'[own].sent = file[own].sent
      BY <2>3 DEF StatusDirs
    <3>3. /\ file'[own].pending # "cut"
          /\ file'[own].sent = "cut" => Writing(own, "sent")'
          /\ file'[own].failed = "cut" => \/ Writing(own, "failed")' \/ file'[own].pending = "ok"
                                          \/ file'[own].sent # "none"
      BY <2>6, <3>1, <3>2 DEF FilesKept
    <3>4. ASSUME NEW u \in Senders, u # t, sender'[u].id = own
          PROVE  /\ sender'[u].pc = "write" => file'[own][sender'[u].to] # "none" \/ file'[own].sent # "none"
                 /\ sender'[u].pc = "unlink" /\ sender'[u].to = "sent" => file'[own].sent # "none"
                 /\ sender'[u].pc = "unlink" /\ sender'[u].to = "failed" =>
                      file'[own].failed = "ok" \/ Writing(own, "failed")' \/ file'[own].sent # "none"
      <4>1. sender'[u] = sender[u] /\ sender[u].id = own
        BY <1>3, <3>4
      <4>2. sender[u].pc = "write" => sender[u].to \in {"sent", "failed"}
        BY DEF OutreachTypes, Steps, StepIsSound
      <4>3. /\ sender[u].pc = "write" => file[own][sender[u].to] # "none" \/ file[own].sent # "none"
            /\ sender[u].pc = "unlink" /\ sender[u].to = "sent" => file[own].sent # "none"
            /\ sender[u].pc = "unlink" /\ sender[u].to = "failed" =>
                 file[own].failed = "ok" \/ Writing(own, "failed") \/ file[own].sent # "none"
        BY <2>6, <4>1 DEF FilesKept
      <4> QED
        BY <3>1, <3>2, <4>1, <4>2, <4>3
    <3>5. \E d \in StatusDirs : file'[own][d] # "none"
      BY <2>3
    <3>6. \/ sender'[t].id # own
          \/ sender'[t].pc = "unlink" /\ sender'[t].to = to /\ file'[own][to] = "ok"
      BY <1>4, <2>3, <2>4 DEF Rests, Moves
    <3> QED
      BY <3>2, <3>3, <3>4, <3>5, <3>6 DEF FilesKept
  <2>7. RecordInv(own)'
    BY <1>2, <1>6, <1>7, <2>1, <2>5, <2>6 DEF RecordInv
  <2> QED
    BY <1>5, <2>7
<1>14. CASE Unlink(t)
  <2>1. sender[t].pc = "unlink" /\ UNCHANGED <<delivered, doubt>>
    BY <1>14 DEF Unlink
  <2> PICK to \in {"sent", "failed"} : sender[t].to = to
    BY <1>1, <2>1
  <2>2. file'[own] = [file[own] EXCEPT ![from] = "none"] /\ from # to
    BY <1>1, <1>6, <1>14 DEF Unlink, OutreachTypes, StepIsSound
  <2>3. /\ file'[own][from] = "none" /\ from \in StatusDirs
        /\ \A d \in StatusDirs : d # from => file'[own][d] = file[own][d]
    BY <1>8, <2>2 DEF StatusDirs
  <2>4. Rests(t)
    BY <1>3, <1>4, <1>14 DEF Unlink, OutreachTypes, Resting, Rests
  <2>5. ASSUME OneOwner(own) PROVE OneOwner(own)'
    BY <1>1, <1>3, <1>4, <2>1, <2>2, <2>3, <2>4, <2>5 DEF OneOwner, OwnsRecord, Rests, StatusDirs
  \* Whoever removes the failed one has written the sent one, and whoever
  \* removes the pending one has written another; these two stay.
  <2>6. ASSUME FilesKept(own) PROVE FilesKept(own)'
    <3>1. \A u \in Senders : sender'[u].id = own => u # t /\ sender'[u] = sender[u]
      BY <1>4, <2>4 DEF Rests
    <3>2. ASSUME NEW d, Writing(own, d) PROVE Writing(own, d)'
      BY <1>3, <2>1, <3>2 DEF Writing
    <3>3. file'[own].sent = file[own].sent
      BY <2>3 DEF StatusDirs
    <3>4. CASE from = "failed"
      <4>1. to = "sent" /\ file[own].sent # "none" /\ file'[own].failed = "none"
        BY <1>1, <2>1, <2>2, <2>3, <2>6, <3>4 DEF FilesKept
      <4> QED
        BY <1>2, <2>3, <2>6, <3>1, <3>2, <3>3, <3>4, <4>1 DEF FilesKept, StatusDirs
    <3>5. CASE from = "pending"
      <4>1. file'[own].failed = file[own].failed /\ file'[own].pending = "none"
        BY <2>3, <3>5 DEF StatusDirs
      <4>2. file[own].sent # "none" \/ file[own].failed = "ok" \/ Writing(own, "failed")
        BY <1>1, <2>1, <2>6 DEF FilesKept
      <4>3. Writing(own, "failed") => file[own].failed # "none" \/ file[own].sent # "none"
        BY <2>6 DEF FilesKept, Writing
      <4> QED
        <5>1. /\ file'[own].pending # "cut"
              /\ file'[own].sent = "cut" => Writing(own, "sent")'
              /\ file'[own].failed = "cut" => \/ Writing(own, "failed")' \/ file'[own].sent # "none"
          BY <2>6, <3>2, <3>3, <4>1, <4>2 DEF FilesKept
        <5>2. ASSUME NEW u \in Senders, sender'[u].id = own
              PROVE  /\ sender'[u].pc = "write" =>
                          file'[own][sender'[u].to] # "none" \/ file'[own].sent # "none"
                     /\ sender'[u].pc = "unlink" /\ sender'[u].to = "sent" => file'[own].sent # "none"
                     /\ sender'[u].pc = "unlink" /\ sender'[u].to = "failed" =>
                          file'[own].failed = "ok" \/ Writing(own, "failed")' \/ file'[own].sent # "none"
          <6>1. sender'[u] = sender[u] /\ sender[u].id = own
            BY <3>1, <5>2
          <6>2. sender[u].pc = "write" => sender[u].to \in {"sent", "failed"}
            BY DEF OutreachTypes, Steps, StepIsSound
          <6>3. /\ sender[u].pc = "write" => file[own][sender[u].to] # "none" \/ file[own].sent # "none"
                /\ sender[u].pc = "unlink" /\ sender[u].to = "sent" => file[own].sent # "none"
                /\ sender[u].pc = "unlink" /\ sender[u].to = "failed" =>
                     file[own].failed = "ok" \/ Writing(own, "failed") \/ file[own].sent # "none"
            BY <2>6, <6>1 DEF FilesKept
          <6> QED
            BY <3>2, <3>3, <4>1, <6>1, <6>2, <6>3
        <5>3. file'[own].sent # "none" \/ file'[own].failed # "none"
          BY <3>3, <4>1, <4>2, <4>3
        <5>4. \E d \in StatusDirs : file'[own][d] # "none"
          BY <5>3 DEF StatusDirs
        <5> QED
          BY <5>1, <5>2, <5>4 DEF FilesKept
    <3> QED
      BY <3>4, <3>5
  <2>7. RecordInv(own)'
    BY <1>2, <1>6, <1>7, <2>1, <2>5, <2>6 DEF RecordInv
  <2> QED
    BY <1>5, <2>7
<1> QED
  BY <1>9, <1>10, <1>11, <1>12, <1>13, <1>14 DEF Send

(* A thread takes a record that nobody else has when it is not shared, and *)
(* of a record that was sent it finds no file that it would send.          *)
LEMMA LoadKeeps ==
  ASSUME NEW t \in Senders, NEW own \in OutreachIds, NEW status \in StatusDirs,
         OutreachTypes, Load(t, own, status), \A id \in OutreachIds : RecordInv(id)
  PROVE  OutreachTypes' /\ \A id \in OutreachIds : RecordInv(id)'
<1>1. /\ sender[t] = Resting /\ file[own][status] = "ok" /\ status \in {"pending", "failed"}
      /\ status = "failed" => file[own].pending = "none" /\ file[own].sent = "none"
      /\ draft[own].contact # NoContact /\ UNCHANGED <<draft, file, delivered, doubt>>
      /\ sender' = [sender EXCEPT ![t] = [Resting EXCEPT !.pc = "call", !.id = own, !.from = status]]
      /\ shared' = [shared EXCEPT ![own] = @ \/ SendersOf(own) # {}]
  BY DEF Load
<1> DEFINE s == [Resting EXCEPT !.pc = "call", !.id = own, !.from = status]
<1>2. sender' = [sender EXCEPT ![t] = s]
  BY <1>1
<1>3. s.pc = "call" /\ s.id = own /\ s.from = status /\ s.to = "none" /\ s \in Steps
  BY <1>1 DEF Resting, Steps
<1> HIDE DEF s
<1>3a. StepIsSound(s)
  BY <1>1, <1>3, IdsAssumption DEF StepIsSound
<1>4. OutreachTypes'
  <2>1. sender' \in [Senders -> Steps] /\ \A u \in Senders : StepIsSound(sender'[u])
    BY <1>2, <1>3, <1>3a DEF OutreachTypes
  <2>2. shared' \in [OutreachIds -> BOOLEAN]
    BY <1>1 DEF OutreachTypes
  <2> QED
    BY <1>1, <2>1, <2>2 DEF OutreachTypes
<1>5. /\ sender'[t].pc = "call" /\ sender'[t].id = own /\ sender'[t].from = status
      /\ sender'[t].to = "none" /\ \A u \in Senders : u # t => sender'[u] = sender[u]
  BY <1>2, <1>3 DEF OutreachTypes
<1>6. /\ shared[own] => shared'[own]
      /\ ~shared'[own] => \A u \in Senders : sender[u].id # own
  BY <1>1 DEF OutreachTypes, SendersOf
<1>7. sender[t].pc = "idle" /\ sender[t].id = "none" /\ "none" # own
  BY <1>1, IdsAssumption DEF Resting
<1>8. ASSUME NEW id \in OutreachIds, id # own PROVE RecordInv(id)'
  <2>1. shared'[id] = shared[id]
    BY <1>1, <1>8 DEF OutreachTypes
  <2>2. \A u \in Senders : sender[u].id = id \/ sender'[u].id = id => sender'[u] = sender[u]
    BY <1>5, <1>7, <1>8, IdsAssumption
  <2> QED
    BY <1>1, <2>1, <2>2, OtherRecord
<1>9. draft[own] # NoDraft
  BY <1>1 DEF NoDraft
<1>10. Made(own)'
  BY <1>1, <1>9 DEF RecordInv, Made, Drafted
<1>11. ASSUME ~shared'[own], OneOwner(own) PROVE OneOwner(own)'
  <2>1. /\ delivered[own] = 0 \/ (file[own].sent = "ok" /\ file[own].pending = "none")
        /\ \A u \in Senders : sender[u].id # own
    BY <1>6, <1>11 DEF OneOwner
  <2>2. delivered[own] = 0
    BY <1>1, <2>1
  <2>3. OwnsRecord(t, own)'
    BY <1>1, <1>5, <2>1, <2>2 DEF OwnsRecord
  <2> QED
    BY <1>5, <2>1, <2>3 DEF OneOwner
<1>12. ASSUME FilesKept(own) PROVE FilesKept(own)'
  <2>1. \A d : Writing(own, d)' <=> Writing(own, d)
    BY <1>5, <1>7 DEF Writing
  <2> QED
    BY <1>1, <1>5, <1>7, <1>12, <2>1 DEF FilesKept
<1>13. RecordInv(own)'
  BY <1>1, <1>6, <1>10, <1>11, <1>12 DEF RecordInv
<1> QED
  BY <1>4, <1>8, <1>13

LEMMA SaveDraftKeeps ==
  ASSUME NEW own \in OutreachIds, OutreachTypes, SaveDraft(own), \A id \in OutreachIds : RecordInv(id)
  PROVE  OutreachTypes' /\ \A id \in OutreachIds : RecordInv(id)'
<1>1. /\ file[own] = [d \in StatusDirs |-> "none"] /\ ~doubt[own]
      /\ draft' = [draft EXCEPT ![own] = Drafted[own]]
      /\ file' = [file EXCEPT ![own].pending = "ok"]
      /\ UNCHANGED <<sender, delivered, shared, doubt>>
  BY DEF SaveDraft
<1>2. OutreachTypes'
  BY <1>1 DEF OutreachTypes, StatusDirs
<1>3. ASSUME NEW id \in OutreachIds, id # own PROVE RecordInv(id)'
  <2>1. draft'[id] = draft[id] /\ file'[id] = file[id]
    BY <1>1, <1>3 DEF OutreachTypes
  <2> QED
    BY <1>1, <2>1, OtherRecord
<1>4. draft[own] = NoDraft
  BY <1>1 DEF RecordInv, FilesKept
<1>5. (\A t \in Senders : sender[t].id # own) /\ delivered[own] = 0
  BY <1>4 DEF RecordInv, Made
<1>6. /\ file'[own].pending = "ok" /\ file'[own].sent = "none" /\ file'[own].failed = "none"
      /\ draft'[own] = Drafted[own]
  BY <1>1 DEF OutreachTypes, StatusDirs
<1>7. Made(own)'
  BY <1>1, <1>5, <1>6 DEF Made, Drafted
<1>8. OneOwner(own)'
  BY <1>1, <1>5 DEF OneOwner
<1>9. FilesKept(own)'
  BY <1>1, <1>5, <1>6 DEF FilesKept, StatusDirs
<1> QED
  BY <1>2, <1>3, <1>7, <1>8, <1>9 DEF RecordInv

(* What a crash leaves in doubt is what the next start could send twice or *)
(* could not read.                                                         *)
LEMMA DieKeeps ==
  ASSUME OutreachTypes, Die, \A id \in OutreachIds : RecordInv(id)
  PROVE  OutreachTypes' /\ \A id \in OutreachIds : RecordInv(id)'
<1>1. /\ sender' = [t \in Senders |-> Resting] /\ UNCHANGED <<draft, file, delivered, shared>>
      /\ doubt' = [id \in OutreachIds |-> doubt[id] \/ \E t \in SendersOf(id) :
           \/ sender[t].to = "sent" /\ (sender[t].pc # "unlink" \/ sender[t].from = "pending")
           \/ sender[t].pc = "write" /\ (sender[t].to = sender[t].from \/ shared[id])]
  BY DEF Die
<1>2. OutreachTypes'
  <2>1. doubt' \in [OutreachIds -> BOOLEAN]
    BY <1>1 DEF OutreachTypes
  <2>2. sender' \in [Senders -> Steps] /\ \A t \in Senders : StepIsSound(sender'[t])
    BY <1>1 DEF Steps, StepIsSound, Resting
  <2> QED
    BY <1>1, <2>1, <2>2 DEF OutreachTypes
<1> SUFFICES ASSUME NEW id \in OutreachIds PROVE RecordInv(id)'
  BY <1>2
<1>3. \A t \in Senders : sender'[t].id # id
  BY <1>1, IdsAssumption DEF Resting
<1>4. /\ doubt[id] => doubt'[id]
      /\ ~doubt'[id] => \A t \in Senders : sender[t].id = id =>
           /\ sender[t].to = "sent" => sender[t].pc = "unlink" /\ sender[t].from # "pending"
           /\ sender[t].pc = "write" => sender[t].to # sender[t].from /\ ~shared[id]
  BY <1>1 DEF SendersOf
<1>5. \A t \in Senders : sender[t].id = id =>
        /\ sender[t].from \in {"pending", "failed"} /\ sender[t].to \in {"none", "sent", "failed"}
        /\ sender[t].pc = "call" \/ sender[t].to \in {"sent", "failed"}
        /\ sender[t].pc \in {"write", "unlink"} => sender[t].to \in {"sent", "failed"}
  BY IdsAssumption DEF OutreachTypes, Steps, StepIsSound
<1>6. Made(id)'
  BY <1>1, <1>3 DEF RecordInv, Made, Drafted
<1>7. ASSUME ~shared[id], ~doubt'[id] PROVE OneOwner(id)'
  <2>1. OneOwner(id)
    BY <1>4, <1>7 DEF RecordInv
  <2>2. ASSUME NEW t \in Senders, sender[t].id = id
        PROVE  delivered[id] = 0 \/ (delivered[id] = 1 /\ file[id].sent = "ok" /\ file[id].pending = "none")
    BY <1>4, <1>5, <1>7, <2>1, <2>2 DEF OneOwner, OwnsRecord
  <2> QED
    BY <1>1, <1>3, <2>1, <2>2 DEF OneOwner
<1>8. ASSUME ~doubt'[id] PROVE FilesKept(id)'
  <2>1. FilesKept(id) /\ (~shared[id] => OneOwner(id))
    BY <1>4, <1>8 DEF RecordInv
  <2>2. ~Writing(id, "sent")
    BY <1>4, <1>8 DEF Writing
  <2>3. Writing(id, "failed") => file[id].pending = "ok"
    BY <1>4, <1>5, <1>8, <2>1 DEF Writing, OneOwner, OwnsRecord
  <2> QED
    BY <1>1, <1>3, <2>1, <2>2, <2>3 DEF FilesKept
<1> QED
  BY <1>1, <1>6, <1>7, <1>8 DEF RecordInv

(* No more is delivered than sends were begun.                             *)
LEMMA SendsCountStep ==
  ASSUME OutreachTypes, OutreachTypes', SendsCount, OutreachNext PROVE SendsCount'
<1> USE IdsAssumption
<1>1. MaxSends \in Nat
  BY OutreachAssumption
<1>2. sends' \in 0 .. MaxSends
  <2>1. sends' = sends \/ (sends < MaxSends /\ sends' = sends + 1)
    BY DEF OutreachNext, SaveDraft, Load, Send, Deliver, Refuse, Unanswered, SaveBegins, SaveEnds,
           Unlink, Die
  <2>2. sends \in 0 .. MaxSends
    BY DEF SendsCount
  <2> QED
    BY <1>1, <2>1, <2>2
<1> SUFFICES ASSUME NEW id \in OutreachIds
             PROVE  delivered'[id] + Cardinality(Calling(id)') <= sends'
  BY <1>2 DEF SendsCount
<1> DEFINE calling == Calling(id)
           callingNext == {t \in Senders : sender'[t].pc = "call" /\ sender'[t].id = id}
<1>3. callingNext = Calling(id)'
  BY DEF Calling
<1>4. /\ IsFiniteSet(calling) /\ Cardinality(calling) \in Nat
      /\ IsFiniteSet(callingNext) /\ Cardinality(callingNext) \in Nat
      /\ \A t : calling \ {t} \subseteq calling
  <2>1. IsFiniteSet(calling) /\ IsFiniteSet(callingNext)
    BY FS_Subset DEF Calling
  <2> QED
    BY <2>1, FS_CardinalityType
<1>5. /\ delivered[id] \in Nat /\ delivered'[id] \in Nat /\ sends \in Nat
      /\ delivered[id] + Cardinality(calling) <= sends
  BY DEF SendsCount, OutreachTypes
<1> HIDE DEF calling, callingNext
<1>6. ASSUME delivered'[id] = delivered[id], sends' = sends, callingNext \subseteq calling
      PROVE  delivered'[id] + Cardinality(callingNext) <= sends'
  <2>1. Cardinality(callingNext) <= Cardinality(calling)
    BY <1>4, <1>6, FS_Subset
  <2> QED
    BY <1>4, <1>5, <1>6, <2>1
<1>7. ASSUME NEW t \in Senders, Send(t)
      PROVE  delivered'[id] + Cardinality(callingNext) <= sends'
  <2>1. /\ sends' = sends /\ sender[t].id \in OutreachIds
        /\ sender'[t].pc # "call" /\ \A u \in Senders : u # t => sender'[u] = sender[u]
    <3>1. sends' = sends /\ sender[t].id \in OutreachIds
      BY <1>7, SendTypes DEF Send, Deliver, Refuse, Unanswered, SaveBegins, SaveEnds, Unlink
    <3>2. CASE Deliver(t) \/ Refuse(t)
      BY <3>1, <3>2 DEF OutreachTypes, Steps, Deliver, Refuse
    <3>3. CASE Unanswered(t)
      BY <3>1, <3>3 DEF OutreachTypes, Steps, Unanswered, Resting
    <3>4. CASE SaveBegins(t)
      BY <3>1, <3>4 DEF OutreachTypes, Steps, SaveBegins
    <3>5. CASE SaveEnds(t) \/ Unlink(t)
      BY <3>1, <3>5 DEF OutreachTypes, Steps, SaveEnds, Unlink, Resting
    <3> QED
      BY <1>7, <3>2, <3>3, <3>4, <3>5, SMTT(30) DEF Send
  <2>2. callingNext \subseteq calling \ {t}
    BY <2>1 DEF calling, callingNext, Calling
  <2>3. CASE delivered'[id] = delivered[id]
    BY <1>6, <2>1, <2>2, <2>3
  <2>4. CASE delivered'[id] # delivered[id]
    <3>1. (Deliver(t) \/ Unanswered(t)) /\ sender[t].id = id
      BY <1>7, <2>1, <2>4
         DEF OutreachTypes, Send, Deliver, Refuse, Unanswered, SaveBegins, SaveEnds, Unlink
    <3>2. delivered'[id] <= delivered[id] + 1
      <4>1. \E n \in {0, 1} : delivered' = [delivered EXCEPT ![id] = @ + n]
        BY <3>1 DEF Deliver, Unanswered
      <4> QED
        BY <1>5, <4>1 DEF OutreachTypes
    <3>3. t \in calling
      BY <3>1 DEF calling, Calling, Deliver, Unanswered
    <3>4. /\ Cardinality(calling \ {t}) = Cardinality(calling) - 1 /\ IsFiniteSet(calling \ {t})
          /\ Cardinality(callingNext) <= Cardinality(calling \ {t})
      BY <1>4, <2>2, <3>3, FS_RemoveElement, FS_Subset
    <3>5. Cardinality(calling) - 1 \in Nat
      BY <3>4, FS_CardinalityType
    <3> QED
      BY <1>4, <1>5, <2>1, <3>2, <3>4, <3>5
  <2> QED
    BY <2>3, <2>4
<1>8. ASSUME NEW t \in Senders, NEW own \in OutreachIds, NEW d \in StatusDirs, Load(t, own, d)
      PROVE  delivered'[id] + Cardinality(callingNext) <= sends'
  <2>1. delivered' = delivered /\ sends' = sends + 1
    BY <1>8 DEF Load
  <2>2. callingNext \subseteq calling \cup {t}
    BY <1>8 DEF calling, callingNext, Calling, Load, OutreachTypes
  <2>3. /\ Cardinality(callingNext) <= Cardinality(calling \cup {t})
        /\ Cardinality(calling \cup {t}) <= Cardinality(calling) + 1
        /\ Cardinality(calling \cup {t}) \in Nat
    <3>1. /\ IsFiniteSet(calling \cup {t})
          /\ Cardinality(calling \cup {t}) = IF t \in calling THEN Cardinality(calling)
                                             ELSE Cardinality(calling) + 1
      BY <1>4, FS_AddElement
    <3>2. Cardinality(callingNext) <= Cardinality(calling \cup {t})
      BY <2>2, <3>1, FS_Subset
    <3> QED
      BY <1>4, <3>1, <3>2
  <2> QED
    BY <1>4, <1>5, <2>1, <2>3
<1>9. CASE Die
  <2>1. delivered' = delivered /\ sends' = sends
    BY <1>9 DEF Die
  <2>2. callingNext \subseteq calling
    BY <1>9 DEF callingNext, Die, Resting
  <2> QED
    BY <1>3, <1>6, <2>1, <2>2
<1>10. ASSUME NEW own \in OutreachIds, SaveDraft(own)
       PROVE  delivered'[id] + Cardinality(callingNext) <= sends'
  <2>1. UNCHANGED <<delivered, sends, sender>>
    BY <1>10 DEF SaveDraft
  <2>2. callingNext \subseteq calling
    BY <2>1 DEF calling, callingNext, Calling
  <2> QED
    BY <1>6, <2>1, <2>2
<1> QED
  BY <1>3, <1>7, <1>8, <1>9, <1>10 DEF OutreachNext

LEMMA OutreachStep == ASSUME OutreachInv, [OutreachNext]_outreachVars PROVE OutreachInv'
<1> USE DEF OutreachInv
<1>1. CASE OutreachNext
  <2>1. OutreachTypes' /\ \A id \in OutreachIds : RecordInv(id)'
    <3>1. ASSUME NEW id \in OutreachIds, SaveDraft(id)
          PROVE  OutreachTypes' /\ \A i \in OutreachIds : RecordInv(i)'
      BY <3>1, SaveDraftKeeps
    <3>2. ASSUME NEW t \in Senders, Send(t)
          PROVE  OutreachTypes' /\ \A i \in OutreachIds : RecordInv(i)'
      BY <3>2, SendTypes, SendKeeps
    <3>3. ASSUME NEW t \in Senders, NEW id \in OutreachIds, NEW d \in StatusDirs, Load(t, id, d)
          PROVE  OutreachTypes' /\ \A i \in OutreachIds : RecordInv(i)'
      BY <3>3, LoadKeeps
    <3>4. CASE Die
      BY <3>4, DieKeeps
    <3> QED
      BY <1>1, <3>1, <3>2, <3>3, <3>4 DEF OutreachNext
  <2>2. SendsCount'
    BY <1>1, <2>1, SendsCountStep
  <2> QED
    BY <2>1, <2>2
<1>2. CASE UNCHANGED outreachVars
  <2>1. OutreachTypes' /\ SendsCount'
    BY <1>2 DEF outreachVars, OutreachTypes, SendsCount, Calling
  <2>2. \A id \in OutreachIds : RecordInv(id)'
    BY <1>2, OtherRecord DEF outreachVars
  <2> QED
    BY <2>1, <2>2
<1> QED
  BY <1>1, <1>2

(* The inductive invariant of the records.                                 *)
THEOREM OutreachInvariant == OutreachSpec => []OutreachInv
BY OutreachBegins, OutreachStep, PTL DEF OutreachSpec

LEMMA OutreachTypesAgree == ASSUME OutreachInv PROVE OutreachTypeOK
<1>1. \A t \in Senders :
       /\ sender[t].pc \in {"idle", "call", "save", "write", "unlink"}
       /\ (sender[t].pc = "idle") = (sender[t].id = "none")
       /\ (sender[t].pc \in {"save", "write", "unlink"}) = (sender[t].to # "none")
       /\ sender[t].pc = "unlink" => sender[t].from # sender[t].to
  BY DEF OutreachInv, OutreachTypes, Steps, StepIsSound
<1>2. ASSUME NEW id \in OutreachIds PROVE delivered[id] \in 0 .. MaxSends
  <2>1. Cardinality(Calling(id)) \in Nat
    <3>1. Calling(id) \subseteq Senders
      BY DEF Calling
    <3> QED
      BY <3>1, IdsAssumption, FS_Subset, FS_CardinalityType
  <2>2. /\ delivered[id] \in Nat /\ sends \in 0 .. MaxSends
        /\ delivered[id] + Cardinality(Calling(id)) <= sends
    BY DEF OutreachInv, OutreachTypes, SendsCount
  <2> QED
    BY <2>1, <2>2, OutreachAssumption
<1>3. delivered \in [OutreachIds -> 0 .. MaxSends]
  BY <1>2 DEF OutreachInv, OutreachTypes
<1> QED
  BY <1>1, <1>3 DEF OutreachInv, OutreachTypes, OutreachTypeOK

LEMMA OneOwnerDelivers == ASSUME OutreachInv PROVE DeliveredOnce
<1> SUFFICES ASSUME NEW id \in OutreachIds, ~shared[id], ~doubt[id] PROVE delivered[id] <= 1
  BY DEF DeliveredOnce
<1>1. OneOwner(id)
  BY DEF OutreachInv, RecordInv
<1>2. CASE \A t \in Senders : sender[t].id # id
  BY <1>1, <1>2 DEF OneOwner
<1>3. ASSUME NEW t \in Senders, sender[t].id = id PROVE delivered[id] <= 1
  <2>1. sender[t].pc = "call" \/ sender[t].to \in {"failed", "sent"}
    BY <1>3, IdsAssumption DEF OutreachInv, OutreachTypes, Steps, StepIsSound
  <2> QED
    BY <1>1, <1>3, <2>1 DEF OneOwner, OwnsRecord
<1> QED
  BY <1>2, <1>3

LEMMA SomeCopyIsReadable == ASSUME OutreachInv PROVE ReadableCopy
<1> SUFFICES ASSUME NEW id \in OutreachIds, draft[id] # NoDraft, ~doubt[id],
                    \A d \in StatusDirs : file[id][d] # "ok"
             PROVE  \E t \in SendersOf(id) : /\ sender[t].pc = "write"
                                             /\ sender[t].from = sender[t].to \/ shared[id]
  BY DEF ReadableCopy
<1>1. FilesKept(id) /\ (~shared[id] => OneOwner(id))
  BY DEF OutreachInv, RecordInv
<1>2. file[id].pending # "ok" /\ file[id].sent # "ok" /\ file[id].failed # "ok"
  BY DEF StatusDirs
<1>3. file[id].sent = "cut" \/ file[id].failed = "cut"
  <2>1. PICK d \in StatusDirs : file[id][d] # "none"
    BY <1>1 DEF FilesKept
  <2>2. file[id][d] = "cut" /\ d \in {"pending", "sent", "failed"}
    BY <2>1 DEF OutreachInv, OutreachTypes, StatusDirs
  <2> QED
    BY <1>1, <2>2 DEF FilesKept
<1>4. Writing(id, "sent") \/ Writing(id, "failed")
  <2>1. CASE file[id].sent = "cut"
    BY <1>1, <2>1 DEF FilesKept
  <2>2. CASE file[id].sent # "cut"
    <3>1. file[id].sent = "none"
      BY <1>2, <2>2 DEF OutreachInv, OutreachTypes, StatusDirs
    <3> QED
      BY <1>1, <1>2, <1>3, <2>2, <3>1 DEF FilesKept
  <2> QED
    BY <2>1, <2>2
<1>5. PICK t \in Senders : sender[t].id = id /\ sender[t].pc = "write"
  BY <1>4 DEF Writing
<1>6. sender[t].from \in {"pending", "failed"}
  BY <1>5 DEF OutreachInv, OutreachTypes, Steps, StepIsSound
<1>7. ~shared[id] => sender[t].from = sender[t].to
  BY <1>1, <1>2, <1>5, <1>6 DEF OneOwner, OwnsRecord, StatusDirs
<1> QED
  BY <1>5, <1>7 DEF SendersOf

(* Sending, retrying and crashing in any order, with any number of threads *)
(* and records: an office gets one message about one question unless two   *)
(* administrators sent it at once or the outcome was in doubt, and no      *)
(* draft is without a file that can be read.                               *)
THEOREM RecordsAreSentOnce ==
  OutreachSpec => [](OutreachTypeOK /\ DeliveredOnce /\ ReadableCopy)
BY OutreachInvariant, OutreachTypesAgree, OneOwnerDelivers, SomeCopyIsReadable, PTL

(* Records are written by the drafting only, so that what is true of the   *)
(* drafting is true of what an office receives.                            *)
LEMMA SentAsDrafted ==
  OutreachSpec => [](\A id \in OutreachIds : delivered[id] > 0 =>
                       draft[id] = Drafted[id] /\ draft[id].contact # NoContact)
<1>1. ASSUME OutreachInv
      PROVE  \A id \in OutreachIds : delivered[id] > 0 =>
               draft[id] = Drafted[id] /\ draft[id].contact # NoContact
  <2> SUFFICES ASSUME NEW id \in OutreachIds, delivered[id] > 0
               PROVE  draft[id] = Drafted[id] /\ draft[id].contact # NoContact
    OBVIOUS
  <2>1. delivered[id] # 0
    OBVIOUS
  <2>2. Made(id)
    BY <1>1 DEF OutreachInv, RecordInv
  <2> QED
    BY <2>1, <2>2 DEF Made
<1> QED
  BY <1>1, OutreachInvariant, PTL

(***************************************************************************)
(* Searching.  Every statement returns rows of the table, every list that  *)
(* is built from them has scored rows of it only, and what is left at the  *)
(* end has one row per url.                                                *)
(***************************************************************************)
LEMMA ListOf ==
  ASSUME NEW T, NEW n \in Nat, NEW f \in [1 .. n -> T]
  PROVE  f \in Seq(T)
  OBVIOUS

(* The first n of a list.                                                  *)
LEMMA UptoIs ==
  ASSUME NEW S, NEW s \in Seq(S), NEW n \in Nat
  PROVE  /\ Upto(n, s) \in Seq(S) /\ Len(Upto(n, s)) <= n
         /\ Len(Upto(n, s)) <= Len(s) /\ \A i \in 1 .. Len(Upto(n, s)) : Upto(n, s)[i] = s[i]
         /\ Len(s) > 0 /\ n > 0 => Len(Upto(n, s)) > 0
<1> DEFINE m == Min({n, Len(s)})
<1>1. m \in {n, Len(s)} /\ m <= n /\ m <= Len(s)
  <2>1. {n, Len(s)} \subseteq Nat /\ {n, Len(s)} # {}
    OBVIOUS
  <2> QED
    BY <2>1, LeastPlace
<1>2. Upto(n, s) = SubSeq(s, 1, m)
  BY DEF Upto
<1> HIDE DEF m
<1>3. m \in Nat /\ m <= Len(s)
  BY <1>1
<1>4. /\ SubSeq(s, 1, m) \in Seq(S) /\ Len(SubSeq(s, 1, m)) = m
      /\ \A i \in 1 .. m : SubSeq(s, 1, m)[i] = s[i]
  BY <1>3, StartOf
<1> QED
  BY <1>1, <1>2, <1>4

LEMMA PickedType ==
  ASSUME NEW S, NEW s \in Seq(S), NEW K
  PROVE  Picked(s, K) \in Seq(S)
  BY PickedPlaces

LEMMA SortedType ==
  ASSUME NEW S, NEW s \in Seq(S), NEW key
  PROVE  SortedByKey(s, key) \in Seq(S)
<1> DEFINE lists == [k \in 1 .. 6 |-> Picked(s, {i \in DOMAIN s : key[i] = k})]
<1>1. \A k \in 1 .. 6 : Picked(s, {i \in DOMAIN s : key[i] = k}) \in Seq(S)
  BY PickedType
<1>2. lists \in [1 .. 6 -> Seq(S)]
  BY <1>1
<1>3. SortedByKey(s, key) = Concat(lists)
  BY DEF SortedByKey
<1> HIDE DEF lists
<1>4. lists \in Seq(Seq(S))
  BY <1>2, ListOf
<1> QED
  BY <1>3, <1>4, ConcatType

(* What the statements return are rows of the table.                       *)
LEMMA FtsRowsType ==
  ASSUME NEW C, NEW rows \in Seq(C), NEW s, NEW limit \in Nat,
         NEW copies0, \A c \in C : copies0[c.id] \in Nat
  PROVE  FtsRows(s, rows, copies0, limit) \in Seq(C)
<1> DEFINE lists == [i \in DOMAIN rows |-> IF rows[i].words \cap s.terms = {} THEN <<>>
                                         ELSE [k \in 1 .. copies0[rows[i].id] |-> rows[i]]]
<1>1. DOMAIN rows = 1 .. Len(rows) /\ Len(rows) \in Nat
  OBVIOUS
<1>2. ASSUME NEW i \in 1 .. Len(rows) PROVE lists[i] \in Seq(C)
  <2>1. rows[i] \in C
    OBVIOUS
  <2>2. copies0[rows[i].id] \in Nat
    BY <2>1
  <2> DEFINE again == [k \in 1 .. copies0[rows[i].id] |-> rows[i]]
  <2>3. again \in [1 .. copies0[rows[i].id] -> C]
    BY <2>1
  <2>4. again \in Seq(C) /\ <<>> \in Seq(C)
    BY <2>2, <2>3, ListOf, SMTT(30)
  <2> QED
    BY <1>1, <2>4
<1>3. lists \in [1 .. Len(rows) -> Seq(C)]
  BY <1>1, <1>2
<1>4. FtsRows(s, rows, copies0, limit) = Upto(limit, Concat(lists))
  BY DEF FtsRows
<1> HIDE DEF lists
<1>5. lists \in Seq(Seq(C))
  BY <1>1, <1>3, ListOf
<1>6. Concat(lists) \in Seq(C)
  BY <1>5, ConcatType
<1> QED
  BY <1>4, <1>6, UptoIs

LEMMA DirectRowsType ==
  ASSUME NEW C, NEW rows \in Seq(C), NEW s, NEW limit \in Nat
  PROVE  AnyContact(s, rows) \in Seq(C) /\ DirectContactRows(s, rows, limit) \in Seq(C)
<1> DEFINE any == AnyContact(s, rows)
           sorted == SortedByKey(any, [i \in DOMAIN any |-> ContactKey(any[i])])
<1>1. any \in Seq(C)
  BY PickedType DEF AnyContact
<1>2. DirectContactRows(s, rows, limit) = Upto(limit, sorted)
  BY DEF DirectContactRows
<1>3. sorted \in Seq(C)
  <2> HIDE DEF any
  <2> QED
    BY <1>1, SortedType
<1> HIDE DEF sorted
<1> QED
  BY <1>1, <1>2, <1>3, UptoIs

LEMMA ContactRowsType ==
  ASSUME NEW C, NEW rows \in Seq(C), NEW s
  PROVE  LocalRootRows(s, rows) \in Seq(C) /\ ContactRows(s, rows) \in Seq(C)
<1> DEFINE direct == Picked(rows, {i \in DOMAIN rows :
                               rows[i].host \in s.here /\ "contact page" \in rows[i].marks})
           any == AnyContact(s, rows)
           sorted == SortedByKey(direct, [i \in DOMAIN direct |->
                                  IF "contact no" \in direct[i].marks THEN 1 ELSE 2])
           fallback == SortedByKey(any, [i \in DOMAIN any |-> FallbackKey(any[i])])
<1>1. direct \in Seq(C)
  BY PickedType
<1>2. ContactRows(s, rows) \in {Upto(8, sorted), Upto(24, fallback)}
  BY DEF ContactRows
<1>3. sorted \in Seq(C)
  <2> HIDE DEF direct
  <2> QED
    BY <1>1, SortedType
<1>4. fallback \in Seq(C)
  <2>1. any \in Seq(C)
    BY PickedType DEF AnyContact
  <2> HIDE DEF any
  <2> QED
    BY <2>1, SortedType
<1> HIDE DEF sorted, fallback
<1>6. Upto(8, sorted) \in Seq(C) /\ Upto(24, fallback) \in Seq(C)
  BY <1>3, <1>4, UptoIs
<1>5. LocalRootRows(s, rows) \in Seq(C)
  BY PickedType DEF LocalRootRows
<1> QED
  BY <1>2, <1>5, <1>6

LEMMA AuthorityRowsType ==
  ASSUME NEW C, NEW rows \in Seq(C), NEW s, NEW limit \in Nat,
         NEW copies0, \A c \in C : copies0[c.id] \in Nat
  PROVE  AuthorityRows(s, rows, copies0, limit) \in Seq(C)
<1> DEFINE hits == FtsRows(s, rows, copies0, 9 * Len(rows))
           kept == Picked(hits, {i \in DOMAIN hits : HostMatches(hits[i].host, Range(s.expected))})
<1>1. hits \in Seq(C)
  <2>1. 9 * Len(rows) \in Nat
    OBVIOUS
  <2> QED
    BY <2>1, FtsRowsType
<1>2. AuthorityRows(s, rows, copies0, limit) = Upto(limit, kept)
  BY DEF AuthorityRows
<1>3. kept \in Seq(C)
  <2> HIDE DEF hits
  <2> QED
    BY <1>1, PickedType
<1> HIDE DEF kept
<1> QED
  BY <1>2, <1>3, UptoIs

LEMMA ComplaintRowsType ==
  ASSUME NEW C, NEW rows \in Seq(C), NEW limit \in Nat
  PROVE  ComplaintRows(rows, limit) \in Seq(C)
<1> DEFINE any == Picked(rows, {i \in DOMAIN rows :
        /\ rows[i].host \in {"dofe.gov.np", "feb.gov.np", "moless.gov.np"}
        /\ rows[i].marks \cap {"1141", "complaint", "fraud", "receipt", "public important"} # {}})
           sorted == SortedByKey(any, [i \in DOMAIN any |-> ComplaintKey(any[i])])
<1>1. any \in Seq(C)
  BY PickedType
<1>2. ComplaintRows(rows, limit) = Upto(limit, sorted)
  BY DEF ComplaintRows
<1>3. sorted \in Seq(C)
  <2> HIDE DEF any
  <2> QED
    BY <1>1, SortedType
<1> HIDE DEF sorted
<1> QED
  BY <1>2, <1>3, UptoIs

(* The scored rows of a table.                                             *)
ScoredRows(s, C) == {Candidate(s, c, n) : c \in C, n \in Nat}

LEMMA AddRowsType ==
  ASSUME NEW C, NEW s, NEW pool \in Seq(ScoredRows(s, C)), NEW rows \in Seq(C), NEW offset \in Nat
  PROVE  AddRows(s, pool, rows, offset) \in Seq(ScoredRows(s, C))
<1> DEFINE R == ScoredRows(s, C)
           scored == [i \in DOMAIN rows |-> Candidate(s, rows[i], offset + i)]
           new == {i \in DOMAIN rows :
                     /\ \A c \in Range(pool) : c.id # rows[i].id
                     /\ \A j \in 1 .. i - 1 : rows[j].id # rows[i].id}
<1>1. DOMAIN rows = 1 .. Len(rows) /\ Len(rows) \in Nat
  OBVIOUS
<1>2. ASSUME NEW i \in 1 .. Len(rows) PROVE Candidate(s, rows[i], offset + i) \in R
  <2>1. rows[i] \in C /\ offset + i \in Nat
    OBVIOUS
  <2> QED
    BY <2>1 DEF ScoredRows
<1>3. scored \in [1 .. Len(rows) -> R]
  BY <1>1, <1>2
<1>4. AddRows(s, pool, rows, offset) = pool \o Picked(scored, new)
  BY DEF AddRows
<1> HIDE DEF scored, new, R
<1>5. Picked(scored, new) \in Seq(R)
  BY <1>1, <1>3, ListOf, PickedType
<1>6. pool \in Seq(R)
  BY DEF R
<1>7. pool \o Picked(scored, new) \in Seq(R)
  BY <1>5, <1>6
<1> QED
  BY <1>4, <1>7 DEF R

(* Further rows: a list of the table's and where they are numbered from.   *)
Supplies(more, C) ==
  Len(more) \in Nat /\ \A n \in 1 .. Len(more) : more[n].rows \in Seq(C)

LEMMA PoolType ==
  ASSUME NEW C, NEW s, NEW main \in Seq(C), NEW supplements, Supplies(supplements, C)
  PROVE  Pool(s, main, supplements) \in Seq(ScoredRows(s, C))
<1> DEFINE N == Len(supplements)
           T == Seq(ScoredRows(s, C))
           first == [i \in DOMAIN main |-> Candidate(s, main[i], i)]
           Grown(pool, n) == AddRows(s, pool, supplements[n].rows,
                                    Len(main) + IF supplements[n].afterPool THEN Len(pool) ELSE 0)
           step == [p \in T \X (1 .. N) |-> Grown(p[1], p[2])]
           chosen == CHOOSE f : f = [n \in 0 .. Len(supplements) |->
                        IF n = 0 THEN [i \in DOMAIN main |-> Candidate(s, main[i], i)]
                        ELSE AddRows(s, f[n - 1], supplements[n].rows,
                               Len(main) + IF supplements[n].afterPool THEN Len(f[n - 1]) ELSE 0)]
<1>1. N \in Nat
  BY DEF Supplies
<1>2. first \in T
  <2>1. DOMAIN main = 1 .. Len(main) /\ Len(main) \in Nat
    OBVIOUS
  <2>2. ASSUME NEW i \in 1 .. Len(main) PROVE Candidate(s, main[i], i) \in ScoredRows(s, C)
    <3>1. main[i] \in C /\ i \in Nat
      OBVIOUS
    <3> QED
      BY <3>1 DEF ScoredRows
  <2>3. first \in [1 .. Len(main) -> ScoredRows(s, C)]
    BY <2>1, <2>2
  <2> QED
    BY <2>1, <2>3, ListOf
<1>3. ASSUME NEW pool \in T, NEW n \in 1 .. N PROVE Grown(pool, n) \in T
  <2>1. Len(main) + (IF supplements[n].afterPool THEN Len(pool) ELSE 0) \in Nat
    <3>1. Len(main) \in Nat /\ Len(pool) \in Nat
      OBVIOUS
    <3> QED
      BY <3>1
  <2>2. supplements[n].rows \in Seq(C)
    BY DEF Supplies
  <2> QED
    BY <2>1, <2>2, AddRowsType
<1> HIDE DEF T, first
<1>4. step \in [T \X (1 .. N) -> T]
  BY <1>3
<1>5. PICK f \in [0 .. N -> T] : f[0] = first /\ \A n \in 1 .. N : f[n] = step[<<f[n - 1], n>>]
  <2> HIDE DEF step, N, chosen
  <2>1. \E f \in [0 .. N -> T] : Follows(f, N, first, step)
    BY <1>1, <1>2, <1>4, Defined
  <2> QED
    BY <2>1 DEF Follows
<1>6. \A n \in 1 .. N : f[n - 1] \in T
  BY <1>1
<1>7. \A n \in 1 .. N : f[n] = Grown(f[n - 1], n)
  <2> HIDE DEF With
  <2> QED
    BY <1>5, <1>6
<1> HIDE DEF With
<1>8. f = [n \in 0 .. N |-> IF n = 0 THEN first ELSE Grown(f[n - 1], n)]
  <2>1. \A n \in 0 .. N : f[n] = IF n = 0 THEN first ELSE Grown(f[n - 1], n)
    <3> HIDE DEF step
    <3>1. \A n \in 0 .. N : n = 0 \/ n \in 1 .. N
      BY <1>1
    <3> HIDE DEF N
    <3> QED
      BY <1>5, <1>7, <3>1
  <2> HIDE DEF N
  <2> QED
    BY <2>1
<1>9. chosen = [n \in 0 .. N |-> IF n = 0 THEN first ELSE Grown(chosen[n - 1], n)]
  BY <1>8, Zenon DEF first, With
<1>10. Pool(s, main, supplements) = chosen[N]
  BY Zenon DEF Pool
<1> HIDE DEF chosen, N, step
<1>11. chosen[0] = first /\ \A n \in 1 .. N : chosen[n] = Grown(chosen[n - 1], n)
  <2> DEFINE h == [n \in 0 .. N |-> IF n = 0 THEN first ELSE Grown(chosen[n - 1], n)]
  <2>1. h[0] = first /\ \A n \in 1 .. N : h[n] = Grown(chosen[n - 1], n)
    BY <1>1
  <2>2. chosen = h
    BY <1>9
  <2> HIDE DEF h
  <2> QED
    BY <2>1, <2>2
<1>12. \A n \in 0 .. N : chosen[n] \in T
  <2>1. chosen[0] \in T /\ \A n \in 1 .. N : chosen[n - 1] \in T => chosen[n] \in T
    BY <1>2, <1>3, <1>11
  <2> QED
    BY <1>1, <2>1, StaysIn
<1> QED
  BY <1>1, <1>10, <1>12 DEF N, T

(* A row is put at a place of the list.                                    *)
LEMMA InsertedType ==
  ASSUME NEW S, NEW row \in S, NEW sorted \in Seq(S)
  PROVE  Inserted(row, sorted) \in Seq(S)
<1> DEFINE I == {i \in DOMAIN sorted :
                   \/ sorted[i].score > row.score
                   \/ sorted[i].score = row.score /\ sorted[i].rank <= row.rank}
           n == Cardinality(I)
<1>1. Inserted(row, sorted) = SubSeq(sorted, 1, n) \o <<row>> \o SubSeq(sorted, n + 1, Len(sorted))
  BY DEF Inserted
<1>2. n \in Nat /\ n <= Len(sorted)
  <2>1. IsFiniteSet(1 .. Len(sorted)) /\ Cardinality(1 .. Len(sorted)) = Len(sorted)
    <3>1. 1 \in Int /\ Len(sorted) \in Nat
      OBVIOUS
    <3>2. IsFiniteSet(1 .. Len(sorted))
      BY <3>1, FS_Interval
    <3>3. Cardinality(1 .. Len(sorted)) = IF 1 > Len(sorted) THEN 0 ELSE Len(sorted) - 1 + 1
      BY <3>1, FS_Interval
    <3> QED
      BY <3>1, <3>2, <3>3
  <2>2. I \subseteq 1 .. Len(sorted)
    OBVIOUS
  <2> HIDE DEF I
  <2> QED
    BY <2>1, <2>2, FS_Subset, FS_CardinalityType
<1> HIDE DEF I, n
<1>3. SubSeq(sorted, 1, n) \in Seq(S) /\ SubSeq(sorted, n + 1, Len(sorted)) \in Seq(S)
  BY <1>2
<1>4. SubSeq(sorted, 1, n) \o <<row>> \in Seq(S)
  BY <1>3
<1> QED
  BY <1>1, <1>3, <1>4

LEMMA InOrderType ==
  ASSUME NEW S, NEW pool \in Seq(S)
  PROVE  InOrder(pool) \in Seq(S)
<1> DEFINE N == Len(pool)
           T == Seq(S)
           step == [p \in T \X (1 .. N) |-> Inserted(pool[p[2]], p[1])]
           chosen == CHOOSE f : f = [n \in 0 .. Len(pool) |->
                        IF n = 0 THEN <<>> ELSE Inserted(pool[n], f[n - 1])]
<1>1. N \in Nat /\ <<>> \in T /\ \A n \in 1 .. N : pool[n] \in S
  OBVIOUS
<1>2. ASSUME NEW t \in T, NEW n \in 1 .. N PROVE Inserted(pool[n], t) \in T
  BY <1>1, InsertedType
<1> HIDE DEF T
<1>3. step \in [T \X (1 .. N) -> T]
  BY <1>2
<1>4. PICK f \in [0 .. N -> T] : f[0] = <<>> /\ \A n \in 1 .. N : f[n] = step[<<f[n - 1], n>>]
  <2> DEFINE base == <<>>
  <2>1. N \in Nat /\ base \in T
    BY <1>1
  <2> HIDE DEF step, N, chosen, base
  <2>2. \E f \in [0 .. N -> T] : Follows(f, N, base, step)
    BY <1>3, <2>1, Defined
  <2> QED
    BY <2>2 DEF base, Follows
<1>5. \A n \in 1 .. N : f[n - 1] \in T
  BY <1>1
<1>6. \A n \in 1 .. N : f[n] = Inserted(pool[n], f[n - 1])
  BY <1>4, <1>5
<1>7. f = [n \in 0 .. N |-> IF n = 0 THEN <<>> ELSE Inserted(pool[n], f[n - 1])]
  <2>1. \A n \in 0 .. N : f[n] = IF n = 0 THEN <<>> ELSE Inserted(pool[n], f[n - 1])
    <3> HIDE DEF step
    <3>1. \A n \in 0 .. N : n = 0 \/ n \in 1 .. N
      BY <1>1
    <3> HIDE DEF N
    <3> QED
      BY <1>4, <1>6, <3>1
  <2> HIDE DEF N
  <2> QED
    BY <2>1
<1>8. chosen = [n \in 0 .. N |-> IF n = 0 THEN <<>> ELSE Inserted(pool[n], chosen[n - 1])]
  BY <1>7, Zenon
<1>9. InOrder(pool) = chosen[N]
  BY Zenon DEF InOrder
<1> HIDE DEF chosen, N, step
<1>10. chosen[0] = <<>> /\ \A n \in 1 .. N : chosen[n] = Inserted(pool[n], chosen[n - 1])
  <2> DEFINE h == [n \in 0 .. N |-> IF n = 0 THEN <<>> ELSE Inserted(pool[n], chosen[n - 1])]
  <2>1. h[0] = <<>> /\ \A n \in 1 .. N : h[n] = Inserted(pool[n], chosen[n - 1])
    BY <1>1
  <2>2. chosen = h
    BY <1>8
  <2> HIDE DEF h
  <2> QED
    BY <2>1, <2>2
<1>11. \A n \in 0 .. N : chosen[n] \in T
  <2>1. chosen[0] \in T /\ \A n \in 1 .. N : chosen[n - 1] \in T => chosen[n] \in T
    BY <1>1, <1>2, <1>10
  <2> QED
    BY <1>1, <2>1, StaysIn
<1> QED
  BY <1>1, <1>9, <1>11 DEF N, T

(* What FirstWhere returns when it looks for the places I.                 *)
FirstAt(pool, I) == LET i == IF I # {} THEN Min(I) ELSE 0
                    IN  IF i = 0 THEN <<>> ELSE <<pool[i]>>

LEMMA FirstAtType ==
  ASSUME NEW S, NEW pool \in Seq(S), NEW I, I \subseteq 1 .. Len(pool)
  PROVE  FirstAt(pool, I) \in Seq(S)
<1> DEFINE i == IF I # {} THEN Min(I) ELSE 0
<1>1. i = 0 \/ i \in 1 .. Len(pool)
  <2>1. I # {} => Min(I) \in I
    <3>1. I \subseteq Nat
      OBVIOUS
    <3> QED
      BY <3>1, LeastPlace
  <2> QED
    BY <2>1
<1>2. FirstAt(pool, I) = IF i = 0 THEN <<>> ELSE <<pool[i]>>
  BY DEF FirstAt
<1> HIDE DEF i
<1>3. i \in 1 .. Len(pool) => pool[i] \in S
  OBVIOUS
<1> QED
  BY <1>1, <1>2, <1>3

LEMMA ComplaintTrioType ==
  ASSUME NEW S, NEW pool \in Seq(S)
  PROVE  ComplaintTrio(pool) \in Seq(S)
<1> DEFINE I == {i \in 1 .. Len(pool) :
                   pool[i].host = "feb.gov.np" /\ {"fraud", "complaint"} \subseteq pool[i].marks}
           J == {i \in 1 .. Len(pool) :
                   /\ pool[i].host = "feb.gov.np" /\ {"1141", "complaint"} \subseteq pool[i].marks
                   /\ "pdf" \notin pool[i].marks}
           K == {i \in 1 .. Len(pool) :
                   pool[i].host \in {"dofe.gov.np", "feb.gov.np"} /\ "receipt" \in pool[i].marks}
<1>1. ComplaintTrio(pool) = FirstAt(pool, I) \o FirstAt(pool, J) \o FirstAt(pool, K)
  BY DEF ComplaintTrio, FirstWhere, FirstAt, SelectInSeq
<1>2. I \subseteq 1 .. Len(pool) /\ J \subseteq 1 .. Len(pool) /\ K \subseteq 1 .. Len(pool)
  OBVIOUS
<1> HIDE DEF I, J, K
<1>3. FirstAt(pool, I) \in Seq(S) /\ FirstAt(pool, J) \in Seq(S) /\ FirstAt(pool, K) \in Seq(S)
  BY <1>2, FirstAtType
<1> QED
  BY <1>1, <1>3

LEMMA TwoContactsType ==
  ASSUME NEW S, NEW pool \in Seq(S), NEW s
  PROVE  TwoContacts(s, pool) \in Seq(S)
<1> DEFINE K(k) == {i \in DOMAIN pool : ContactPriority(s, pool[i]) = k - 1 /\ "pdf" \notin pool[i].marks}
           lists == [k \in 1 .. 3 |-> Picked(pool, K(k))]
<1>1. TwoContacts(s, pool) = Upto(2, Concat(lists))
  BY DEF TwoContacts
<1>2. lists \in [1 .. 3 -> Seq(S)]
  <2> HIDE DEF K
  <2>1. \A k \in 1 .. 3 : Picked(pool, K(k)) \in Seq(S)
    BY PickedType
  <2> QED
    BY <2>1
<1> HIDE DEF lists
<1>3. lists \in Seq(Seq(S))
  BY <1>2, ListOf
<1>4. Concat(lists) \in Seq(S)
  BY <1>3, ConcatType
<1> QED
  BY <1>1, <1>4, UptoIs

LEMMA BestLocalType ==
  ASSUME NEW S, NEW pool \in Seq(S), NEW s
  PROVE  BestSpecificLocal(s, pool) \in Seq(S) /\ BestLocal(s, pool) \in Seq(S)
<1> DEFINE I == {i \in 1 .. Len(pool) : /\ Features(s, pool[i]).local
                                        /\ StrongHit(s, pool[i])
                                        /\ "content" \in pool[i].marks /\ "services list" \notin pool[i].marks
                                        /\ Features(s, pool[i]).coverage >= 50}
           J == {i \in 1 .. Len(pool) : Features(s, pool[i]).local /\ Features(s, pool[i]).coverage >= 50}
<1>1. BestSpecificLocal(s, pool) = FirstAt(pool, I) /\ BestLocal(s, pool) = FirstAt(pool, J)
  BY DEF BestSpecificLocal, BestLocal, FirstWhere, FirstAt, SelectInSeq
<1>2. I \subseteq 1 .. Len(pool) /\ J \subseteq 1 .. Len(pool)
  OBVIOUS
<1> HIDE DEF I, J
<1> QED
  BY <1>1, <1>2, FirstAtType

LEMMA BestExpectedType ==
  ASSUME NEW S, NEW pool \in Seq(S), NEW s, Listing(s.expected)
  PROVE  BestExpected(s, pool) \in Seq(S)
<1> DEFINE n == Len(s.expected)
           I(d) == {i \in 1 .. Len(pool) : HostMatches(pool[i].host, {s.expected[d]})}
           lists == [d \in 1 .. n |-> FirstAt(pool, I(d))]
<1>1. DOMAIN s.expected = 1 .. n /\ n \in Nat
  BY ListingHas
<1>2. BestExpected(s, pool) = Concat(lists)
  BY <1>1 DEF BestExpected, FirstWhere, FirstAt, SelectInSeq
<1>3. \A d \in 1 .. n : I(d) \subseteq 1 .. Len(pool)
  OBVIOUS
<1> HIDE DEF I, n
<1>4. lists \in [1 .. n -> Seq(S)]
  <2>1. \A d \in 1 .. n : FirstAt(pool, I(d)) \in Seq(S)
    BY <1>3, FirstAtType
  <2> QED
    BY <2>1
<1> HIDE DEF lists
<1>5. lists \in Seq(Seq(S))
  BY <1>1, <1>4, ListOf
<1> QED
  BY <1>2, <1>5, ConcatType

LEMMA PriorityType ==
  ASSUME NEW S, NEW pool \in Seq(S), NEW s, Listing(s.expected)
  PROVE  Priority(s, pool) \in Seq(S)
<1>1. <<>> \in Seq(S)
  OBVIOUS
<1> DEFINE a == IF s.complaint THEN ComplaintTrio(pool) ELSE <<>>
           b == IF s.contact THEN TwoContacts(s, pool) ELSE <<>>
           c == IF s.here # {} THEN BestSpecificLocal(s, pool) ELSE <<>>
           d == IF s.here # {} /\ s.topic \in LOCAL_TACIT_STRICT_TOPICS \cup {None, "municipality_contact"}
                THEN BestLocal(s, pool) ELSE <<>>
           e == BestExpected(s, pool)
<1>2. Priority(s, pool) = a \o b \o c \o d \o e
  BY DEF Priority
<1>3. a \in Seq(S)
  BY <1>1, ComplaintTrioType
<1>4. b \in Seq(S)
  BY <1>1, TwoContactsType
<1>5. c \in Seq(S) /\ d \in Seq(S)
  BY <1>1, BestLocalType
<1>6. e \in Seq(S)
  BY BestExpectedType
<1> HIDE DEF a, b, c, d, e
<1>7. a \o b \in Seq(S)
  BY <1>3, <1>4
<1>8. (a \o b) \o c \in Seq(S)
  BY <1>5, <1>7
<1>9. ((a \o b) \o c) \o d \in Seq(S)
  BY <1>5, <1>8
<1>10. (((a \o b) \o c) \o d) \o e \in Seq(S)
  BY <1>6, <1>9
<1> QED
  BY <1>2, <1>10

(* No url comes twice.                                                     *)
OneRowPerUrl(list) == \A i, j \in 1 .. Len(list) : list[i].url = list[j].url => i = j

LEMMA SelectIs ==
  ASSUME NEW S, NEW list \in Seq(S), NEW topK \in Nat
  PROVE  /\ Select(list, topK) \in Seq(S) /\ Len(Select(list, topK)) <= topK
         /\ OneRowPerUrl(Select(list, topK))
<1> DEFINE K == {i \in DOMAIN list : \A j \in 1 .. i - 1 : list[j].url # list[i].url}
           y == Picked(list, K)
<1>1. DOMAIN list = 1 .. Len(list) /\ Len(list) \in Nat
  OBVIOUS
<1>2. K \cap (1 .. Len(list)) = K /\ K \subseteq Nat
  BY <1>1
<1>3. \A k, l \in K : list[k].url = list[l].url => k = l
  <2> SUFFICES ASSUME NEW k \in K, NEW l \in K, list[k].url = list[l].url, k # l PROVE FALSE
    OBVIOUS
  <2>1. k < l \/ l < k
    BY <1>2
  <2>2. CASE k < l
    BY <1>1, <2>2
  <2>3. CASE l < k
    BY <1>1, <2>3
  <2> QED
    BY <2>1, <2>2, <2>3
<1>4. Select(list, topK) = Upto(topK, y)
  BY DEF Select
<1> HIDE DEF K
<1>5. y \in Seq(S)
  BY PickedType
<1>6. PICK pos : PlacesOf(pos, y, list, K)
  <2>1. \E pos : PlacesOf(pos, y, list, K \cap (1 .. Len(list)))
    BY PickedPlaces
  <2> QED
    BY <1>2, <2>1
<1> HIDE DEF y
<1>7. OneRowPerUrl(y)
  <2> SUFFICES ASSUME NEW i \in 1 .. Len(y), NEW j \in 1 .. Len(y), y[i].url = y[j].url PROVE i = j
    BY DEF OneRowPerUrl
  <2>1. pos[i] \in K /\ pos[j] \in K
    BY <1>6 DEF PlacesOf
  <2>2. y[i] = list[pos[i]] /\ y[j] = list[pos[j]]
    BY <1>6 DEF PlacesOf
  <2>3. pos[i] = pos[j]
    BY <1>3, <2>1, <2>2
  <2> QED
    BY <1>6, <2>3 DEF PlacesOf
<1> DEFINE z == Upto(topK, y)
<1>8. /\ z \in Seq(S) /\ Len(z) <= topK /\ Len(z) <= Len(y)
      /\ \A i \in 1 .. Len(z) : z[i] = y[i]
  BY <1>5, UptoIs
<1> HIDE DEF z
<1>9. OneRowPerUrl(z)
  <2>1. Len(z) \in Nat /\ Len(y) \in Nat
    BY <1>5, <1>8
  <2>2. \A i \in 1 .. Len(z) : i \in 1 .. Len(y)
    BY <1>8, <2>1
  <2> QED
    BY <1>7, <1>8, <2>2 DEF OneRowPerUrl
<1> QED
  BY <1>4, <1>8, <1>9 DEF z

(* What a search brings of the chunks C: at most topK of them, scored, one *)
(* per url.                                                                *)
Brings(hits, s, C, topK) ==
  hits \in Seq(ScoredRows(s, C)) /\ Len(hits) <= topK /\ OneRowPerUrl(hits)

LEMMA ChosenIs ==
  ASSUME NEW C, NEW s, Listing(s.expected), NEW pool \in Seq(ScoredRows(s, C)), NEW topK \in Nat
  PROVE  Brings(Chosen(s, pool, topK), s, C, topK)
<1> DEFINE list == Priority(s, pool) \o pool
<1>1. list \in Seq(ScoredRows(s, C))
  <2>1. Priority(s, pool) \in Seq(ScoredRows(s, C))
    BY PriorityType
  <2> QED
    BY <2>1
<1>2. Chosen(s, pool, topK) = Select(list, topK)
  BY DEF Chosen
<1> HIDE DEF list
<1> QED
  BY <1>1, <1>2, SelectIs DEF Brings

LEMMA SearchBrings ==
  ASSUME NEW C, NEW rows \in Seq(C), NEW main \in Seq(C), NEW s, Listing(s.expected),
         NEW topK \in Nat, NEW copies0, \A c \in C : copies0[c.id] \in Nat
  PROVE  Brings(SearchResult(s, main, rows, copies0, topK), s, C, topK)
<1> DEFINE a == AuthorityRows(s, rows, copies0, 8 * topK)
           b == LocalRootRows(s, rows)
           c == ContactRows(s, rows)
           d == ComplaintRows(rows, 12 * topK)
           more == <<[rows |-> IF TRUE THEN a ELSE <<>>, afterPool |-> FALSE],
                     [rows |-> IF s.here # {} THEN b ELSE <<>>, afterPool |-> TRUE],
                     [rows |-> IF s.contact THEN c ELSE <<>>, afterPool |-> FALSE],
                     [rows |-> IF s.complaint THEN d ELSE <<>>, afterPool |-> TRUE]>>
<1>1. SearchResult(s, main, rows, copies0, topK) = Chosen(s, InOrder(Pool(s, main, more)), topK)
  BY DEF SearchResult
<1>2. 8 * topK \in Nat /\ 12 * topK \in Nat
  OBVIOUS
<1>3. a \in Seq(C)
  BY <1>2, AuthorityRowsType
<1>4. b \in Seq(C) /\ c \in Seq(C)
  BY ContactRowsType
<1>5. d \in Seq(C)
  BY <1>2, ComplaintRowsType
<1>6. <<>> \in Seq(C)
  OBVIOUS
<1> HIDE DEF a, b, c, d
<1>7. Supplies(more, C)
  <2>1. /\ Len(more) = 4 /\ more[1].rows = a /\ more[2].rows \in {b, <<>>}
        /\ more[3].rows \in {c, <<>>} /\ more[4].rows \in {d, <<>>}
    OBVIOUS
  <2> HIDE DEF more
  <2>2. ASSUME NEW n \in 1 .. Len(more) PROVE more[n].rows \in Seq(C)
    <3>1. n = 1 \/ n = 2 \/ n = 3 \/ n = 4
      BY <2>1
    <3> QED
      BY <1>3, <1>4, <1>5, <1>6, <2>1, <3>1
  <2> QED
    BY <2>1, <2>2 DEF Supplies
<1> HIDE DEF more
<1>8. Pool(s, main, more) \in Seq(ScoredRows(s, C))
  BY <1>7, PoolType
<1>9. InOrder(Pool(s, main, more)) \in Seq(ScoredRows(s, C))
  BY <1>8, InOrderType
<1> QED
  BY <1>1, <1>9, ChosenIs

LEMMA ContactBrings ==
  ASSUME NEW C, NEW rows \in Seq(C), NEW s, NEW topK \in Nat
  PROVE  Brings(ContactResult(s, rows, topK), s, C, topK)
<1> DEFINE direct == DirectContactRows(s, rows, 8 * topK)
           list == InOrder(Pool(s, direct, <<>>))
<1>1. ContactResult(s, rows, topK) = Select(list, topK)
  BY DEF ContactResult
<1>2. direct \in Seq(C)
  <2>1. 8 * topK \in Nat
    OBVIOUS
  <2> QED
    BY <2>1, DirectRowsType
<1> HIDE DEF direct
<1>3. Supplies(<<>>, C)
  BY DEF Supplies
<1>4. Pool(s, direct, <<>>) \in Seq(ScoredRows(s, C))
  BY <1>2, <1>3, PoolType
<1>5. list \in Seq(ScoredRows(s, C))
  BY <1>4, InOrderType
<1> HIDE DEF list
<1> QED
  BY <1>1, <1>5, SelectIs DEF Brings

(* What is read off a query.                                               *)
LEMMA ReadingIs ==
  ASSUME NEW text
  PROVE  Listing(Reading(text).expected)
<1> DEFINE topic == DetectRetrievalTopic(text)
           e == AuthorityDomainsForQuery(topic, text)
<1>1. Reading(text).expected = e
  BY DEF Reading, ReadAs
<1> HIDE DEF topic
<1> DEFINE E == {<<"qa.nepalembassy.gov.np", "mofa.gov.np", "nepalpassport.gov.np">>,
                 <<"mofa.gov.np", "nepalpassport.gov.np">>, <<"nepalpassport.gov.np">>,
                 <<"dofe.gov.np", "feb.gov.np", "moless.gov.np">>, <<"feb.gov.np", "dofe.gov.np">>,
                 <<"dofe.gov.np", "feims.dofe.gov.np">>, <<"dofe.gov.np", "feb.gov.np">>,
                 <<"moha.gov.np">>, <<"ird.gov.np">>,
                 <<"tmolkaski.gandaki.gov.np", "dlo.gandaki.gov.np", "dotm.gov.np",
                   "transportmanagement.gov.np">>, <<"dotm.gov.np", "transportmanagement.gov.np">>,
                 <<"donidcr.gov.np">>, <<"ocr.gov.np">>, <<"mofa.gov.np", "nepalconsular.gov.np">>,
                 <<"dolma.gov.np", "molcpa.gov.np">>, <<"election.gov.np">>,
                 <<"nepalpolice.gov.np">>, <<"nrb.org.np">>, <<>>}
<1>2. e \in E
  BY DEF AuthorityDomainsForQuery
<1> HIDE DEF e
<1>3. ASSUME NEW l \in E PROVE Listing(l)
  <2>1. ASSUME NEW a, NEW b, NEW c, NEW d
        PROVE  /\ Listing(<<>>) /\ Listing(<<a>>) /\ Listing(<<a, b>>) /\ Listing(<<a, b, c>>)
               /\ Listing(<<a, b, c, d>>)
    <3>1. Listing(<<>>) /\ Listing(<<a>>)
      BY DEF Listing, Range
    <3>2. Listing(<<a, b>>)
      BY DEF Listing, Range
    <3>3. Listing(<<a, b, c>>)
      BY DEF Listing, Range
    <3>4. Listing(<<a, b, c, d>>)
      BY DEF Listing, Range
    <3> QED
      BY <3>1, <3>2, <3>3, <3>4
  <2> QED
    BY <2>1
<1> QED
  BY <1>1, <1>2, <1>3

(* A scored row is of the chunk it was made of.                            *)
LEMMA RowOfChunk ==
  ASSUME NEW C, NEW s, NEW x \in ScoredRows(s, C)
  PROVE  \E c \in C : x.id = c.id /\ x.url = c.url /\ x.host = c.host
<1>1. PICK c \in C, n \in Nat : x = Candidate(s, c, n)
  BY DEF ScoredRows
<1>2. x.id = c.id /\ x.url = c.url /\ x.host = c.host
  BY <1>1 DEF Candidate, Scored
<1> QED
  BY <1>2

LEMMA RangeOf ==
  ASSUME NEW T, NEW s \in Seq(T)
  PROVE  Listing(s) /\ Range(s) \subseteq T
<1>1. s \in [1 .. Len(s) -> T] /\ Len(s) \in Nat /\ DOMAIN s = 1 .. Len(s)
  OBVIOUS
<1>2. \A i \in 1 .. Len(s) : s[i] \in Range(s)
  BY <1>1 DEF Range
<1>3. s \in [1 .. Len(s) -> Range(s)]
  BY <1>1, <1>2
<1>4. s \in Seq(Range(s))
  BY <1>1, <1>3, ListOf
<1> QED
  BY <1>1, <1>4 DEF Listing, Range

(***************************************************************************)
(* The search index: who builds it, what a finished rebuild leaves in it,  *)
(* and what searches return meanwhile.                                     *)
(***************************************************************************)
Busy(b) == pc[b] # "idle"

IndexTypes ==
  /\ live \subseteq stored /\ stored \subseteq Ids
  /\ table \in BOOLEAN /\ copies \in [Ids -> 0 .. 2]
  /\ pc \in [Builders -> {"idle", "check", "create", "insert", "count"}]
  /\ server \in {"down", "starting", "up"}
  /\ asked \in [Builders -> SUBSET Ids]
  /\ spoilt \in BOOLEAN /\ kills \in 0 .. MaxKills

\* Who was not asked to reindex has promised nothing; a boot builds alone.
Workers ==
  /\ \A b \in Builders : asked[b] \subseteq stored /\ (~Busy(b) => asked[b] = {})
  /\ server = "down" => \A b \in Builders : ~Busy(b)
  /\ server = "starting" => \A b \in Builders : asked[b] = {} /\ (Busy(b) => b = BootBuilder)

\* Unless builders overlapped or one died, whoever reindexes is alone, and the
\* index is as that builder left it.
Rebuilt ==
  ~spoilt =>
    /\ \A b, o \in Builders : Busy(b) /\ Busy(o) => b = o
    /\ \A b \in Builders : asked[b] # {} =>
         /\ pc[b] \in {"check", "create"} => ~table
         /\ pc[b] \in {"check", "create", "insert"} => \A id \in Ids : copies[id] = 0
         /\ pc[b] = "count" => \A id \in asked[b] : copies[id] = 1

\* A search holds rows of the table, and what is handed out is as promised.
SearchHolds ==
  /\ search.stage \in {"idle", "rest"}
  /\ search.stage = "rest" => search.main \in Seq(Ids) /\ Listing(search.case.s.expected)
OutHolds == Len(out.rows) <= TopK /\ Listing(out.rows) /\ OneRowPerUrl(out.rows)

IndexInv == IndexTypes /\ Workers /\ Rebuilt /\ SearchHolds /\ OutHolds

Silent == out = Nothing

LEMMA NothingHolds == Silent => OutHolds
<1> SUFFICES ASSUME out = Nothing PROVE OutHolds
  BY DEF Silent
<1>1. out.rows = <<>> /\ Len(<<>>) = 0 /\ TopK \in Nat
  BY SearchIndexAssumption DEF Nothing
<1>2. Listing(<<>>) /\ OneRowPerUrl(<<>>)
  BY DEF Listing, OneRowPerUrl, Range
<1> QED
  BY <1>1, <1>2 DEF OutHolds

LEMMA Zero == [id \in Ids |-> 0] \in [Ids -> 0 .. 2]
<1>1. 0 \in 0 .. 2
  OBVIOUS
<1> QED
  BY <1>1

LEMMA IndexBegins == IndexInit => IndexInv
<1> SUFFICES ASSUME IndexInit PROVE IndexInv
  OBVIOUS
<1>1. IndexTypes
  <2>1. kills = 0 /\ MaxKills \in Nat
    BY SearchIndexAssumption DEF IndexInit
  <2>2. kills \in 0 .. MaxKills
    BY <2>1
  <2>3. copies \in [Ids -> 0 .. 2]
    BY Zero DEF IndexInit
  <2>4. /\ pc \in [Builders -> {"idle", "check", "create", "insert", "count"}]
        /\ asked \in [Builders -> SUBSET Ids]
    BY DEF IndexInit
  <2> QED
    BY <2>2, <2>3, <2>4 DEF IndexInit, IndexTypes
<1>2. Workers /\ Rebuilt
  BY DEF IndexInit, Workers, Rebuilt, Busy
<1>3. SearchHolds
  BY DEF IndexInit, SearchHolds, NoSearch
<1>4. OutHolds
  BY NothingHolds DEF IndexInit, Silent
<1> QED
  BY <1>1, <1>2, <1>3, <1>4 DEF IndexInv

(* What the crawler and the builders do to the index and its builders.     *)
IndexCore == IndexTypes /\ Workers /\ Rebuilt

LEMMA PublishKeeps ==
  ASSUME IndexCore, NEW id \in Ids, CrawlerPublishes(id) \/ CrawlerSupersedes(id)
  PROVE  IndexCore'
<1>1. /\ stored \subseteq stored' /\ live' \subseteq stored' /\ stored' \subseteq Ids
      /\ UNCHANGED <<table, copies, pc, server, asked, spoilt, kills>>
  BY DEF CrawlerPublishes, CrawlerSupersedes, IndexCore, IndexTypes
<1>2. IndexTypes'
  BY <1>1 DEF IndexCore, IndexTypes
<1>3. Workers'
  BY <1>1 DEF IndexCore, Workers, Busy
<1>4. Rebuilt'
  BY <1>1 DEF IndexCore, Rebuilt, Busy
<1> QED
  BY <1>2, <1>3, <1>4 DEF IndexCore

LEMMA StartKeeps ==
  ASSUME IndexCore, Start
  PROVE  IndexCore'
<1>1. /\ server = "down" /\ server' = "starting" /\ pc' = [pc EXCEPT ![BootBuilder] = "check"]
      /\ asked' = [asked EXCEPT ![BootBuilder] = {}]
      /\ UNCHANGED <<stored, live, table, copies, spoilt, kills>>
  BY DEF Start, StepTo
<1>2. \A b \in Builders : ~Busy(b) /\ asked[b] = {}
  BY <1>1 DEF IndexCore, Workers
<1>3. IndexTypes'
  BY <1>1 DEF IndexCore, IndexTypes
<1>4. \A b \in Builders : asked'[b] = {} /\ (pc'[b] # "idle" => b = BootBuilder)
  BY <1>1, <1>2 DEF IndexCore, IndexTypes, Busy
<1>5. Workers'
  BY <1>1, <1>4, SearchIndexAssumption DEF Workers, Busy
<1>6. Rebuilt'
  BY <1>4 DEF Rebuilt, Busy
<1> QED
  BY <1>3, <1>5, <1>6 DEF IndexCore

LEMMA ReindexKeepsCore ==
  ASSUME IndexCore, NEW b \in Builders, Reindex(b)
  PROVE  IndexCore'
<1>1. /\ server = "up" /\ pc[b] = "idle" /\ pc' = [pc EXCEPT ![b] = "check"]
      /\ table' = FALSE /\ copies' = [id \in Ids |-> 0]
      /\ asked' = [asked EXCEPT ![b] = stored] /\ spoilt' = OthersBusy(b)
      /\ UNCHANGED <<stored, live, server, kills>>
  BY DEF Reindex, StepTo
<1>2. IndexTypes'
  <2>1. spoilt' \in BOOLEAN
    BY <1>1, Zenon DEF OthersBusy
  <2>2. copies' \in [Ids -> 0 .. 2]
    BY <1>1, Zero
  <2>3. /\ pc' \in [Builders -> {"idle", "check", "create", "insert", "count"}]
        /\ asked' \in [Builders -> SUBSET Ids]
    BY <1>1 DEF IndexCore, IndexTypes
  <2> QED
    BY <1>1, <2>1, <2>2, <2>3 DEF IndexCore, IndexTypes
<1>3. Workers'
  BY <1>1 DEF IndexCore, IndexTypes, Workers, Busy
<1>4. ASSUME ~spoilt'
      PROVE  /\ \A o \in Builders : pc'[o] # "idle" => o = b
             /\ \A o \in Builders : asked'[o] # {} => o = b
  <2>1. \A o \in Builders : pc[o] # "idle" => o = b
    BY <1>1, <1>4 DEF OthersBusy
  <2> QED
    BY <1>1, <2>1 DEF IndexCore, IndexTypes, Workers, Busy
<1>5. pc'[b] = "check" /\ ~table' /\ \A id \in Ids : copies'[id] = 0
  BY <1>1 DEF IndexCore, IndexTypes
<1>6. Rebuilt'
  BY <1>4, <1>5 DEF Rebuilt, Busy
<1> QED
  BY <1>2, <1>3, <1>6 DEF IndexCore

(* A builder that returns has promised nothing any more.                   *)
LEMMA ReturnKeeps ==
  ASSUME IndexCore, NEW b \in Builders, NEW failed \in BOOLEAN, Busy(b), Return(b, failed),
         UNCHANGED <<stored, live, table, copies, spoilt, kills>>
  PROVE  IndexCore'
<1>1. /\ pc' = [pc EXCEPT ![b] = "idle"] /\ asked' = [asked EXCEPT ![b] = {}]
      /\ server' = IF server # "starting" THEN server ELSE IF failed THEN "down" ELSE "up"
  BY DEF Return, StepTo
<1>2. server # "down"
  BY DEF IndexCore, Workers
<1>3. IndexTypes'
  BY <1>1 DEF IndexCore, IndexTypes
<1>4. /\ pc'[b] = "idle" /\ asked'[b] = {}
      /\ \A o \in Builders \ {b} : pc'[o] = pc[o] /\ asked'[o] = asked[o]
  BY <1>1 DEF IndexCore, IndexTypes
<1>5. Workers'
  BY <1>1, <1>2, <1>4 DEF IndexCore, IndexTypes, Workers, Busy
<1>6. Rebuilt'
  BY <1>4 DEF IndexCore, Rebuilt, Busy
<1> QED
  BY <1>3, <1>5, <1>6 DEF IndexCore

(* A builder that goes on.                                                 *)
LEMMA BuildKeeps ==
  ASSUME IndexCore, NEW b \in Builders, Check(b) \/ Create(b) \/ Insert(b) \/ Count(b)
  PROVE  IndexCore'
<1>1. CASE Check(b)
  <2>1. /\ pc[b] = "check" /\ pc' = [pc EXCEPT ![b] = IF table THEN "count" ELSE "create"]
        /\ UNCHANGED <<stored, live, table, copies, server, asked, spoilt, kills>>
    BY <1>1 DEF Check, StepTo
  <2>2. /\ pc'[b] = IF table THEN "count" ELSE "create"
        /\ \A o \in Builders \ {b} : pc'[o] = pc[o]
    BY <2>1 DEF IndexCore, IndexTypes
  <2>3. IndexTypes'
    BY <2>1 DEF IndexCore, IndexTypes
  <2>4. Workers'
    BY <2>1, <2>2 DEF IndexCore, IndexTypes, Workers, Busy
  <2>5. Rebuilt'
    BY <2>1, <2>2 DEF IndexCore, IndexTypes, Rebuilt, Busy
  <2> QED
    BY <2>3, <2>4, <2>5 DEF IndexCore
<1>2. CASE Create(b)
  <2>1. pc[b] = "create" /\ UNCHANGED <<stored, live, copies, spoilt, kills>>
    BY <1>2 DEF Create
  <2>2. CASE table
    <3>1. Return(b, TRUE) /\ UNCHANGED table
      BY <1>2, <2>2 DEF Create
    <3> QED
      BY <2>1, <3>1, ReturnKeeps DEF Busy
  <2>3. CASE ~table
    <3>1. table' = TRUE /\ pc' = [pc EXCEPT ![b] = "insert"] /\ UNCHANGED <<server, asked>>
      BY <1>2, <2>3 DEF Create, StepTo
    <3>2. pc'[b] = "insert" /\ \A o \in Builders \ {b} : pc'[o] = pc[o]
      BY <3>1 DEF IndexCore, IndexTypes
    <3>3. IndexTypes'
      BY <2>1, <3>1 DEF IndexCore, IndexTypes
    <3>4. Workers'
      BY <2>1, <3>1, <3>2 DEF IndexCore, IndexTypes, Workers, Busy
    <3>5. ASSUME ~spoilt', NEW o \in Builders, asked'[o] # {} PROVE o = b
      <4>1. asked[o] # {}
        BY <3>1, <3>5
      <4>2. Busy(o) /\ Busy(b)
        BY <2>1, <4>1 DEF IndexCore, Workers, Busy
      <4> QED
        BY <2>1, <3>5, <4>2 DEF IndexCore, Rebuilt
    <3>6. Rebuilt'
      BY <2>1, <3>1, <3>2, <3>5 DEF IndexCore, IndexTypes, Rebuilt, Busy
    <3> QED
      BY <3>3, <3>4, <3>6 DEF IndexCore
  <2> QED
    BY <2>2, <2>3
<1>3. CASE Insert(b)
  <2>1. pc[b] = "insert" /\ UNCHANGED <<stored, live, table, spoilt, kills>>
    BY <1>3 DEF Insert
  <2>2. CASE ~table
    <3>1. Return(b, TRUE) /\ UNCHANGED copies
      BY <1>3, <2>2 DEF Insert
    <3> QED
      BY <2>1, <3>1, ReturnKeeps DEF Busy
  <2>3. CASE table
    <3>1. /\ copies' = [id \in Ids |-> IF id \in stored THEN Min({2, copies[id] + 1}) ELSE copies[id]]
          /\ pc' = [pc EXCEPT ![b] = "count"] /\ UNCHANGED <<server, asked>>
      BY <1>3, <2>3 DEF Insert, StepTo
    <3>2. pc'[b] = "count" /\ \A o \in Builders \ {b} : pc'[o] = pc[o]
      BY <3>1 DEF IndexCore, IndexTypes
    <3>3. ASSUME NEW id \in Ids
          PROVE  copies'[id] \in 0 .. 2 /\ (id \in stored /\ copies[id] = 0 => copies'[id] = 1)
      <4> DEFINE N == {2, copies[id] + 1}
      <4>1. copies[id] \in 0 .. 2
        BY DEF IndexCore, IndexTypes
      <4>2. N # {} /\ N \subseteq Nat /\ N \subseteq 1 .. 3 /\ 2 \in N /\ (copies[id] = 0 => 1 \in N)
        BY <4>1
      <4> HIDE DEF N
      <4>3. Min(N) \in N /\ \A n \in N : Min(N) <= n
        BY <4>2, LeastPlace
      <4>4. PICK m \in 1 .. 3 : m = Min(N)
        BY <4>2, <4>3
      <4>5. m <= 2 /\ (copies[id] = 0 => m <= 1)
        BY <4>2, <4>3, <4>4
      <4>6. copies'[id] = IF id \in stored THEN m ELSE copies[id]
        BY <3>1, <4>4 DEF N
      <4> QED
        BY <4>1, <4>5, <4>6
    <3>4. IndexTypes'
      <4>1. copies' \in [Ids -> 0 .. 2]
        BY <3>1, <3>3
      <4> QED
        BY <2>1, <3>1, <4>1 DEF IndexCore, IndexTypes
    <3>5. Workers'
      BY <2>1, <3>1, <3>2 DEF IndexCore, IndexTypes, Workers, Busy
    <3>6. ASSUME ~spoilt', NEW o \in Builders, asked'[o] # {} PROVE o = b
      <4>1. asked[o] # {}
        BY <3>1, <3>6
      <4>2. Busy(o) /\ Busy(b)
        BY <2>1, <4>1 DEF IndexCore, Workers, Busy
      <4> QED
        BY <2>1, <3>6, <4>2 DEF IndexCore, Rebuilt
    <3>7. ASSUME ~spoilt', asked'[b] # {}
          PROVE  \A id \in asked'[b] : copies'[id] = 1
      <4>1. asked[b] # {} /\ ~spoilt /\ asked'[b] = asked[b] /\ asked[b] \subseteq stored /\ stored \subseteq Ids
        BY <2>1, <3>1, <3>7 DEF IndexCore, IndexTypes, Workers
      <4>2. \A id \in Ids : copies[id] = 0
        BY <2>1, <4>1 DEF IndexCore, Rebuilt
      <4> QED
        BY <3>3, <4>1, <4>2
    <3>8. Rebuilt'
      BY <2>1, <3>1, <3>2, <3>6, <3>7 DEF IndexCore, IndexTypes, Rebuilt, Busy
    <3> QED
      BY <3>4, <3>5, <3>8 DEF IndexCore
  <2> QED
    BY <2>2, <2>3
<1>4. CASE Count(b)
  <2>1. /\ Return(b, FALSE) /\ pc[b] = "count"
        /\ UNCHANGED <<stored, live, table, copies, spoilt, kills>>
    BY <1>4 DEF Count
  <2> QED
    BY <2>1, ReturnKeeps DEF Busy
<1> QED
  BY <1>1, <1>2, <1>3, <1>4

LEMMA CrashKeeps ==
  ASSUME IndexCore, Crash
  PROVE  IndexCore'
<1>1. /\ server' = "down" /\ pc' = [b \in Builders |-> "idle"] /\ asked' = [b \in Builders |-> {}]
      /\ spoilt' = (spoilt \/ \E b \in Builders : pc[b] = "insert")
      /\ kills < MaxKills /\ kills' = kills + 1 /\ UNCHANGED <<stored, live, table, copies>>
  BY DEF Crash
<1>2. IndexTypes'
  BY <1>1, SearchIndexAssumption DEF IndexCore, IndexTypes
<1>3. Workers'
  BY <1>1 DEF Workers, Busy
<1>4. Rebuilt'
  BY <1>1 DEF Rebuilt, Busy
<1> QED
  BY <1>2, <1>3, <1>4 DEF IndexCore

(* What stays as it was.                                                   *)
LEMMA SilenceHolds == ASSUME out' = Nothing PROVE OutHolds'
<1>1. Silent' => OutHolds'
  BY NothingHolds, PTL
<1> QED
  BY <1>1 DEF Silent

LEMMA IdleSearch ==
  ASSUME SearchHolds, UNCHANGED search, out' = Nothing
  PROVE  SearchHolds' /\ OutHolds'
BY SilenceHolds DEF SearchHolds

LEMMA CoreStays ==
  ASSUME IndexCore, UNCHANGED <<stored, live, table, copies, pc, server, asked, spoilt, kills>>
  PROVE  IndexCore'
BY DEF IndexCore, IndexTypes, Workers, Rebuilt, Busy

(* Only Picked is ever shorter than what it picks from.                    *)
LEMMA PickedShort ==
  ASSUME NEW S, NEW s \in Seq(S), NEW K
  PROVE  Len(Picked(s, K)) <= Len(s)
<1>1. PICK to \in [0 .. Len(s) -> Seq(S)] : Picks(to, s, K)
  BY PickedSteps
<1> DEFINE N == Len(s)
           G == {n \in 0 .. N : Len(to[n]) <= n}
<1>2. N \in Nat
  OBVIOUS
<1>3. 0 \in G
  BY <1>1, <1>2 DEF Picks
<1>4. ASSUME NEW n \in 1 .. N, n - 1 \in G PROVE n \in G
  <2>1. to[n - 1] \in Seq(S) /\ Len(to[n - 1]) <= n - 1 /\ s[n] \in S
    BY <1>2, <1>4
  <2>2. to[n] = IF n \in K THEN Append(to[n - 1], s[n]) ELSE to[n - 1]
    BY <1>1 DEF Picks
  <2>3. Len(to[n]) <= n
    BY <1>2, <2>1, <2>2
  <2> QED
    BY <1>2, <2>3
<1> HIDE DEF G
<1>5. N \in G
  <2> HIDE DEF N
  <2>1. 0 .. N \subseteq G
    BY <1>2, <1>3, <1>4, UpTo
  <2> QED
    BY <1>2, <2>1
<1>6. Len(to[N]) <= N
  BY <1>5 DEF G
<1> QED
  BY <1>1, <1>6 DEF Picks

LEMMA LikeRowsType ==
  ASSUME NEW C, NEW rows \in Seq(C), NEW s, NEW limit \in Nat
  PROVE  LikeRows(s, rows, limit) \in Seq(C)
<1>1. Picked(rows, {i \in DOMAIN rows : s.text \subseteq rows[i].words}) \in Seq(C)
  BY PickedType
<1> QED
  BY <1>1, UptoIs DEF LikeRows

(* The filter of a case drops rows only.                                   *)
LEMMA FilterBrings ==
  ASSUME NEW C, NEW s, NEW rows, Brings(rows, s, C, TopK), NEW frame
  PROVE  LET kept == FilterGovResults(frame, rows)
         IN  Len(kept) <= TopK /\ Listing(kept) /\ OneRowPerUrl(kept)
<1> DEFINE kept == FilterGovResults(frame, rows)
           K == {i \in DOMAIN rows : \/ HostMatches(rows[i].host, AllowedLocal(frame))
                                     \/ frame.action # "contact" /\ ~IsLocalHost(rows[i].host)}
           R == ScoredRows(s, C)
<1>1. /\ rows \in Seq(R) /\ Len(rows) <= TopK /\ OneRowPerUrl(rows)
      /\ Len(rows) \in Nat /\ DOMAIN rows = 1 .. Len(rows) /\ TopK \in Nat
  BY SearchIndexAssumption DEF Brings
<1>2. kept = rows \/ kept = Picked(rows, K)
  BY DEF FilterGovResults
<1>3. K \cap (1 .. Len(rows)) = K /\ K \subseteq 1 .. Len(rows)
  BY <1>1
<1> HIDE DEF kept, K, R
<1>4. CASE kept = rows
  BY <1>1, <1>4, RangeOf DEF kept
<1>5. CASE kept = Picked(rows, K)
  <2>1. kept \in Seq(R) /\ Len(kept) <= Len(rows)
    BY <1>1, <1>5, PickedType, PickedShort
  <2>2. PICK pos : PlacesOf(pos, kept, rows, K)
    <3>1. \E pos : PlacesOf(pos, Picked(rows, K), rows, K \cap (1 .. Len(rows)))
      BY <1>1, PickedPlaces
    <3> QED
      BY <1>3, <1>5, <3>1
  <2>3. ASSUME NEW i \in 1 .. Len(kept), NEW j \in 1 .. Len(kept), kept[i].url = kept[j].url
        PROVE  i = j
    <3>1. pos[i] \in 1 .. Len(rows) /\ pos[j] \in 1 .. Len(rows)
      BY <1>3, <2>2 DEF PlacesOf
    <3>2. kept[i] = rows[pos[i]] /\ kept[j] = rows[pos[j]]
      BY <2>2 DEF PlacesOf
    <3>3. pos[i] = pos[j]
      BY <1>1, <2>3, <3>1, <3>2 DEF OneRowPerUrl
    <3> QED
      BY <2>2, <3>3 DEF PlacesOf
  <2>4. Len(kept) \in Nat /\ Listing(kept)
    BY <2>1, RangeOf
  <2>5. Len(kept) <= TopK
    BY <1>1, <2>1, <2>4
  <2> QED
    BY <2>3, <2>4, <2>5 DEF OneRowPerUrl, kept
<1> QED
  BY <1>2, <1>4, <1>5

LEMMA FoundHolds ==
  ASSUME NEW q, NEW case, NEW rows, NEW authority, NEW C, NEW s, Brings(rows, s, C, TopK),
         Found(q, case, rows, authority)
  PROVE  SearchHolds' /\ OutHolds'
<1>1. search' = NoSearch /\ out'.rows = FilterGovResults(case.frame, rows)
  BY DEF Found
<1>2. SearchHolds'
  BY <1>1 DEF SearchHolds, NoSearch
<1>3. /\ Len(out'.rows) <= TopK /\ Listing(out'.rows) /\ OneRowPerUrl(out'.rows)
  BY <1>1, FilterBrings
<1> QED
  BY <1>2, <1>3 DEF OutHolds

LEMMA LiveRowsType == LiveRows \in Seq(Range(Rows))
BY SearchIndexAssumption, PickedType DEF LiveRows

LEMMA CopiesCount ==
  ASSUME IndexTypes
  PROVE  \A c \in Range(Rows) : copies[c.id] \in Nat
<1> SUFFICES ASSUME NEW c \in Range(Rows) PROVE copies[c.id] \in Nat
  OBVIOUS
<1>1. c.id \in Ids
  BY DEF Ids
<1> QED
  BY <1>1 DEF IndexTypes

LEMMA SearchMainHolds ==
  ASSUME IndexTypes, OutHolds, NEW q \in Questions, SearchMain(q)
  PROVE  SearchHolds' /\ OutHolds'
<1>1. PICK case \in {Cases[q]} :
        IF case.s.contact /\ DirectContactRows(case.s, LiveRows, 8 * TopK) # <<>>
        THEN Found(q, case, ContactResult(case.s, LiveRows, TopK), FALSE)
        ELSE /\ search' = [stage |-> "rest", q |-> q, case |-> case,
                           main |-> IdsOf(IF table THEN FtsRows(case.s, LiveRows, copies, 64 * TopK)
                                          ELSE LikeRows(case.s, LiveRows, 64 * TopK))]
             /\ out' = Nothing
  BY DEF SearchMain
<1>2. TopK \in Nat /\ 64 * TopK \in Nat
  BY SearchIndexAssumption
<1>3. CASE Found(q, case, ContactResult(case.s, LiveRows, TopK), FALSE)
  <2>1. Brings(ContactResult(case.s, LiveRows, TopK), case.s, Range(Rows), TopK)
    BY <1>2, LiveRowsType, ContactBrings
  <2> QED
    BY <1>3, <2>1, FoundHolds
<1>4. CASE ~Found(q, case, ContactResult(case.s, LiveRows, TopK), FALSE)
  <2> DEFINE rows == IF table THEN FtsRows(case.s, LiveRows, copies, 64 * TopK)
                     ELSE LikeRows(case.s, LiveRows, 64 * TopK)
  <2>1. rows \in Seq(Range(Rows))
    <3>1. FtsRows(case.s, LiveRows, copies, 64 * TopK) \in Seq(Range(Rows))
      BY <1>2, LiveRowsType, CopiesCount, FtsRowsType
    <3>2. LikeRows(case.s, LiveRows, 64 * TopK) \in Seq(Range(Rows))
      BY <1>2, LiveRowsType, LikeRowsType
    <3> QED
      BY <3>1, <3>2
  <2>2. search' = [stage |-> "rest", q |-> q, case |-> case, main |-> IdsOf(rows)] /\ out' = Nothing
    BY <1>1, <1>4
  <2> HIDE DEF rows
  <2>3. IdsOf(rows) \in Seq(Ids)
    <3>1. Len(rows) \in Nat /\ DOMAIN rows = 1 .. Len(rows) /\ \A i \in 1 .. Len(rows) : rows[i] \in Range(Rows)
      BY <2>1
    <3>2. \A i \in 1 .. Len(rows) : rows[i].id \in Ids
      BY <3>1 DEF Ids
    <3>3. IdsOf(rows) \in [1 .. Len(rows) -> Ids]
      BY <3>1, <3>2 DEF IdsOf
    <3> QED
      BY <3>1, <3>3, ListOf
  <2>4. Listing(case.s.expected)
    <3>1. case = CaseWith(q, ResolveCase(q, <<>>))
      BY DEF Cases
    <3>2. case.s = Reading(RetrievalQuery(q, ResolveCase(q, <<>>)))
      BY <3>1 DEF CaseWith
    <3> QED
      BY <3>2, ReadingIs
  <2>5. SearchHolds'
    BY <2>2, <2>3, <2>4 DEF SearchHolds
  <2>6. OutHolds'
    BY <2>2, SilenceHolds
  <2> QED
    BY <2>5, <2>6
<1> QED
  BY <1>3, <1>4

LEMMA SearchRestHolds ==
  ASSUME IndexTypes, SearchHolds, SearchRest
  PROVE  SearchHolds' /\ OutHolds'
<1> DEFINE s == search.case.s
           main == [i \in DOMAIN search.main |-> RowOf(search.main[i])]
           now == IF table THEN copies ELSE [id \in Ids |-> 0]
<1>1. /\ search.stage = "rest"
      /\ Found(search.q, search.case, SearchResult(s, main, LiveRows, now, TopK), AuthorityIndexed(s))
  BY DEF SearchRest
<1>2. search.main \in Seq(Ids) /\ Listing(s.expected)
  BY <1>1 DEF SearchHolds
<1>3. main \in Seq(Range(Rows))
  <2>1. \A id \in Ids : RowOf(id) \in Range(Rows)
    BY DEF Ids, RowOf
  <2>2. Len(search.main) \in Nat /\ main \in [1 .. Len(search.main) -> Range(Rows)]
    BY <1>2, <2>1
  <2> HIDE DEF main
  <2> QED
    BY <2>2, ListOf
<1>4. \A c \in Range(Rows) : now[c.id] \in Nat
  <2>1. \A c \in Range(Rows) : c.id \in Ids
    BY DEF Ids
  <2> QED
    BY <2>1, CopiesCount
<1> HIDE DEF s, main, now
<1>5. TopK \in Nat
  BY SearchIndexAssumption
<1>6. Brings(SearchResult(s, main, LiveRows, now, TopK), s, Range(Rows), TopK)
  BY <1>2, <1>3, <1>4, <1>5, LiveRowsType, SearchBrings
<1> QED
  BY <1>1, <1>6, FoundHolds

LEMMA IndexStep ==
  ASSUME IndexInv, [IndexNext]_indexVars
  PROVE  IndexInv'
<1> USE DEF IndexInv
<1>1. ASSUME IndexCore', SearchHolds', OutHolds' PROVE IndexInv'
  BY <1>1 DEF IndexCore
<1>2. IndexCore
  BY DEF IndexCore
<1>3. ASSUME NEW id \in Ids, CrawlerPublishes(id) \/ CrawlerSupersedes(id) PROVE IndexInv'
  <2>1. UNCHANGED search /\ out' = Nothing
    BY <1>3 DEF CrawlerPublishes, CrawlerSupersedes
  <2> QED
    BY <1>1, <1>2, <1>3, <2>1, PublishKeeps, IdleSearch
<1>4. CASE Start
  <2>1. UNCHANGED search /\ out' = Nothing
    BY <1>4 DEF Start
  <2> QED
    BY <1>1, <1>2, <1>4, <2>1, StartKeeps, IdleSearch
<1>5. ASSUME NEW b \in Builders, Reindex(b) PROVE IndexInv'
  <2>1. UNCHANGED search /\ out' = Nothing
    BY <1>5 DEF Reindex
  <2> QED
    BY <1>1, <1>2, <1>5, <2>1, ReindexKeepsCore, IdleSearch
<1>6. ASSUME NEW b \in Builders, Check(b) \/ Create(b) \/ Insert(b) \/ Count(b) PROVE IndexInv'
  <2>1. UNCHANGED search /\ out' = Nothing
    BY <1>6 DEF Check, Create, Insert, Count
  <2> QED
    BY <1>1, <1>2, <1>6, <2>1, BuildKeeps, IdleSearch
<1>7. CASE Crash
  <2>1. search' = NoSearch /\ out' = Nothing
    BY <1>7 DEF Crash
  <2>2. SearchHolds'
    BY <2>1 DEF SearchHolds, NoSearch
  <2> QED
    BY <1>1, <1>2, <1>7, <2>1, <2>2, CrashKeeps, SilenceHolds
<1>8. ASSUME NEW q \in Questions, SearchMain(q) PROVE IndexInv'
  <2>1. UNCHANGED <<stored, live, table, copies, pc, server, asked, spoilt, kills>>
    BY <1>8 DEF SearchMain
  <2> QED
    BY <1>1, <1>2, <1>8, <2>1, SearchMainHolds, CoreStays
<1>9. CASE SearchRest
  <2>1. UNCHANGED <<stored, live, table, copies, pc, server, asked, spoilt, kills>>
    BY <1>9 DEF SearchRest
  <2> QED
    BY <1>1, <1>2, <1>9, <2>1, SearchRestHolds, CoreStays
<1>10. CASE Answered
  <2>1. /\ UNCHANGED <<stored, live, table, copies, pc, server, asked, spoilt, kills>>
        /\ UNCHANGED search /\ out' = Nothing
    BY <1>10 DEF Answered
  <2> QED
    BY <1>1, <1>2, <2>1, CoreStays, IdleSearch
<1>11. CASE UNCHANGED indexVars
  <2>1. /\ UNCHANGED <<stored, live, table, copies, pc, server, asked, spoilt, kills>>
        /\ UNCHANGED <<search, out>>
    BY <1>11 DEF indexVars
  <2>2. SearchHolds' /\ OutHolds'
    BY <2>1 DEF SearchHolds, OutHolds
  <2> QED
    BY <1>1, <1>2, <2>1, <2>2, CoreStays
<1> QED
  BY <1>3, <1>4, <1>5, <1>6, <1>7, <1>8, <1>9, <1>10, <1>11 DEF IndexNext

(* Two administrators reindexing, a crash between two statements, a boot   *)
(* that finds half a table, the crawler at work: a rebuild that nothing    *)
(* spoilt has every chunk once, and a search never returns two rows of one *)
(* page or more rows than asked for.                                       *)
THEOREM IndexSound == IndexSpec => [](IndexTypeOK /\ ReindexCovers /\ OnePagePerUrl)
<1>1. IndexSpec => []IndexInv
  BY IndexBegins, IndexStep, PTL DEF IndexSpec
<1>2. IndexInv => IndexTypeOK /\ ReindexCovers /\ OnePagePerUrl
  <2> SUFFICES ASSUME IndexInv PROVE IndexTypeOK /\ ReindexCovers /\ OnePagePerUrl
    OBVIOUS
  <2>1. IndexTypeOK
    BY DEF IndexInv, IndexTypes, SearchHolds, OutHolds, IndexTypeOK
  <2>2. ReindexCovers
    <3> SUFFICES ASSUME NEW b \in Builders, pc[b] = "count", ~spoilt, NEW id \in asked[b]
                 PROVE  copies[id] = 1
      BY DEF ReindexCovers
    <3> QED
      BY DEF IndexInv, Rebuilt
  <2>3. OnePagePerUrl
    <3>1. Listing(out.rows) /\ OneRowPerUrl(out.rows)
      BY DEF IndexInv, OutHolds
    <3>2. DOMAIN out.rows = 1 .. Len(out.rows)
      BY <3>1, ListingHas
    <3> QED
      BY <3>1, <3>2 DEF OnePagePerUrl, OneRowPerUrl
  <2> QED
    BY <2>1, <2>2, <2>3
<1> QED
  BY <1>1, <1>2, PTL

(***************************************************************************)
(* The case of a contact query.  Its words are those of the first case, so *)
(* that its frame has the same place.                                      *)
(***************************************************************************)
LEMMA BestOfIs ==
  ASSUME NEW order, Listing(order), NEW entries, NEW text
  PROVE  BestOf(order, entries, text) \in {None} \cup Range(order)
<1> DEFINE sc == [i \in DOMAIN order |-> Score(entries, order[i], text)]
           top == {i \in DOMAIN order : sc[i] > 0 /\ \A j \in DOMAIN order : sc[j] <= sc[i]}
<1>1. BestOf(order, entries, text) = IF top = {} THEN None ELSE order[Min(top)]
  BY DEF BestOf
<1>2. DOMAIN order = 1 .. Len(order) /\ \A i \in 1 .. Len(order) : order[i] \in Range(order)
  BY ListingHas
<1>3. top \subseteq DOMAIN order /\ top \subseteq Nat
  BY <1>2
<1> HIDE DEF top
<1>4. top # {} => Min(top) \in top
  BY <1>3, LeastPlace
<1> QED
  BY <1>1, <1>2, <1>3, <1>4

ServiceNames == {"citizenship", "passport", "national_id", "vital_registration", "pan_tax",
                 "driving_license", "police_clearance", "foreign_employment", "land",
                 "municipality_service", "none"}

LEMMA ServiceIs ==
  ASSUME NEW text
  PROVE  DetectService(text) \in ServiceNames
<1>1. Listing(Services) /\ Range(Services) \cup {None} = ServiceNames
  <2>1. Services \in Seq(ServiceNames)
    BY DEF Services, ServiceNames
  <2>2. /\ Len(Services) = 10 /\ DOMAIN Services = 1 .. 10
        /\ Services[1] = "citizenship" /\ Services[2] = "passport" /\ Services[3] = "national_id"
        /\ Services[4] = "vital_registration" /\ Services[5] = "pan_tax"
        /\ Services[6] = "driving_license" /\ Services[7] = "police_clearance"
        /\ Services[8] = "foreign_employment" /\ Services[9] = "land"
        /\ Services[10] = "municipality_service"
    BY DEF Services
  <2>3. Range(Services) = {Services[i] : i \in 1 .. 10}
    BY <2>2 DEF Range
  <2>4. Range(Services) \subseteq ServiceNames
    <3>1. ASSUME NEW i \in 1 .. 10 PROVE Services[i] \in ServiceNames
      <4>1. \/ i = 1 \/ i = 2 \/ i = 3 \/ i = 4 \/ i = 5
            \/ i = 6 \/ i = 7 \/ i = 8 \/ i = 9 \/ i = 10
        OBVIOUS
      <4> QED
        BY <2>2, <4>1 DEF ServiceNames
    <3> QED
      BY <2>3, <3>1
  <2>5. ASSUME NEW x \in ServiceNames PROVE x \in Range(Services) \cup {None}
    <3>1. x \in {None, Services[1], Services[2], Services[3], Services[4], Services[5],
                Services[6], Services[7], Services[8], Services[9], Services[10]}
      BY <2>2 DEF ServiceNames, None
    <3>2. \A i \in 1 .. 10 : Services[i] \in Range(Services)
      BY <2>3
    <3> QED
      BY <3>1, <3>2
  <2>6. Listing(Services)
    <3>1. Services \in [1 .. 10 -> Range(Services)]
      <4>1. Services = [i \in 1 .. 10 |-> Services[i]]
        BY <2>2 DEF Services
      <4>2. \A i \in 1 .. 10 : Services[i] \in Range(Services)
        BY <2>3
      <4> QED
        BY <4>1, <4>2
    <3>2. 10 \in Nat
      OBVIOUS
    <3> QED
      BY <3>1, <3>2, ListOf DEF Listing
  <2> QED
    BY <2>4, <2>5, <2>6 DEF ServiceNames, None
<1>2. /\ BestOf(Services, SERVICE_ALIASES, text) \in ServiceNames
      /\ BestOf(Services, Concrete(text), text) \in ServiceNames
  BY <1>1, BestOfIs
<1> QED
  BY <1>2 DEF DetectService, ServiceOf, ServiceNames, None

(* The hosts a case may expect an answer from.                             *)
HostNames == {"moha.gov.np", "nepalpassport.gov.np", "donidcr.gov.np", "ird.gov.np", "dotm.gov.np",
              "nepalpolice.gov.np", "dofe.gov.np", "feb.gov.np", "moless.gov.np", "dolma.gov.np",
              "jirimun.gov.np", "khandbarimun.gov.np", "dharmadevimun.gov.np",
              "daodolakha.moha.gov.np", "daosankhuwasabha.moha.gov.np", "daotanahu.moha.gov.np"}

LEMMA ExpectedAre ==
  ASSUME NEW service \in ServiceNames, NEW office,
         NEW district \in {None} \cup Range(Districts),
         NEW muni \in {None} \cup Range(Municipalities)
  PROVE  ExpectedDomains(service, office, district, muni) \subseteq HostNames
<1>1. /\ muni \in {"none", "jiri", "khandbari", "dharmadevi"}
      /\ district \in {"none", "dolakha", "sankhuwasabha", "tanahu"}
  BY DEF Municipalities, Districts, Range, None
<1>2. SERVICE_AUTHORITY_DOMAINS[service] \subseteq HostNames
  BY DEF SERVICE_AUTHORITY_DOMAINS, ServiceNames, HostNames
<1>3. MunicipalityDomain[muni] \in HostNames \cup {None}
  BY <1>1 DEF MunicipalityDomain, HostNames
<1>4. DaoDomain[district] \in HostNames \cup {None}
  BY <1>1 DEF DaoDomain, HostNames
<1> QED
  BY <1>2, <1>3, <1>4 DEF ExpectedDomains

(* A case has places of the tables, and expects hosts of them.             *)
LEMMA CasePlaces ==
  ASSUME NEW question, NEW history
  PROVE  LET f == ResolveCase(question, history)
             d == Detected(question.words, HistoryText(history), HistoryText(history) \cup question.words)
         IN  /\ f.municipality = d.municipality /\ f.district = d.district
             /\ f.municipality \in {None} \cup Range(Municipalities)
             /\ f.district \in {None} \cup Range(Districts)
             /\ f.municipality # None => f.district # None
<1> DEFINE both == HistoryText(history) \cup question.words
           d == Detected(question.words, HistoryText(history), both)
<1>1. PICK g : FrameSays(g, question, d) /\ ResolveCase(question, history) = WithMissing(g, question)
  BY ResolvedSays
<1>2. /\ d.municipality \in {None} \cup (Range(Municipalities) \cap both)
      /\ \/ d.district \in Range(Districts) \cap both
         \/ d.municipality # None /\ d.district = MunicipalityDistrict[d.municipality]
         \/ d.municipality = None /\ d.district = None
  <2>1. question.words \subseteq both
    OBVIOUS
  <2> HIDE DEF both
  <2> QED
    BY <2>1, DetectedPlaces
<1> DEFINE f == ResolveCase(question, history)
<1> HIDE DEF d, both
<1>3. f.municipality = d.municipality /\ f.district = d.district
  <2>1. f = WithMissing(g, question)
    BY <1>1
  <2> HIDE DEF f
  <2> QED
    BY <1>1, <2>1, MissingIs
<1>4. \A x \in Range(Districts) : x # None
  BY DEF Districts, Range, None
<1> HIDE DEF f
<1>5. /\ f.municipality \in {None} \cup Range(Municipalities)
      /\ f.district \in {None} \cup Range(Districts)
      /\ f.municipality # None => f.district # None
  BY <1>2, <1>3, <1>4, HostsAre
<1> QED
  BY <1>3, <1>5 DEF f, d, both

(* What a case expects.                                                    *)
LEMMA CaseExpects ==
  ASSUME NEW question, NEW history
  PROVE  ResolveCase(question, history).expected \subseteq HostNames
<1> DEFINE past0 == HistoryText(history)
           both == past0 \cup question.words
           d == Detected(question.words, past0, both)
           f == ResolveCase(question, history)
<1>1. f = CaseOf(question, past0, both, d)
  BY DEF ResolveCase
<1>2. /\ f.municipality = d.municipality /\ f.district = d.district
      /\ f.municipality \in {None} \cup Range(Municipalities)
      /\ f.district \in {None} \cup Range(Districts)
  BY CasePlaces
<1>3. d.before \in ServiceNames /\ d.service \in ServiceNames
  BY ServiceIs DEF Detected, Or
<1> HIDE DEF d, both, past0, f
<1>4. ASSUME NEW g, f = WithMissing(g, question), "expected" \in DOMAIN g,
             NEW service \in ServiceNames, NEW office,
             g.expected = ExpectedDomains(service, office, d.district, d.municipality)
      PROVE  f.expected \subseteq HostNames
  <2>1. f.expected = ExpectedDomains(service, office, d.district, d.municipality)
    BY <1>4 DEF WithMissing
  <2> QED
    BY <1>2, <2>1, ExpectedAre
<1>5. "municipality_service" \in ServiceNames /\ None \in ServiceNames
  BY DEF ServiceNames, None
<1>6. CASE Contextual(question, d)
  <2> DEFINE action == Or(DetectAction(past0), DetectAction(both))
             office == Or(DetectOffice(past0), d.office)
             service == ServiceAsked(d.before, action, d, office)
             caseType == CaseTypeOf(d.before, past0, both)
             g == ContextualFrame(question, past0, both, d)
  <2>1. f = WithMissing(g, question)
    BY <1>1, <1>6 DEF CaseOf
  <2>2. service \in ServiceNames
    BY <1>3, <1>5 DEF ServiceAsked
  <2>3. /\ "expected" \in DOMAIN g
        /\ g.expected = ExpectedDomains(service, office, d.district, d.municipality)
    <3>1. g = FrameOf(question, both, d, service, action, caseType, office, TRUE)
      BY DEF ContextualFrame
    <3> HIDE DEF action, office, service, caseType, g
    <3> QED
      BY <3>1 DEF FrameOf
  <2> HIDE DEF action, office, service, caseType, g
  <2>4. f.expected \subseteq HostNames
    BY <1>4, <2>1, <2>2, <2>3
  <2> QED
    BY <2>4 DEF f
<1>7. CASE ~Contextual(question, d)
  <2> DEFINE generic == IsGenericIntakeRequest(question.words)
             intake == generic /\ d.service \in {None, "municipality_service"}
             s0 == IF intake THEN None ELSE d.service
             action == IF intake THEN None ELSE d.action
             service == ServiceAsked(s0, action, d, d.office)
             caseType == CaseTypeOf(s0, question.words, both)
             g == DirectFrame(question, both, d, generic)
  <2>1. f = WithMissing(g, question)
    BY <1>1, <1>7 DEF CaseOf
  <2>2. service \in ServiceNames
    BY <1>3, <1>5 DEF ServiceAsked
  <2>3. /\ "expected" \in DOMAIN g
        /\ g.expected = ExpectedDomains(service, d.office, d.district, d.municipality)
    <3>1. g = FrameOf(question, both, d, service, action, caseType, d.office, FALSE)
      BY DEF DirectFrame
    <3> HIDE DEF intake, s0, action, service, caseType, generic, g
    <3> QED
      BY <3>1 DEF FrameOf
  <2> HIDE DEF intake, s0, action, service, caseType, generic, g
  <2>4. f.expected \subseteq HostNames
    BY <1>4, <2>1, <2>2, <2>3
  <2> QED
    BY <2>4 DEF f
<1> QED
  BY <1>6, <1>7 DEF f

(* Who asks for a phone number and complains of nothing wants a contact.    *)
LEMMA SecondIsLeast ==
  ASSUME NEW I, I \subseteq 1 .. 7, 1 \notin I, 2 \in I
  PROVE  Min(I) = 2
<1>1. Min(I) \in I /\ \A i \in I : Min(I) <= i
  <2>1. I \subseteq Nat
    OBVIOUS
  <2> QED
    BY <2>1, LeastPlace
<1>2. PICK m \in 1 .. 7 : m = Min(I)
  BY <1>1
<1> QED
  BY <1>1, <1>2

LEMMA ActionIsContact ==
  ASSUME NEW text, "phone" \in text, "ujuri" \notin text
  PROVE  DetectAction(text) = "contact"
<1> DEFINE wants(i) == ContainsAny(text, ACTION_ALIASES[Actions[i]])
           I == {i \in 1 .. Len(Actions) : wants(i)}
<1>1. DetectAction(text) = LET i == IF I # {} THEN Min(I) ELSE 0
                           IN  IF i = 0 THEN None ELSE Actions[i]
  BY DEF DetectAction, First, SelectInSeq
<1>2. Len(Actions) = 7 /\ Actions[1] = "complaint" /\ Actions[2] = "contact"
  BY DEF Actions
<1>3. ~wants(1)
  <2>1. ACTION_ALIASES["complaint"] = {"ujuri"}
    BY DEF ACTION_ALIASES
  <2> QED
    BY <1>2, <2>1 DEF ContainsAny
<1>4. wants(2)
  <2>1. "phone" \in ACTION_ALIASES["contact"]
    BY DEF ACTION_ALIASES
  <2> QED
    BY <1>2, <2>1 DEF ContainsAny
<1> HIDE DEF wants
<1>5. 1 \notin I /\ 2 \in I /\ I \subseteq 1 .. 7
  BY <1>2, <1>3, <1>4
<1> HIDE DEF I
<1>6. Min(I) = 2
  BY <1>5, SecondIsLeast
<1> QED
  BY <1>1, <1>2, <1>5, <1>6

(* A question that asks for a phone number, complains of nothing and does  *)
(* not ask for the way in is a contact question.                           *)
LEMMA ContactAsked ==
  ASSUME NEW question, NEW history,
         "phone" \in question.words, "ujuri" \notin question.words,
         "government office" \notin question.words
  PROVE  ResolveCase(question, history).action = "contact"
<1> DEFINE past0 == HistoryText(history)
           both == past0 \cup question.words
           d == Detected(question.words, past0, both)
           f == ResolveCase(question, history)
<1>1. DetectAction(question.words) = "contact"
  BY ActionIsContact
<1>2. ~IsGenericIntakeRequest(question.words)
  BY DEF IsGenericIntakeRequest, ContainsAny, GenericIntakeGov
<1>3. d.asksFor = "contact" /\ d.action = "contact"
  BY <1>1 DEF Detected, Or, None
<1>4. f = CaseOf(question, past0, both, d)
  BY DEF ResolveCase
<1> HIDE DEF d, both, past0, f
<1>5. ~Contextual(question, d)
  BY <1>3 DEF Contextual, None
<1> DEFINE g == DirectFrame(question, both, d, IsGenericIntakeRequest(question.words))
<1>6. f = WithMissing(g, question)
  BY <1>4, <1>5 DEF CaseOf
<1>7. g.action = "contact" /\ "action" \in DOMAIN g
  BY <1>2, <1>3 DEF DirectFrame, FrameOf
<1> HIDE DEF g
<1>8. f.action = "contact"
  BY <1>6, <1>7 DEF WithMissing
<1> QED
  BY <1>8 DEF f

LEMMA WordsMeet ==
  ASSUME NEW D, NEW M, NEW A, NEW dist, NEW muni, NEW none, NEW w,
         dist \in D, muni = none \/ muni \in M, none \notin D, none \notin M,
         \A x \in A : x \notin D /\ x \notin M, \A x \in D : x \notin M,
         \A x \in w : x \in A \/ x = dist \/ (x = muni /\ x # none),
         dist \in w, muni # none => muni \in w
  PROVE  D \cap w = {dist} /\ M \cap w = {muni} \ {none}
OBVIOUS

(* The words of the query for the contact of a case with a place.          *)
LEMMA ContactWords ==
  ASSUME NEW question, NEW history, NEW f, f = ResolveCase(question, history),
         f.district # None
  PROVE  LET w == ContactQuery(f, question)
         IN  /\ "phone" \in w /\ "ujuri" \notin w /\ "government office" \notin w
             /\ f.district \in w /\ (f.municipality # None => f.municipality \in w)
             /\ Range(Districts) \cap w = {f.district}
             /\ Range(Municipalities) \cap w = {f.municipality} \ {None}
<1> DEFINE w == ContactQuery(f, question)
           always == {"phone", "information officer", "cdo"}
<1>1. /\ f.expected \subseteq HostNames
      /\ f.municipality \in {None} \cup Range(Municipalities)
      /\ f.district \in Range(Districts)
  BY CaseExpects, CasePlaces
<1>2. /\ Range(Municipalities) = {"jiri", "khandbari", "dharmadevi"}
      /\ Range(Districts) = {"dolakha", "sankhuwasabha", "tanahu"}
  BY DEF Municipalities, Districts, Range
<1>3. LocalDomains(f) \subseteq HostNames
  <2>1. MunicipalityDomain[f.municipality] \in HostNames \cup {None}
    BY <1>1, <1>2 DEF MunicipalityDomain, HostNames, None
  <2> QED
    BY <2>1 DEF LocalDomains
<1>4. {f.district, f.municipality, f.office} # {None}
  OBVIOUS
<1>5. /\ w \subseteq always \cup HostNames \cup ({f.district, f.municipality} \ {None})
      /\ "phone" \in w /\ {f.district, f.municipality} \ {None} \subseteq w
  BY <1>1, <1>3, <1>4, ZenonT(60) DEF ContactQuery
<1> HIDE DEF w
<1>6. /\ "ujuri" \notin always \cup HostNames /\ "government office" \notin always \cup HostNames
      /\ Range(Districts) \cap (always \cup HostNames) = {}
      /\ Range(Municipalities) \cap (always \cup HostNames) = {}
  BY <1>2 DEF HostNames
<1>7. /\ Range(Municipalities) \cap Range(Districts) = {}
      /\ {"ujuri", "government office", None} \cap (Range(Municipalities) \cup Range(Districts)) = {}
  BY <1>2 DEF None
<1> HIDE DEF always
<1>8. "ujuri" \notin w /\ "government office" \notin w
  BY <1>1, <1>5, <1>6, <1>7
<1>9. /\ f.district \in w /\ (f.municipality # None => f.municipality \in w)
      /\ Range(Districts) \cap w = {f.district}
      /\ Range(Municipalities) \cap w = {f.municipality} \ {None}
  <2>1. f.district \in w /\ (f.municipality # None => f.municipality \in w)
    BY <1>5
  <2> DEFINE D == Range(Districts)
             M == Range(Municipalities)
             A == always \cup HostNames
             p == f.district
             m == f.municipality
  <2>2. /\ p \in D /\ (m = None \/ m \in M)
        /\ \A x \in A : x \notin D /\ x \notin M
        /\ \A x \in D : x \notin M
    BY <1>1, <1>6, <1>7
  <2>3. None \notin D /\ None \notin M
    BY <1>7
  <2>4. /\ \A x \in w : x \in A \/ x = p \/ (x = m /\ x # None)
        /\ p \in w /\ (m # None => m \in w)
    BY <1>5, <2>1
  <2> HIDE DEF D, M, A, p, m
  <2>5. D \cap w = {p} /\ M \cap w = {m} \ {None}
    BY <2>2, <2>3, <2>4, WordsMeet
  <2> QED
    BY <2>1, <2>5 DEF D, M, p, m
<1> QED
  BY <1>5, <1>8, <1>9 DEF w

(* Its own case asks for a contact at the same place.                      *)
LEMMA ContactCase ==
  ASSUME NEW question, NEW history, NEW f, f = ResolveCase(question, history),
         f.district # None,
         NEW query, query.words = ContactQuery(f, question),
         NEW g, g = ResolveCase(query, history)
  PROVE  g.action = "contact" /\ AllowedLocal(g) = AllowedLocal(f)
<1> DEFINE w == ContactQuery(f, question)
           past0 == HistoryText(history)
           d == Detected(question.words, past0, past0 \cup question.words)
           e == Detected(w, past0, past0 \cup w)
<1>1. /\ "phone" \in w /\ "ujuri" \notin w /\ "government office" \notin w
      /\ Range(Districts) \cap w = {f.district}
      /\ Range(Municipalities) \cap w = {f.municipality} \ {None}
  BY ContactWords
<1> HIDE DEF w
<1>2. g.action = "contact"
  <2>1. query.words = w
    BY DEF w
  <2> QED
    BY <1>1, <2>1, ContactAsked
<1>3. f.municipality = d.municipality /\ f.district = d.district
  BY CasePlaces
<1>4. g.municipality = e.municipality /\ g.district = e.district
  <2>1. query.words = w
    BY DEF w
  <2> QED
    BY <2>1, CasePlaces
<1>5. /\ e.municipality = Or(MunicipalityFromText(w), MunicipalityFromText(past0 \cup w))
      /\ e.district = Or(Or(DistrictFromText(w), DistrictFromText(past0 \cup w)),
                         MunicipalityDistrict[e.municipality])
  BY DEF Detected
<1>6. d.municipality = None => Range(Municipalities) \cap past0 = {}
  <2>1. question.words \subseteq past0 \cup question.words
    OBVIOUS
  <2>2. d.municipality = None => Range(Municipalities) \cap (past0 \cup question.words) = {}
    BY <2>1, DetectedPlaces
  <2> QED
    BY <2>2
<1> HIDE DEF d, e, past0
<1>7. e.municipality = f.municipality
  <2>1. CASE f.municipality # None
    <3>1. MunicipalityFromText(w) = f.municipality
      BY <1>1, <2>1, FirstPlaces
    <3> QED
      BY <1>5, <2>1, <3>1 DEF Or
  <2>2. CASE f.municipality = None
    <3>1. Range(Municipalities) \cap w = {} /\ Range(Municipalities) \cap (past0 \cup w) = {}
      BY <1>1, <1>3, <1>6, <2>2
    <3>2. MunicipalityFromText(w) = None /\ MunicipalityFromText(past0 \cup w) = None
      BY <3>1, FirstPlaces
    <3> QED
      BY <1>5, <2>2, <3>2 DEF Or
  <2> QED
    BY <2>1, <2>2
<1>8. e.district = f.district
  <2>1. DistrictFromText(w) = f.district
    BY <1>1, FirstPlaces
  <2> QED
    BY <1>5, <2>1 DEF Or
<1>9. g.municipality = f.municipality /\ g.district = f.district
  BY <1>4, <1>7, <1>8
<1> QED
  BY <1>2, <1>9 DEF AllowedLocal, LocalDomains

(* A case that allows local hosts has a district.                          *)
LEMMA PlaceHasDistrict ==
  ASSUME NEW question, NEW history, AllowedLocal(ResolveCase(question, history)) # {}
  PROVE  ResolveCase(question, history).district # None
<1> DEFINE f == ResolveCase(question, history)
<1>1. f.municipality # None => f.district # None
  BY CasePlaces
<1> HIDE DEF f
<1>2. AllowedLocal(f) # {} => f.district # None
  BY <1>1, HostsAre DEF AllowedLocal, LocalDomains
<1> QED
  BY <1>2 DEF f

(***************************************************************************)
(* The sources of a contact, and the best whom they name.                  *)
(***************************************************************************)

LEMMA PagesBring ==
  ASSUME NEW text
  PROVE  Brings(PagesFound(Reading(text)), Reading(text), Range(Pages), TopKGov)
<1> DEFINE s == Reading(text)
           once == [id \in {c.id : c \in Range(Pages)} |-> 1]
           direct == DirectContactRows(s, Pages, 8 * TopKGov)
           main == FtsRows(s, Pages, once, 64 * TopKGov)
<1>1. PagesFound(s) = IF s.contact /\ direct # <<>> THEN ContactResult(s, Pages, TopKGov)
                      ELSE SearchResult(s, main, Pages, once, TopKGov)
  BY DEF PagesFound
<1>2. Pages \in Seq(Range(Pages)) /\ TopKGov \in Nat /\ 64 * TopKGov \in Nat
  BY PagesAssumption, OutreachAssumption
<1>3. \A c \in Range(Pages) : once[c.id] \in Nat
  OBVIOUS
<1>4. Listing(s.expected)
  BY ReadingIs
<1> HIDE DEF s, once, direct
<1>5. main \in Seq(Range(Pages))
  BY <1>2, <1>3, FtsRowsType
<1> HIDE DEF main
<1>6. Brings(SearchResult(s, main, Pages, once, TopKGov), s, Range(Pages), TopKGov)
  BY <1>2, <1>3, <1>4, <1>5, SearchBrings
<1>7. Brings(ContactResult(s, Pages, TopKGov), s, Range(Pages), TopKGov)
  BY <1>2, ContactBrings
<1>8. Brings(PagesFound(s), s, Range(Pages), TopKGov)
  BY <1>1, <1>6, <1>7
<1> QED
  BY <1>8 DEF s

(* What a contact query retrieves is of the case's place.                  *)
LEMMA SourcesOf ==
  ASSUME NEW question, NEW history, NEW f, f = ResolveCase(question, history),
         "words" \in DOMAIN question,
         NEW asked0, asked0.question = question, asked0.history = history,
         NEW sources, sources = PagesOf(ContactSources(f, asked0))
  PROVE  /\ sources \in Seq(Range(Pages))
         /\ AllowedLocal(f) # {} =>
              \A i \in 1 .. Len(sources) : HostMatches(sources[i].host, AllowedLocal(f))
<1> DEFINE query == [question EXCEPT !.words = ContactQuery(f, question)]
           g == ResolveCase(query, history)
           text == RetrievalQuery(query, g)
           hits == PagesFound(Reading(text))
           rows == FilterGovResults(g, hits)
<1>1. sources = PagesOf(rows)
  BY DEF ContactSources, SourcesFor, Retrieved
<1>2. query.words = ContactQuery(f, question)
  OBVIOUS
<1>3. Brings(hits, Reading(text), Range(Pages), TopKGov)
  BY PagesBring
<1>4. AllowedLocal(f) # {} => g.action = "contact" /\ AllowedLocal(g) = AllowedLocal(f)
  BY <1>2, ContactCase, PlaceHasDistrict
<1> HIDE DEF query, text, hits
<1>5. Listing(hits) /\ Range(hits) \subseteq ScoredRows(Reading(text), Range(Pages))
  BY <1>3, RangeOf DEF Brings
<1>6. rows = IF AllowedLocal(g) = {} THEN hits
             ELSE Picked(hits, {i \in DOMAIN hits :
                    \/ HostMatches(hits[i].host, AllowedLocal(g))
                    \/ g.action # "contact" /\ ~IsLocalHost(hits[i].host)})
  BY DEF FilterGovResults
<1> HIDE DEF g, rows
<1>7. /\ Listing(rows) /\ Range(rows) \subseteq Range(hits)
      /\ AllowedLocal(f) # {} => \A x \in Range(rows) : HostMatches(x.host, AllowedLocal(f))
  <2>1. CASE AllowedLocal(g) = {}
    BY <1>4, <1>5, <1>6, <2>1
  <2>2. CASE AllowedLocal(g) # {}
    <3> DEFINE K == {i \in DOMAIN hits :
                       \/ HostMatches(hits[i].host, AllowedLocal(g))
                       \/ g.action # "contact" /\ ~IsLocalHost(hits[i].host)}
    <3>1. rows = Picked(hits, K) /\ K \subseteq DOMAIN hits
      BY <1>6, <2>2
    <3>2. g.action = "contact" => \A i \in K : HostMatches(hits[i].host, AllowedLocal(g))
      OBVIOUS
    <3> HIDE DEF K
    <3>3. /\ Listing(rows)
          /\ \A x \in Range(rows) : x \in Range(hits) /\ \E i \in K : hits[i] = x
      BY <1>5, <3>1, KeptOf
    <3> QED
      BY <1>4, <3>2, <3>3
  <2> QED
    BY <2>1, <2>2
<1>8. ASSUME NEW x \in Range(rows)
      PROVE  PageOf(x.id) \in Range(Pages) /\ PageOf(x.id).host = x.host
  <2>1. x \in ScoredRows(Reading(text), Range(Pages))
    BY <1>5, <1>7
  <2>2. PICK c \in Range(Pages) : x.id = c.id /\ x.host = c.host
    BY <2>1, RowOfChunk
  <2>3. PageOf(x.id) \in Range(Pages) /\ PageOf(x.id).id = x.id
    BY <2>2 DEF PageOf
  <2>4. PageOf(x.id) = c
    BY <2>2, <2>3, PagesAssumption
  <2> QED
    BY <2>2, <2>4
<1>9. /\ Len(rows) \in Nat /\ DOMAIN rows = 1 .. Len(rows)
      /\ \A i \in 1 .. Len(rows) : rows[i] \in Range(rows)
  BY <1>7, ListingHas
<1>10. sources = [i \in 1 .. Len(rows) |-> PageOf(rows[i].id)]
  BY <1>1, <1>9 DEF PagesOf
<1>11. /\ sources \in [1 .. Len(rows) -> Range(Pages)]
       /\ \A i \in 1 .. Len(rows) : sources[i].host = rows[i].host
  BY <1>8, <1>9, <1>10
<1>12. sources \in Seq(Range(Pages)) /\ Len(sources) = Len(rows)
  <2>1. sources \in Seq(Range(Pages))
    BY <1>9, <1>11, ListOf
  <2> QED
    BY <1>9, <1>10, <2>1
<1> QED
  BY <1>7, <1>9, <1>11, <1>12

LEMMA ScoreIs ==
  ASSUME NEW p
  PROVE  /\ RoleScore(p.role) \in 0 .. 4 /\ ContactScore(p) \in 0 .. 19
         /\ 4 * RoleScore(p.role) <= ContactScore(p) /\ ContactScore(p) <= 4 * RoleScore(p.role) + 3
<1> DEFINE r == p.role
           k == RoleScore(r)
           a == When(p.staff, 2)
           b == When(p.named, 1)
<1>1. ASSUME NEW role PROVE RoleScore(role) \in {0, 1, 2, 3, 4}
  <2>1. RoleScore(role) = IF role \in {"information officer", "helpdesk"} THEN 4
                          ELSE IF role = "grievance" THEN 3
                          ELSE IF role \in {"chief administrative", "office contact"} THEN 2
                          ELSE IF role = None THEN 0 ELSE 1
    BY Zenon DEF RoleScore, None
  <2> QED
    BY <2>1
<1>2. a \in {0, 2} /\ b \in {0, 1} /\ k \in {0, 1, 2, 3, 4}
  BY <1>1 DEF When
<1>3. ContactScore(p) = 4 * k + a + b
  BY DEF ContactScore
<1> HIDE DEF a, b, k
<1>4. PICK n \in 0 .. 4 : n = k
  BY <1>2
<1>5. PICK x \in 0 .. 2, y \in 0 .. 1 : x = a /\ y = b
  BY <1>2
<1>6. k \in 0 .. 4 /\ ContactScore(p) = 4 * n + x + y
  BY <1>3, <1>4, <1>5
<1>7. ContactScore(p) \in 0 .. 19 /\ 4 * k <= ContactScore(p) /\ ContactScore(p) <= 4 * k + 3
  BY <1>4, <1>5, <1>6
<1> QED
  BY <1>6, <1>7 DEF k

(* Of those that were found there is a best.                               *)
LEMMA BestIs ==
  ASSUME NEW hits, hits # {}, \A p \in hits : p.number \in Nat
  PROVE  \E p \in hits : \A q \in hits :
           \/ ContactScore(p) > ContactScore(q)
           \/ ContactScore(p) = ContactScore(q) /\ p.number <= q.number
<1> DEFINE short(p) == 19 - ContactScore(p)
           I == {short(p) : p \in hits}
<1>1. \A p \in hits : short(p) \in Nat /\ ContactScore(p) = 19 - short(p)
  <2> SUFFICES ASSUME NEW p \in hits PROVE short(p) \in Nat /\ ContactScore(p) = 19 - short(p)
    OBVIOUS
  <2>1. PICK n \in 0 .. 19 : n = ContactScore(p)
    BY ScoreIs
  <2> QED
    BY <2>1
<1> HIDE DEF short
<1>2. I # {} /\ I \subseteq Nat
  BY <1>1
<1>3. PICK least \in I : \A i \in I : least <= i
  BY <1>2, LeastPlace
<1> DEFINE best == {p \in hits : short(p) = least}
           N == {p.number : p \in best}
<1>4. N # {} /\ N \subseteq Nat
  BY <1>3
<1>5. PICK n \in N : \A m \in N : n <= m
  BY <1>4, LeastPlace
<1>6. PICK p \in best : p.number = n
  BY <1>5
<1>7. ASSUME NEW q \in hits
      PROVE  \/ ContactScore(p) > ContactScore(q)
             \/ ContactScore(p) = ContactScore(q) /\ p.number <= q.number
  <2>1. short(q) \in Nat /\ short(p) = least /\ least <= short(q) /\ short(p) \in Nat
    BY <1>1, <1>3, <1>6
  <2>2. CASE short(q) = least
    <3>1. q.number \in N
      BY <2>2
    <3>2. p.number <= q.number
      BY <1>5, <1>6, <3>1
    <3>3. ContactScore(p) = ContactScore(q)
      BY <1>1, <1>6, <2>1, <2>2
    <3> QED
      BY <3>2, <3>3
  <2>3. CASE short(q) # least
    <3>1. PICK x \in Nat, y \in Nat : x = short(p) /\ y = short(q) /\ x < y
      BY <2>1, <2>3
    <3>2. ContactScore(p) = 19 - x /\ ContactScore(q) = 19 - y
      BY <1>1, <1>6, <3>1
    <3> QED
      BY <3>1, <3>2
  <2> QED
    BY <2>2, <2>3
<1> QED
  BY <1>6, <1>7

(* Whom the sources name.                                                  *)
LEMMA ContactIs ==
  ASSUME NEW sources \in Seq(Range(Pages)), NEW best, best = BestContact(sources), best # NoContact
  PROVE  /\ \E i \in 1 .. Len(sources) : best.host = sources[i].host
         /\ \A i \in 1 .. Len(sources) : \A p \in FirstFound(sources, i) :
              RoleScore(p.role) <= RoleScore(best.role)
<1> DEFINE hits == Candidates(sources)
           told(p, i) == [number |-> p.number, role |-> p.role, named |-> p.named,
                          host |-> sources[i].host, staff |-> "contact page" \in sources[i].marks]
<1>1. DOMAIN sources = 1 .. Len(sources) /\ \A i \in 1 .. Len(sources) : sources[i] \in Range(Pages)
  OBVIOUS
<1> DEFINE toldBy(i) == {told(p, i) : p \in FirstFound(sources, i)}
<1>2. /\ \A i \in 1 .. Len(sources) : toldBy(i) \subseteq hits
      /\ \A x \in hits : \E i \in 1 .. Len(sources) : x \in toldBy(i)
  <2>1. hits = UNION {toldBy(i) : i \in DOMAIN sources}
    BY DEF Candidates
  <2> HIDE DEF toldBy, hits
  <2> QED
    BY <1>1, <2>1
<1>3. /\ \A i \in 1 .. Len(sources) : \A p \in FirstFound(sources, i) :
           told(p, i) \in toldBy(i) /\ told(p, i).role = p.role
      /\ \A i \in 1 .. Len(sources) : \A x \in toldBy(i) :
           x.host = sources[i].host /\ \E p \in FirstFound(sources, i) : x.number = p.number
  <2>1. ASSUME NEW i \in 1 .. Len(sources), NEW x \in toldBy(i)
        PROVE  x.host = sources[i].host /\ \E p \in FirstFound(sources, i) : x.number = p.number
    <3>1. PICK p \in FirstFound(sources, i) : x = told(p, i)
      OBVIOUS
    <3>2. x.host = sources[i].host /\ x.number = p.number
      BY <3>1
    <3> QED
      BY <3>2
  <2>2. \A i \in 1 .. Len(sources) : \A p \in FirstFound(sources, i) : told(p, i) \in toldBy(i)
    OBVIOUS
  <2> QED
    BY <2>1, <2>2
<1>4. best = IF hits = {} THEN NoContact
             ELSE CHOOSE p \in hits : \A q \in hits :
                    \/ ContactScore(p) > ContactScore(q)
                    \/ ContactScore(p) = ContactScore(q) /\ p.number <= q.number
  BY DEF BestContact
<1> HIDE DEF hits, told, toldBy
<1>5. hits # {}
  BY <1>4
<1>6. ASSUME NEW x \in hits PROVE x.number \in Nat
  <2>1. PICK i \in 1 .. Len(sources) : \E p \in FirstFound(sources, i) : x.number = p.number
    BY <1>2, <1>3
  <2>2. PICK p \in Range(sources[i].phones) : x.number = p.number
    BY <2>1 DEF FirstFound
  <2> QED
    BY <1>1, <2>2, PagesAssumption
<1>7. /\ best \in hits
      /\ \A q \in hits : \/ ContactScore(best) > ContactScore(q)
                         \/ ContactScore(best) = ContactScore(q) /\ best.number <= q.number
  <2>1. \E p \in hits : \A q \in hits :
           \/ ContactScore(p) > ContactScore(q)
           \/ ContactScore(p) = ContactScore(q) /\ p.number <= q.number
    BY <1>5, <1>6, BestIs
  <2> QED
    BY <1>4, <1>5, <2>1
<1>8. ASSUME NEW q \in hits PROVE RoleScore(q.role) <= RoleScore(best.role)
  <2>1. PICK x \in 0 .. 4, y \in 0 .. 4 : x = RoleScore(q.role) /\ y = RoleScore(best.role)
    BY ScoreIs
  <2>2. PICK m \in 0 .. 19, n \in 0 .. 19 : m = ContactScore(q) /\ n = ContactScore(best)
    BY ScoreIs
  <2>3. 4 * x <= m /\ n <= 4 * y + 3
    BY <2>1, <2>2, ScoreIs
  <2>4. m <= n
    BY <1>7, <2>2
  <2>5. x <= y
    BY <2>1, <2>2, <2>3, <2>4
  <2> QED
    BY <2>1, <2>5
<1>9. ASSUME NEW i \in 1 .. Len(sources), NEW p \in FirstFound(sources, i)
      PROVE  RoleScore(p.role) <= RoleScore(best.role)
  <2>1. told(p, i) \in hits /\ told(p, i).role = p.role
    BY <1>2, <1>3
  <2> QED
    BY <1>8, <2>1
<1> QED
  BY <1>2, <1>3, <1>7, <1>9

(* The first source that says a number.                                    *)
LEMMA FirstSays ==
  ASSUME NEW n \in Nat, NEW I, I \subseteq 1 .. n, I # {}
  PROVE  \E i \in I : \A j \in 1 .. i - 1 : j \notin I
<1>1. PICK i \in I : \A j \in I : i <= j
  <2>1. I \subseteq Nat
    OBVIOUS
  <2> QED
    BY <2>1, LeastPlace
<1> QED
  BY <1>1

(* What _create_outreach_draft makes of a question.                        *)
LEMMA DraftIsAimed ==
  ASSUME NEW id \in OutreachIds, NEW r, r = CreateDraft(Asked[id]), r.contact # NoContact
  PROVE  /\ r.sources \in Seq(Range(Pages))
         /\ AllowedLocal(r.frame) # {} => HostMatches(r.contact.host, AllowedLocal(r.frame))
         /\ \A i \in 1 .. Len(r.sources) : \A p \in FirstFound(r.sources, i) :
              RoleScore(p.role) <= RoleScore(r.contact.role)
<1> DEFINE f == ResolveCase(Asked[id].question, Asked[id].history)
           sources == PagesOf(ContactSources(f, Asked[id]))
<1>1. r.frame = f /\ r.sources = sources /\ r.contact = BestContact(sources)
  BY DEF CreateDraft, DraftInFrame, DraftFrom
<1>2. /\ sources \in Seq(Range(Pages))
      /\ AllowedLocal(f) # {} =>
           \A i \in 1 .. Len(sources) : HostMatches(sources[i].host, AllowedLocal(f))
  BY AskedAssumption, SourcesOf
<1> HIDE DEF f, sources
<1>3. /\ \E i \in 1 .. Len(sources) : r.contact.host = sources[i].host
      /\ \A i \in 1 .. Len(sources) : \A p \in FirstFound(sources, i) :
           RoleScore(p.role) <= RoleScore(r.contact.role)
  BY <1>1, <1>2, ContactIs
<1> QED
  BY <1>1, <1>2, <1>3

SentAreDrafts ==
  \A id \in OutreachIds : delivered[id] > 0 =>
    draft[id] = Drafted[id] /\ draft[id].contact # NoContact

LEMMA SentToThePlace == ASSUME SentAreDrafts PROVE PlaceIsAsked
<1> SUFFICES ASSUME NEW id \in OutreachIds, delivered[id] > 0, AllowedLocal(draft[id].frame) # {}
             PROVE  HostMatches(draft[id].contact.host, AllowedLocal(draft[id].frame))
  BY DEF PlaceIsAsked
<1>1. draft[id] = CreateDraft(Asked[id]) /\ draft[id].contact # NoContact
  BY DEF SentAreDrafts, Drafted
<1> QED
  BY <1>1, DraftIsAimed

LEMMA SentToTheBest == ASSUME SentAreDrafts PROVE BestIsAsked
<1> SUFFICES ASSUME NEW id \in OutreachIds, delivered[id] > 0,
                    NEW i \in DOMAIN draft[id].sources, NEW p \in Range(draft[id].sources[i].phones),
                    i = CHOOSE k \in DOMAIN draft[id].sources :
                          /\ \E q \in Range(draft[id].sources[k].phones) : q.number = p.number
                          /\ \A j \in 1 .. k - 1 :
                               \A q \in Range(draft[id].sources[j].phones) : q.number # p.number
             PROVE  RoleScore(p.role) <= RoleScore(draft[id].contact.role)
  BY SMTT(30) DEF BestIsAsked
<1> DEFINE r == draft[id]
           sources == r.sources
           says(k) == \E q \in Range(sources[k].phones) : q.number = p.number
           I == {k \in 1 .. Len(sources) : says(k)}
<1>1. r = CreateDraft(Asked[id]) /\ r.contact # NoContact
  BY SMTT(30) DEF SentAreDrafts, Drafted
<1> HIDE DEF r
<1>2. /\ sources \in Seq(Range(Pages))
      /\ \A k \in 1 .. Len(sources) : \A q \in FirstFound(sources, k) :
           RoleScore(q.role) <= RoleScore(r.contact.role)
  BY <1>1, DraftIsAimed, SMTT(30)
<1> HIDE DEF sources
<1>3. DOMAIN sources = 1 .. Len(sources)
  BY <1>2
<1>4. i \in 1 .. Len(sources) /\ p \in Range(sources[i].phones)
  BY <1>3, ZenonT(60) DEF sources, r
<1>5. i \in I
  BY <1>4
<1> HIDE DEF says
<1>6. \E k \in 1 .. Len(sources) : says(k) /\ \A j \in 1 .. k - 1 : ~says(j)
  <2>1. Len(sources) \in Nat /\ I # {} /\ I \subseteq 1 .. Len(sources)
    <3>1. Len(sources) \in Nat
      BY <1>2, SMTT(30)
    <3> QED
      BY <1>5, <3>1, ZenonT(60)
  <2>2. PICK k \in I : \A j \in 1 .. k - 1 : j \notin I
    BY <2>1, FirstSays
  <2>3. \A j \in 1 .. k - 1 : j \in 1 .. Len(sources)
    BY <2>1, <2>2
  <2>4. says(k) /\ \A j \in 1 .. k - 1 : ~says(j)
    BY <2>2, <2>3
  <2> QED
    BY <2>1, <2>2, <2>4
<1> HIDE DEF I
<1>7. \A j \in 1 .. i - 1 : ~says(j)
  BY <1>3, <1>6, ZenonT(60) DEF says, sources, r
<1>8. p \in FirstFound(sources, i)
  BY <1>4, <1>7, ZenonT(60) DEF FirstFound, says
<1>9. RoleScore(p.role) <= RoleScore(r.contact.role)
  BY <1>2, <1>4, <1>8
<1> QED
  BY <1>9 DEF r

(* An office hears of a question once at most, unless two sent it at once  *)
(* or the outcome was in doubt; it is an office of the case's place; and   *)
(* whoever is written to has the highest role the sources name.            *)
THEOREM OfficeAskedOnce == OutreachSpec => []OfficeIsAskedOnce
<1>1. SentAreDrafts => PlaceIsAsked /\ BestIsAsked
  BY SentToThePlace, SentToTheBest
<1>2. OutreachSpec => []SentAreDrafts
  BY SentAsDrafted, PTL DEF SentAreDrafts
<1>3. OutreachSpec => [](OutreachTypeOK /\ DeliveredOnce /\ ReadableCopy)
  BY RecordsAreSentOnce
<1>4. OutreachTypeOK /\ DeliveredOnce /\ ReadableCopy /\ PlaceIsAsked /\ BestIsAsked
      => OfficeIsAskedOnce
  BY DEF OfficeIsAskedOnce
<1> QED
  BY <1>1, <1>2, <1>3, <1>4, PTL
=============================================================================
