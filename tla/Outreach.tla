------------------------------- MODULE Outreach -------------------------------
(***************************************************************************)
(* The outreach of server/main.py: a question without an answer becomes a  *)
(* draft to an office, which an administrator sends over the WhatsApp      *)
(* bridge.  A record is a file in pending, sent or failed; writing one     *)
(* truncates it first.  Sends run on a pool of threads.                    *)
(*                                                                         *)
(* A page is a chunk with the mobile numbers in it, in order, as           *)
(* [number, role, named].                                                  *)
(***************************************************************************)
EXTENDS Search

CONSTANTS OutreachIds,
          Asked,        \* the question each draft is about, and its history
          Pages,        \* the corpus, in the order of bm25
          TopKGov,      \* payload.top_k_gov
          Senders,      \* threads of the administrator
          MaxDrafts, MaxSends, MaxDeaths     \* bounds

ASSUME IdsAssumption == "none" \notin OutreachIds /\ IsFiniteSet(Senders)
ASSUME OutreachAssumption ==
  /\ TopKGov \in Nat \ {0} /\ MaxDrafts \in Nat /\ MaxSends \in Nat /\ MaxDeaths \in Nat
ASSUME AskedAssumption == \A id \in OutreachIds : "words" \in DOMAIN Asked[id].question
\* A chunk is told by its id, and says a number once.
ASSUME PagesAssumption ==
  /\ Pages \in Seq(Range(Pages))
  /\ \A c, d \in Range(Pages) : c.id = d.id => c = d
  /\ \A c \in Range(Pages) :
       /\ c.phones \in Seq(Range(c.phones))
       /\ \A i, j \in DOMAIN c.phones : c.phones[i].number = c.phones[j].number => i = j
       /\ \A p \in Range(c.phones) : p.number \in Nat /\ p.named \in BOOLEAN

-----------------------------------------------------------------------------
(* Drafting.                                                               *)

\* _build_outreach_contact_query.
ContactQuery(frame, question) ==
  {"phone", "information officer"} \cup frame.expected \cup LocalDomains(frame)
  \cup ({frame.district, frame.municipality} \ {None})
  \cup (IF frame.office = "dao" THEN {"cdo"} ELSE {})
  \cup (IF {frame.district, frame.municipality, frame.office} = {None}
        THEN RetrievalQuery(question, frame) ELSE {})

\* The statements of one search over pages that are indexed once each.
PagesFound(s) ==
  LET once == [id \in {c.id : c \in Range(Pages)} |-> 1]
      direct == DirectContactRows(s, Pages, 8 * TopKGov)
  IN  IF s.contact /\ direct # <<>> THEN ContactResult(s, Pages, TopKGov)
      ELSE SearchResult(s, FtsRows(s, Pages, once, 64 * TopKGov), Pages, once, TopKGov)

Retrieved(query, contactFrame) ==
  FilterGovResults(contactFrame, PagesFound(Reading(RetrievalQuery(query, contactFrame))))

\* _run_retrieval for the contact query, which has a frame of its own.
SourcesFor(query, history) == Retrieved(query, ResolveCase(query, history))

ContactSources(frame, asked) ==
  SourcesFor([asked.question EXCEPT !.words = ContactQuery(frame, asked.question)],
             asked.history)

\* _outreach_candidates_from_source for each source: a number counts where it
\* is found first.
FirstFound(sources, i) ==
  {p \in Range(sources[i].phones) :
     \A j \in 1 .. i - 1 : \A q \in Range(sources[j].phones) : q.number # p.number}

Candidates(sources) ==
  UNION {{[number |-> p.number, role |-> p.role, named |-> p.named, host |-> sources[i].host,
           staff |-> "contact page" \in sources[i].marks] : p \in FirstFound(sources, i)} :
         i \in DOMAIN sources}

\* _rank_outreach_candidate, the smaller the better.
RoleScore(role) ==
  CASE role \in {"information officer", "helpdesk"} -> 4
    [] role = "grievance" -> 3
    [] role \in {"chief administrative", "office contact"} -> 2
    [] role = None -> 0
    [] OTHER -> 1
ContactScore(p) ==
  4 * RoleScore(p.role) + When(p.staff, 2) + When(p.named, 1)

NoContact == [number |-> 0, role |-> None, named |-> FALSE, host |-> None, staff |-> FALSE]

\* The best, and of equals the one with the smallest number.
BestContact(sources) ==
  LET found == Candidates(sources)
  IN  IF found = {} THEN NoContact
      ELSE CHOOSE p \in found : \A q \in found :
             \/ ContactScore(p) > ContactScore(q)
             \/ ContactScore(p) = ContactScore(q) /\ p.number <= q.number

\* _build_outreach_message: what of the case the office is told.
OutreachMessage(frame, question) ==
  [service |-> frame.service, action |-> frame.action,
   place |-> <<frame.district, frame.municipality, frame.ward>>,
   needs |-> question.words \cap {"documents", "fee", "phone"}]

PageOf(id) == CHOOSE c \in Range(Pages) : c.id = id

\* _create_outreach_draft.
DraftFrom(asked, frame, sources) ==
  [frame |-> frame, sources |-> sources, contact |-> BestContact(sources),
   message |-> OutreachMessage(frame, asked.question)]

PagesOf(found) == [i \in DOMAIN found |-> PageOf(found[i].id)]

DraftInFrame(asked, frame) == DraftFrom(asked, frame, PagesOf(ContactSources(frame, asked)))

CreateDraft(asked) == DraftInFrame(asked, ResolveCase(asked.question, asked.history))

Drafted == [id \in OutreachIds |-> CreateDraft(Asked[id])]

-----------------------------------------------------------------------------
(* Sending.                                                                *)

StatusDirs == {"pending", "sent", "failed"}

VARIABLES
  draft,      \* what the record of each id says, NoDraft before it is made
  file,       \* "none", "ok" or "cut" in each status directory
  sender,     \* what each thread is doing with which record
  delivered,  \* messages an office has received about a record
  \* Ghosts: a record was sent by two at once; it was delivered without the
  \* server knowing, or a write was cut off; and counts.
  shared, doubt, sends, deaths

outreachVars == <<draft, file, sender, delivered, shared, doubt, sends, deaths>>

NoDraft == [contact |-> NoContact]

Resting == [pc |-> "idle", id |-> "none", from |-> "none", to |-> "none"]

OutreachInit ==
  /\ draft = [id \in OutreachIds |-> NoDraft]
  /\ file = [id \in OutreachIds |-> [d \in StatusDirs |-> "none"]]
  /\ sender = [t \in Senders |-> Resting]
  /\ delivered = [id \in OutreachIds |-> 0]
  /\ shared = [id \in OutreachIds |-> FALSE] /\ doubt = [id \in OutreachIds |-> FALSE]
  /\ sends = 0 /\ deaths = 0

SendersOf(id) == {t \in Senders : sender[t].id = id}

\* admin_outreach_draft.
SaveDraft(id) ==
  /\ file[id] = [d \in StatusDirs |-> "none"] /\ ~doubt[id]
  /\ Cardinality({i \in OutreachIds : draft[i] # NoDraft}) < MaxDrafts
  /\ draft' = [draft EXCEPT ![id] = Drafted[id]]
  /\ file' = [file EXCEPT ![id].pending = "ok"]
  /\ UNCHANGED <<sender, delivered, shared, doubt, sends, deaths>>

\* Mutant: what has failed once is looked for before what was sent.
LoadFailedFirst(t, id, status) ==
  /\ sender[t] = Resting /\ sends < MaxSends
  /\ status \in {"pending", "failed"} /\ file[id][status] = "ok"
  /\ draft[id].contact # NoContact
  /\ status = "failed" => file[id].pending = "none"
  /\ sender' = [sender EXCEPT ![t] = [Resting EXCEPT !.pc = "call", !.id = id, !.from = status]]
  /\ shared' = [shared EXCEPT ![id] = @ \/ SendersOf(id) # {}]
  /\ sends' = sends + 1
  /\ UNCHANGED <<draft, file, delivered, doubt, deaths>>

\* admin_outreach_send: the first file there is, pending before sent before
\* failed.  One that is cut is an error, and one that was sent is not sent
\* again.
Load(t, id, status) ==
  /\ sender[t] = Resting /\ sends < MaxSends
  /\ status \in {"pending", "failed"} /\ file[id][status] = "ok"
  /\ draft[id].contact # NoContact
  /\ status = "failed" => file[id].pending = "none" /\ file[id].sent = "none"
  /\ sender' = [sender EXCEPT ![t] = [Resting EXCEPT !.pc = "call", !.id = id, !.from = status]]
  /\ shared' = [shared EXCEPT ![id] = @ \/ SendersOf(id) # {}]
  /\ sends' = sends + 1
  /\ UNCHANGED <<draft, file, delivered, doubt, deaths>>

\* The bridge answers that the message is sent.
Deliver(t) ==
  LET id == sender[t].id
  IN  /\ sender[t].pc = "call"
      /\ sender' = [sender EXCEPT ![t].pc = "save", ![t].to = "sent"]
      /\ delivered' = [delivered EXCEPT ![id] = @ + 1]
      /\ UNCHANGED <<draft, file, shared, doubt, sends, deaths>>

\* It is not running, or refuses.
Refuse(t) ==
  /\ sender[t].pc = "call"
  /\ sender' = [sender EXCEPT ![t].pc = "save", ![t].to = "failed"]
  /\ UNCHANGED <<draft, file, delivered, shared, doubt, sends, deaths>>

\* WHATSAPP_BRIDGE_TIMEOUT_SECONDS, or an answer that is no JSON: the message
\* may have been delivered.  Only the timeout is a failure to the handler; after
\* the other the record stays as it is.
Unanswered(t) ==
  LET id == sender[t].id
  IN  /\ sender[t].pc = "call"
      /\ \E n \in {0, 1} : /\ delivered' = [delivered EXCEPT ![id] = @ + n]
                           /\ doubt' = [doubt EXCEPT ![id] = @ \/ n = 1]
      /\ \/ sender' = [sender EXCEPT ![t] = Resting]
         \/ sender' = [sender EXCEPT ![t].pc = "save", ![t].to = "failed"]
      /\ UNCHANGED <<draft, file, shared, sends, deaths>>

\* _save_outreach_record truncates,
SaveBegins(t) ==
  LET s == sender[t]
  IN  /\ s.pc = "save"
      /\ file' = [file EXCEPT ![s.id][s.to] = "cut"]
      /\ sender' = [sender EXCEPT ![t].pc = "write"]
      /\ UNCHANGED <<draft, delivered, shared, doubt, sends, deaths>>

\* and writes;
SaveEnds(t) ==
  LET s == sender[t]
  IN  /\ s.pc = "write"
      /\ file' = [file EXCEPT ![s.id][s.to] = "ok"]
      /\ sender' = [sender EXCEPT ![t] = IF s.from = s.to THEN Resting
                                         ELSE [s EXCEPT !.pc = "unlink"]]
      /\ UNCHANGED <<draft, delivered, shared, doubt, sends, deaths>>

\* then the file that was read goes away, if it is another one.
Unlink(t) ==
  LET s == sender[t]
  IN  /\ s.pc = "unlink"
      /\ file' = [file EXCEPT ![s.id][s.from] = "none"]
      /\ sender' = [sender EXCEPT ![t] = Resting]
      /\ UNCHANGED <<draft, delivered, shared, doubt, sends, deaths>>

\* The process dies.  What was delivered is in doubt unless the record is
\* found among the sent ones before it is found where it came from; so is a
\* record that was being written in its own place.
Die ==
  /\ deaths < MaxDeaths /\ deaths' = deaths + 1
  /\ sender' = [t \in Senders |-> Resting]
  /\ doubt' = [id \in OutreachIds |-> doubt[id] \/ \E t \in SendersOf(id) :
                 \/ sender[t].to = "sent" /\ (sender[t].pc # "unlink" \/ sender[t].from = "pending")
                 \/ sender[t].pc = "write" /\ (sender[t].to = sender[t].from \/ shared[id])]
  /\ UNCHANGED <<draft, file, delivered, shared, sends>>

Send(t) == Deliver(t) \/ Refuse(t) \/ Unanswered(t) \/ SaveBegins(t) \/ SaveEnds(t) \/ Unlink(t)

OutreachNext ==
  \/ \E id \in OutreachIds : SaveDraft(id)
  \/ \E t \in Senders : Send(t) \/ \E id \in OutreachIds, d \in StatusDirs : Load(t, id, d)
  \/ Die

OutreachSpec == OutreachInit /\ [][OutreachNext]_outreachVars

-----------------------------------------------------------------------------
(* Properties.                                                             *)

\* Types of files and threads.
OutreachTypeOK ==
  /\ file \in [OutreachIds -> [StatusDirs -> {"none", "ok", "cut"}]]
  /\ \A t \in Senders :
       /\ sender[t].pc \in {"idle", "call", "save", "write", "unlink"}
       /\ (sender[t].pc = "idle") = (sender[t].id = "none")
       /\ (sender[t].pc \in {"save", "write", "unlink"}) = (sender[t].to # "none")
       /\ sender[t].pc = "unlink" => sender[t].from # sender[t].to
  /\ delivered \in [OutreachIds -> 0 .. MaxSends]

\* An office is not written to twice about one question, unless two sent it
\* at once, or a message was delivered without an answer or just before the
\* process died.
DeliveredOnce ==
  \A id \in OutreachIds : delivered[id] <= 1 \/ shared[id] \/ doubt[id]

\* A draft is never lost: some file of it can be read, but for the moment, or
\* the crash, in which the only one is written again.
ReadableCopy ==
  \A id \in OutreachIds :
    draft[id] # NoDraft =>
      \/ \E d \in StatusDirs : file[id][d] = "ok"
      \/ doubt[id]
      \/ \E t \in SendersOf(id) : /\ sender[t].pc = "write"
                                  /\ sender[t].from = sender[t].to \/ shared[id]

\* Whoever is written to about a case with a place is of an office of that
\* place, whatever pages the search brings: the contact is looked for with a
\* query and a frame of its own, made of the first frame.
PlaceIsAsked ==
  \A id \in OutreachIds :
    delivered[id] > 0 /\ AllowedLocal(draft[id].frame) # {}
    => HostMatches(draft[id].contact.host, AllowedLocal(draft[id].frame))

\* It is the best whom the sources name: nobody with a higher role on them is
\* passed over, but for a number that an earlier source gives without it.
BestIsAsked ==
  \A id \in OutreachIds :
    LET first(number) == CHOOSE i \in DOMAIN draft[id].sources :
          /\ \E p \in Range(draft[id].sources[i].phones) : p.number = number
          /\ \A j \in 1 .. i - 1 :
               \A p \in Range(draft[id].sources[j].phones) : p.number # number
    IN  delivered[id] > 0 =>
          \A i \in DOMAIN draft[id].sources : \A p \in Range(draft[id].sources[i].phones) :
            first(p.number) = i => RoleScore(p.role) <= RoleScore(draft[id].contact.role)

\* What is true of drafts at any time: no record is lost or sent twice, and
\* the right person is written to.
OfficeIsAskedOnce ==
  OutreachTypeOK /\ DeliveredOnce /\ ReadableCopy /\ PlaceIsAsked /\ BestIsAsked
=============================================================================
