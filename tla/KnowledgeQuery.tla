---------------------------- MODULE KnowledgeQuery ----------------------------
(***************************************************************************)
(* Questions about policies while the corpus changes under them            *)
(* (src/app/knowledge, src/app/grounding, the policy pages of              *)
(* src/app/portal/service.py): a question is embedded, the Melbourne date  *)
(* is read, eligible chunks are ranked in one statement, a model drafts an *)
(* answer over them, the draft is validated and its citations are built;   *)
(* then the employee opens a cited document, by a query of its own.        *)
(* Distances are abstracted: any TopK eligible chunks may rank first.      *)
(***************************************************************************)
EXTENDS KnowledgeIngestion

CONSTANTS
  Reader,     \* active Melbourne employees with a session; others are refused
  TopK,       \* DEFAULT_RETRIEVAL_TOP_K
  MaxDay      \* bound on the calendar

ASSUME ReaderAssumption == TopK \in 1 .. 6 /\ MaxDay \in Nat

VARIABLES
  today,     \* the date in Melbourne
  question   \* [Reader -> [pc, day, evidence, citations, page]]

(* What resolve_knowledge_applicability gives an active Melbourne employee. *)
Jurisdictions == {"GLOBAL", "AU-VIC"}
Audiences == {"all_employees", "melbourne_employees"}

(* Mutant: a document that takes effect tomorrow counts.                *)
OneDayEarly(d, day) ==
  /\ d.status = "approved"
  /\ d.source.effective <= day + 1 /\ day < d.source.expiry
  /\ d.source.jurisdiction \in Jurisdictions
  /\ d.source.audience \cap Audiences # {}

(* The WHERE clause of _build_retrieval_statement. *)
Eligible(d, day) ==
  /\ d.status = "approved"
  /\ d.source.effective <= day /\ day < d.source.expiry
  /\ d.source.jurisdiction \in Jurisdictions
  /\ d.source.audience \cap Audiences # {}

Chunks(day) ==
  UNION {{[id |-> Id(d.source), anchor |-> ChunksOfSource[d.source][n].anchor, index |-> n]
            : n \in DOMAIN ChunksOfSource[d.source]}
           : d \in {e \in documents : Eligible(e, day)}}

(* Mutant: a page asks for the employee's own jurisdiction.             *)
OwnJurisdiction(d, day) ==
  /\ d.status = "approved"
  /\ d.source.effective <= day /\ day < d.source.expiry
  /\ d.source.jurisdiction = "AU-VIC"
  /\ d.source.audience \cap Audiences # {}

(* The WHERE clause of _applicable_documents_statement, written a second   *)
(* time for the portal.                                                    *)
Applicable(d, day) ==
  /\ d.status = "approved"
  /\ d.source.effective <= day /\ (d.source.expiry > day)
  /\ d.source.jurisdiction = "GLOBAL" \/ d.source.jurisdiction = "AU-VIC"
  /\ d.source.audience \intersect Audiences # {}

Documents(chunks) == {e.id : e \in chunks}
Citations(chunks) == {[id |-> e.id, anchor |-> e.anchor] : e \in chunks}
-----------------------------------------------------------------------------
Idle == [pc |-> "idle", day |-> 0, evidence |-> {}, citations |-> {}, page |-> "none"]
Ended == {"answered", "insufficient", "conflicting", "error"}

QInit == Init /\ today = 0 /\ question = [r \in Reader |-> Idle]

Of(r, pcs) == question[r].pc \in pcs
Set(r, q) == question' = [question EXCEPT ![r] = q] /\ UNCHANGED <<documents, job, today>>

(* The route resolves whom the question is for before it is embedded. *)
Ask(r) ==
  /\ Of(r, {"idle"} \union Ended)
  /\ Set(r, [Idle EXCEPT !.pc = "embed"])

(* The query's vector arrives and the clock is read. *)
EmbedQuery(r) ==
  /\ Of(r, {"embed"})
  /\ Set(r, [question[r] EXCEPT !.pc = "search", !.day = today])

(* One statement ranks the eligible chunks; without one nothing is         *)
(* generated and the answer says so.                                       *)
Search(r) ==
  LET chunks == Chunks(question[r].day)
      n == IF Cardinality(chunks) < TopK THEN Cardinality(chunks) ELSE TopK
  IN  /\ Of(r, {"search"})
      /\ \E e \in kSubset(n, chunks) :
           Set(r, [question[r] EXCEPT !.evidence = e,
                                      !.pc = IF e = {} THEN "insufficient" ELSE "generate"])

(* GroundedAnswerDraft and build_knowledge_response: what a status must    *)
(* cite.                                                                   *)
Grounded(status, refs) ==
  CASE status = "answered" -> refs # {}
    [] status = "insufficient" -> refs = {}
    [] status = "conflicting" -> Cardinality(Documents(refs)) >= 2

Generate(r) ==
  /\ Of(r, {"generate"})
  /\ \E status \in {"answered", "insufficient", "conflicting"}, refs \in SUBSET question[r].evidence :
       /\ Grounded(status, refs)
       /\ Set(r, [question[r] EXCEPT !.pc = status, !.citations = Citations(refs)])

(* The provider fails, or its draft breaks the schema, names evidence that *)
(* was not retrieved, or grounds its status badly.                         *)
QueryFails(r) ==
  /\ Of(r, {"embed", "search", "generate"})
  /\ Set(r, [question[r] EXCEPT !.pc = "error"])

(* policy_document for a cited document, whenever the employee follows it. *)
OpenCitation(r) ==
  /\ Of(r, {"answered", "conflicting"})
  /\ \E cited \in question[r].citations :
       LET found == {d \in documents : Id(d.source) = cited.id /\ Applicable(d, today)}
       IN  Set(r, [question[r] EXCEPT
                     !.citations = {cited},
                     !.page = IF found = {} THEN "gone" ELSE "found"])

NextDay == today < MaxDay /\ today' = today + 1 /\ UNCHANGED <<documents, job, question>>

Step(r) == Ask(r) \/ EmbedQuery(r) \/ Search(r) \/ Generate(r) \/ QueryFails(r) \/ OpenCitation(r)
QNext ==
  \/ Next /\ UNCHANGED <<today, question>>
  \/ \E r \in Reader : Step(r)
  \/ NextDay

qvars == <<documents, job, today, question>>
QSpec == QInit /\ [][QNext]_qvars
-----------------------------------------------------------------------------
(* What is cited was published for this employee: never a draft, never a   *)
(* policy of the future, another jurisdiction or another audience, on the  *)
(* day it is read or any later one.                                        *)
CitesPublishedPolicy ==
  \A r \in Reader : \A cited \in question[r].citations :
    \E d \in documents :
      /\ Id(d.source) = cited.id
      /\ d.source.status = "approved" /\ d.source.effective <= today
      /\ d.source.jurisdiction \in Jurisdictions /\ d.source.audience \cap Audiences # {}

(* The two filters agree: a cited document cannot be opened any more only  *)
(* because a successor or its expiry date came in between.                 *)
GoneOnlyWhenReplaced ==
  \A r \in Reader : question[r].page = "gone" =>
    \A cited \in question[r].citations : \E d \in documents :
      /\ Id(d.source) = cited.id
      /\ d.status = "superseded" \/ d.source.expiry <= today

(* A policy with retrievable text loses it only to the calendar, or to a   *)
(* successor of its own that is not yet in effect here: ingestion          *)
(* supersedes at once, whatever the effective date of the new version.     *)
Covered(c) == \E d \in Approved(c) : Eligible(d, today)
GapOnlyFromSuccessor ==
  [][\A c \in {s.code : s \in Source} : Covered(c) /\ ~Covered(c)' =>
       \/ today' # today
       \/ \E d \in documents' \ documents :
            d.source.code = c /\ d.status = "approved" /\ ~Eligible(d, today)]_qvars
=============================================================================
