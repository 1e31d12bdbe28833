------------------------------ MODULE MCKnowledge ------------------------------
(* A small corpus under questions: a policy whose successor takes effect a *)
(* day later and has a rival for its place, one that expires, a draft,     *)
(* documents for other people, and files nobody may ingest.                *)
EXTENDS KnowledgeQuery, TLC
CONSTANTS i1, i2, i3, r1

Heading(slug, tokens) == [slug |-> slug, labelled |-> TRUE, tokens |-> tokens]
Unlabelled == [Heading(<<"section">>, 2) EXCEPT !.labelled = FALSE]
Text(tokens) == Heading(NoSlug, tokens)
MCLine ==
  {Heading(<<"notes">>, 2), Heading(<<"rules">>, 4), Unlabelled}
    \union {Text(n) : n \in {0, 5, 11}}

(* Every small body is chunked whole or refused, those of the corpus and   *)
(* all others.                                                             *)
ASSUME EveryBodyIsWhole == \A document \in SmallBodies : WholeOrRefused(document)

Policy(code, version, effective, expiry, supersedes) ==
  [code |-> code, version |-> version, status |-> "approved", effective |-> effective,
   expiry |-> expiry, jurisdiction |-> "AU-VIC", audience |-> {"all_employees"},
   supersedes |-> supersedes, body |-> <<Text(5)>>]
(* Two chunks under one anchor. *)
Leave == [Policy("leave", "1", 0, 9, NoVersion) EXCEPT !.body = <<Heading(<<"notes">>, 2), Text(5)>>]
LeaveEdited == Policy("leave", "1", 0, 9, NoVersion)
LeaveNext == Policy("leave", "2", 1, 9, "1")
Rival == Policy("leave", "3", 0, 9, "1")
Travel == [Policy("travel", "1", 0, 1, NoVersion) EXCEPT !.jurisdiction = "GLOBAL"]
Managers == [Policy("managers", "1", 0, 9, NoVersion) EXCEPT !.audience = {"managers"}]
Draft == [Policy("pets", "1", 0, 9, NoVersion) EXCEPT !.status = "draft"]
Retired == [Policy("pets", "2", 0, 9, "1") EXCEPT !.status = "superseded"]
(* The heading leaves no room for a window that moves on. *)
Crowded == [Policy("pets", "3", 0, 9, NoVersion) EXCEPT
              !.body = <<Heading(<<"rules">>, 4), Text(5)>>]

MCSource == {Leave, LeaveEdited, LeaveNext, Rival, Travel, Managers, Draft, Retired, Crowded}
MCCorpus ==
  i1 :> <<Leave, LeaveNext>> @@ i2 :> <<Travel, Managers, Rival, Retired>>
    @@ i3 :> <<Draft, LeaveEdited, Crowded>>
MCExpected == [documents |-> 2, chunks |-> 3, required |-> {<<"leave", "2">>}]
=============================================================================
