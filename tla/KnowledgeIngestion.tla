-------------------------- MODULE KnowledgeIngestion --------------------------
(***************************************************************************)
(* The governed policy corpus and the processes that load it               *)
(* (src/app/ingestion, src/app/demo/cli.py): every process walks its files *)
(* in path order and, for each, looks the identity up, embeds outside any  *)
(* transaction, and then decides again and stores under an advisory lock   *)
(* on the document code.  A file's checksum covers everything but its      *)
(* location, so a source record stands for its own checksum; the embedding *)
(* profile has one legal value (models.py:80-82) and is left out.          *)
(***************************************************************************)
EXTENDS Chunking, FiniteSets, FiniteSetsExt

CONSTANTS
  Ingester,    \* processes of enterprise-ai-ingest and enterprise-ai-demo-bootstrap
  Bootstrap,   \* the latter, which verify what is stored
  Source,      \* what the files say
  Corpus,      \* [Ingester -> Seq(Source)]: each process's files, in path order
  Expected,    \* [documents, chunks, required]: the baseline a bootstrap verifies
  NoVersion    \* supersedes: null

(* A file is a record of its front matter and of its body; an expiry       *)
(* beyond every day stands for null.                                       *)
ASSUME SourceAssumption ==
  \A s \in Source :
    /\ s.status \in {"draft", "approved", "superseded"}
    /\ s.effective \in Nat
    /\ s.expiry \in Nat
    /\ s.body \in Seq(Line)
ASSUME CorpusAssumption ==
  /\ Bootstrap \subseteq Ingester
  /\ \A i \in Ingester : Corpus[i] \in Seq(Source) /\ Corpus[i] # <<>>

VARIABLES
  documents,   \* rows of documents, each with its chunks: [source, status, successor]
  job          \* [Ingester -> [pc, at]]: where a process is, and in which file

Id(s) == <<s.code, s.version>>
NoDocument == <<>>

(* DocumentMetadata's validator. *)
ValidMetadata(s) ==
  /\ s.expiry > s.effective
  /\ s.supersedes # NoVersion => s.status # "draft" /\ s.supersedes # s.version

(* What chunk makes of each body. *)
ChunksOfSource == [s \in Source |-> Chunk(s.body)]

Ingestible(s) == ValidMetadata(s) /\ s.status # "superseded"

Existing(s) == {d \in documents : Id(d.source) = Id(s)}
(* Mutant: an identity in use is a no-op whatever it says.              *)
IdentityOnly(s) == TRUE

SameContent(s) == \A d \in Existing(s) : d.source = s
Approved(c) == {d \in documents : d.source.code = c /\ d.status = "approved"}
(* Mutant: the predecessor is looked up by its version alone.           *)
AnyCode(s) == {d \in documents : s.status = "approved" /\ d.source.version = s.supersedes}

Predecessor(s) ==
  {d \in documents : s.status = "approved" /\ s.supersedes # NoVersion
                       /\ Id(d.source) = <<s.code, s.supersedes>>}

(* _validate_supersession: an approved version is the code's first, or its *)
(* predecessor is the code's only approved one.                            *)
MaySupersede(s) ==
  s.status = "approved" =>
    IF s.supersedes = NoVersion
    THEN Approved(s.code) = {}
    ELSE \E d \in Predecessor(s) :
           /\ d.status = "approved"
           /\ d.successor = NoDocument
           /\ Approved(s.code) \subseteq {d}

(* The baseline check of the bootstrap command, before and after. *)
AsExpected ==
  /\ Cardinality(documents) = Expected.documents
  /\ MapThenSumSet(LAMBDA d : Len(ChunksOfSource[d.source]), documents) = Expected.chunks
  /\ Expected.required \subseteq {Id(d.source) : d \in documents}
-----------------------------------------------------------------------------
Init ==
  /\ documents = {}
  /\ job = [i \in Ingester |-> [pc |-> "idle", at |-> 1]]

Current(i) == Corpus[i][job[i].at]
At(i, pcs) == job[i].pc \in pcs
Goto(i, pc) == job' = [job EXCEPT ![i].pc = pc]
Finish(i) == IF i \in Bootstrap THEN "verify" ELSE "done"
NextFile(i) ==
  job' = [job EXCEPT ![i] =
            IF @.at < Len(Corpus[i])
            THEN [pc |-> "find", at |-> @.at + 1]
            ELSE [@ EXCEPT !.pc = Finish(i)]]

(* A process is started, for the first time or again.  Only a bootstrap    *)
(* that finds the baseline in place skips the files.                       *)
Run(i) ==
  /\ At(i, {"idle", "done", "failed", "outage"})
  /\ job' = [job EXCEPT ![i] =
               [pc |-> IF i \in Bootstrap /\ AsExpected THEN "verify" ELSE "find",
                at |-> 1]]
  /\ UNCHANGED documents

(* parse_source_file and ingest_source refuse the file, and the run stops. *)
Reject(i) ==
  /\ At(i, {"find"})
  /\ ~Ingestible(Current(i))
  /\ Goto(i, "failed")
  /\ UNCHANGED documents

(* resolve_existing, on the row seen before embedding or under the lock. *)
ResolveExisting(i) ==
  /\ At(i, {"find", "decide"})
  /\ Ingestible(Current(i))
  /\ Existing(Current(i)) # {}
  /\ IF SameContent(Current(i)) THEN NextFile(i) ELSE Goto(i, "failed")
  /\ UNCHANGED documents

FindNothing(i) ==
  /\ At(i, {"find"})
  /\ Ingestible(Current(i))
  /\ Existing(Current(i)) = {}
  /\ Goto(i, "embed")
  /\ UNCHANGED documents

(* chunk and embed_documents; a document that cannot be chunked is an error. *)
Embed(i) ==
  /\ At(i, {"embed"})
  /\ Goto(i, IF ChunksOfSource[Current(i)] = <<>> THEN "failed" ELSE "lock")
  /\ UNCHANGED documents

(* Mutant: the lock is on the identity, not on the code.                *)
IdentityLock(i) == Id(Current(i))

LockKey(i) == Current(i).code
LockDocCode(i) ==
  /\ At(i, {"lock"})
  /\ \A j \in Ingester \ {i} : At(j, {"decide", "commit"}) => LockKey(j) # LockKey(i)
  /\ Goto(i, "decide")
  /\ UNCHANGED documents

SupersededBy(s, d) == [d EXCEPT !.status = "superseded", !.successor = Id(s)]

Decide(i) ==
  /\ At(i, {"decide"})
  /\ Existing(Current(i)) = {}
  /\ Goto(i, IF MaySupersede(Current(i)) THEN "commit" ELSE "failed")
  /\ UNCHANGED documents

(* The transaction commits: the document with its chunks, and its          *)
(* predecessor's transition with it.                                       *)
Commit(i) ==
  LET s == Current(i) IN
  /\ At(i, {"commit"})
  /\ documents' = (documents \ Predecessor(s))
       \union {SupersededBy(s, d) : d \in Predecessor(s)}
       \union {[source |-> s, status |-> s.status, successor |-> NoDocument]}
  /\ NextFile(i)

(* The provider or the database fails, or the process dies: an open        *)
(* transaction is rolled back and its lock released.                       *)
Fail(i) ==
  /\ At(i, {"find", "embed", "lock", "decide", "commit", "verify"})
  /\ Goto(i, "outage")
  /\ UNCHANGED documents

Verify(i) ==
  /\ At(i, {"verify"})
  /\ Goto(i, IF AsExpected THEN "done" ELSE "failed")
  /\ UNCHANGED documents

Work(i) ==
  \/ Run(i) \/ Reject(i) \/ ResolveExisting(i) \/ FindNothing(i) \/ Embed(i)
  \/ LockDocCode(i) \/ Decide(i) \/ Commit(i) \/ Verify(i)

Next == \E i \in Ingester : Work(i) \/ Fail(i)

vars == <<documents, job>>
Spec == Init /\ [][Next]_vars
-----------------------------------------------------------------------------
(* superseded_by_id is a chain that ends in the policy's only approved     *)
(* version, however the processes that load it interleave (the first look  *)
(* is taken outside the lock, an embedding call before the second): a      *)
(* superseded row names the stored version that declared it as its         *)
(* predecessor, and no two rows share an identity or a successor.          *)
OneApprovedVersion ==
  /\ \A d, e \in documents : d # e =>
       /\ Id(d.source) # Id(e.source)
       /\ d.successor = e.successor => d.successor = NoDocument
       /\ ~(d.source.code = e.source.code /\ d.status = "approved" /\ e.status = "approved")
  /\ \A d \in documents : d.status = "superseded" =>
       /\ \E e \in documents :
            /\ Id(e.source) = d.successor
            /\ <<e.source.code, e.source.supersedes>> = Id(d.source)
       /\ Approved(d.source.code) # {}

(* Every file a process has passed is stored as that process read it, even *)
(* when another process stored the identity first or a run failed between  *)
(* two files, and what is stored is the whole document: no row is without  *)
(* chunks, and its chunks cover its text without a gap.                    *)
PassedFilesAreStored ==
  /\ \A i \in Ingester : \A n \in DOMAIN Corpus[i] :
       n < job[i].at \/ (job[i].pc = "done" /\ i \notin Bootstrap) =>
         \E d \in documents : d.source = Corpus[i][n]
  /\ \A d \in documents : ChunksOfSource[d.source] # <<>> /\ WholeOrRefused(d.source.body)
=============================================================================
