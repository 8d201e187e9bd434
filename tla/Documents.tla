------------------------------ MODULE Documents ------------------------------
(***************************************************************************)
(* Business documents: a document is attached in one request, which cuts   *)
(* it into chunks, embeds them, and compares the routes it names with the  *)
(* Brain, while ingestions replace what the Brain knows; generated cases   *)
(* are then grounded in the chunks that are nearest to their endpoint.     *)
(***************************************************************************)
EXTENDS Naturals, Sequences, FiniteSets, FiniteSetsExt, SequencesExt

CONSTANTS
  Contents,  \* what may be attached: [text, refs]
  Texts,     \* texts the chunker is checked on
  Routes,    \* [method, path] of the endpoints an ingestion may find
  Fields,    \* names of an endpoint's fields, as words
  MaxChars,  \* max_chars, in small
  TopK,      \* top_k
  MaxDocs    \* bound: documents attached at once

VARIABLES
  brain,        \* the endpoints of the code model
  documents,    \* id -> content
  chunks,       \* rows of document_chunks: [doc, ordinal, text]
  divergences,  \* rows of spec_divergences: [doc, ref]
  request,      \* the request in flight
  grounded,     \* the last grounding: the fields it upgraded, the documents there were
  absent,       \* ghost: references the Brain lacked at some time of the request
  settled       \* ghost: no ingestion during the request

vars == <<brain, documents, chunks, divergences, request, grounded, absent, settled>>

(***************************************************************************)
(* Chunking: a text is a sequence of letters, spaces, joining newlines and *)
(* paragraph breaks                                                        *)
(***************************************************************************)
Space == " "
Newline == "n"
Break == "P"
Blank == {Space, Newline, Break}

Parts(text, separators) ==
  LET read(parts, letter) ==
        IF letter \in separators THEN Append(parts, <<>>)
        ELSE Append(Front(parts), Append(Last(parts), letter))
  IN SelectSeq(FoldLeft(read, << <<>> >>, text), LAMBDA part : part # <<>>)

Strip(text) ==
  LET letters == {i \in DOMAIN text : text[i] \notin Blank}
  IN IF letters = {} THEN <<>> ELSE SubSeq(text, Min(letters), Max(letters))

Paragraphs(text) ==
  LET stripped == [i \in DOMAIN Parts(text, {Break}) |-> Strip(Parts(text, {Break})[i])]
  IN SelectSeq(stripped, LAMBDA paragraph : paragraph # <<>>)

\* _split_long: at the last space of the window, or at the limit.
SplitLong[text \in Seq(STRING)] ==
  IF Len(text) <= MaxChars THEN (IF text = <<>> THEN <<>> ELSE <<text>>)
  ELSE LET spaces == {i \in 2 .. MaxChars : text[i] = Space}
           cut == IF spaces = {} THEN MaxChars ELSE Max(spaces) - 1
       IN <<Strip(SubSeq(text, 1, cut))>> \o SplitLong[Strip(SubSeq(text, cut + 1, Len(text)))]

\* Pieces are joined by a newline while they fit.
Pack(pieces) ==
  LET add(packed, piece) ==
        IF packed # <<>> /\ Len(Last(packed)) + 1 + Len(piece) <= MaxChars
        THEN Append(Front(packed), Last(packed) \o <<Newline>> \o piece)
        ELSE Append(packed, piece)
  IN FoldLeft(add, <<>>, pieces)

ChunkText(text) ==
  Pack(FlattenSeq([i \in DOMAIN Paragraphs(text) |-> SplitLong[Paragraphs(text)[i]]]))

Words(text) == Parts(text, Blank)

(***************************************************************************)
(* Reconciliation: references as they are written, [verb, path]            *)
(***************************************************************************)
Verbs == {"GET", "POST", "PUT", "PATCH", "DELETE"}

\* extract_route_references: other spellings of a verb are prose, and "/" alone is dropped.
References(content) ==
  {[method |-> ref.verb, path |-> ref.path] :
     ref \in {r \in content.refs : r.verb \in Verbs /\ r.path # ""}}

\* reconcile_document: nothing is flagged while the Brain holds no endpoint.
Missing(content, known) == IF known = {} THEN {} ELSE References(content) \ known

(***************************************************************************)
(* Behaviour                                                               *)
(***************************************************************************)
NoRequest == [pc |-> "idle", content |-> [text |-> <<>>, refs |-> {}], found |-> {}]

TypeOK ==
  /\ brain \subseteq Routes
  /\ DOMAIN documents \subseteq 1 .. MaxDocs
  /\ \A chunk \in chunks : chunk.doc \in 1 .. MaxDocs /\ chunk.ordinal \in Nat
  /\ \A row \in divergences : row.doc \in 1 .. MaxDocs
  /\ request.pc \in {"idle", "stored", "reconciled"}
  /\ grounded.fields \subseteq Fields
  /\ settled \in BOOLEAN

Init ==
  /\ brain = {} /\ documents = <<>> /\ chunks = {} /\ divergences = {}
  /\ request = NoRequest /\ grounded = [fields |-> {}, contents |-> {}]
  /\ absent = {} /\ settled = TRUE

\* Ids are not used again in the program; here one that is free is.
FreeId == Min(1 .. MaxDocs \ DOMAIN documents)

\* add_document and upload_document, up to the chunks; an upload must hold more than blanks.
\* When the embedding fails the request is rolled back.
Attach ==
  /\ request.pc = "idle" /\ DOMAIN documents # 1 .. MaxDocs
  /\ \E content \in Contents, uploaded \in BOOLEAN :
       /\ uploaded => Words(content.text) # <<>>
       /\ request' = [pc |-> "stored", content |-> content, found |-> {}]
       /\ absent' = References(content) \ brain
  /\ settled' = TRUE
  /\ UNCHANGED <<brain, documents, chunks, divergences, grounded>>

RollBack ==
  /\ request.pc # "idle" /\ request' = NoRequest
  /\ UNCHANGED <<brain, documents, chunks, divergences, grounded, absent, settled>>

Reconcile ==
  /\ request.pc = "stored"
  /\ request' = [request EXCEPT !.pc = "reconciled", !.found = Missing(request.content, brain)]
  /\ UNCHANGED <<brain, documents, chunks, divergences, grounded, absent, settled>>

\* The session of the request commits: the document, its chunks and its divergences.
Commit ==
  /\ request.pc = "reconciled"
  /\ LET cut == ChunkText(request.content.text)
     IN chunks' = chunks \cup {[doc |-> FreeId, ordinal |-> i, text |-> cut[i]] : i \in 1 .. Len(cut)}
  /\ documents' = [id \in DOMAIN documents \cup {FreeId} |->
                     IF id = FreeId THEN request.content ELSE documents[id]]
  /\ divergences' = divergences \cup {[doc |-> FreeId, ref |-> ref] : ref \in request.found}
  /\ request' = NoRequest
  /\ UNCHANGED <<brain, grounded, absent, settled>>

\* DELETE: chunks and divergences cascade.
Detach(id) ==
  /\ id \in DOMAIN documents
  /\ documents' = [other \in DOMAIN documents \ {id} |-> documents[other]]
  /\ chunks' = {chunk \in chunks : chunk.doc # id}
  /\ divergences' = {row \in divergences : row.doc # id}
  /\ UNCHANGED <<brain, request, grounded, absent, settled>>

\* An ingestion commits: what the Brain knows is replaced, divergences stay as they are.
Ingest ==
  /\ brain' \in (SUBSET Routes) \ {brain}
  /\ absent' = absent \cup (References(request.content) \ brain') /\ settled' = FALSE
  /\ UNCHANGED <<documents, chunks, divergences, request, grounded>>

(***************************************************************************)
(* Grounding: which chunks are nearest is the embedding's choice           *)
(***************************************************************************)
\* The field is looked for in the text, not as a word of it.
MentionsMutant(corpus, field) ==
  \E chunk \in corpus : \E i, j \in DOMAIN chunk.text : SubSeq(chunk.text, i, j) = field
Mentions(corpus, field) == \E chunk \in corpus : field \in ToSet(Words(chunk.text))

Nearest == kSubset(Min({TopK, Cardinality(chunks)}), chunks)

Ground ==
  /\ \E corpus \in Nearest :
       grounded' = [fields |-> {field \in Fields : Mentions(corpus, field)},
                    contents |-> {documents[id] : id \in DOMAIN documents}]
  /\ UNCHANGED <<brain, documents, chunks, divergences, request, absent, settled>>

Next ==
  \/ Attach \/ RollBack \/ Reconcile \/ Commit
  \/ \E id \in 1 .. MaxDocs : Detach(id)
  \/ Ingest \/ Ground

Spec == Init /\ [][Next]_vars

(***************************************************************************)
(* Properties                                                              *)
(***************************************************************************)
\* Whatever is cut, every chunk fits and none is empty, no letter is lost or moved, and a
\* word that fits in a chunk is never cut in two.
ChunkingIsFaithful ==
  \A text \in Texts :
    LET cut == ChunkText(text)
    IN /\ \A i \in DOMAIN cut : Words(cut[i]) # <<>> /\ Len(cut[i]) <= MaxChars
       /\ FlattenSeq(Words(FlattenSeq(cut))) = FlattenSeq(Words(text))
       /\ (\A word \in ToSet(Words(text)) : Len(word) <= MaxChars) =>
            FlattenSeq([i \in DOMAIN cut |-> Words(cut[i])]) = Words(text)

\* A field that is a word of a chunk is a word of the document: the chunker cuts none out of
\* a longer word.
ChunksKeepWords ==
  \A content \in Contents :
    LET cut == ChunkText(content.text)
    IN \A i \in 1 .. Len(cut) : \A field \in Fields :
         field \in ToSet(Words(cut[i])) => field \in ToSet(Words(content.text))

\* A divergence belongs to a document that is attached, and names a route the Brain lacked
\* at some time of the request; without an ingestion in between it names all of them.
DivergencesAreTrue ==
  /\ \A row \in divergences : row.doc \in DOMAIN documents
  /\ request.pc = "reconciled" =>
       /\ request.found \subseteq absent
       /\ settled /\ brain # {} => request.found = References(request.content) \ brain

\* A case is called grounded in the specification only for a field that was a word of a
\* document attached then: not of one that is gone, and not of a part of a word.
GroundingIsHonest ==
  \A field \in grounded.fields :
    \E content \in grounded.contents : field \in ToSet(Words(content.text))

DocumentsAreFaithful ==
  /\ Init => ChunkingIsFaithful
  /\ DivergencesAreTrue /\ GroundingIsHonest
=============================================================================
